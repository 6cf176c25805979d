----------------------------- MODULE AsyncClient -----------------------------
(***************************************************************************)
(* RBTLAsyncClient: the client a connector obtained, owned by a worker     *)
(* thread that calls process() every millisecond and moves the events into *)
(* a buffer, and the owner, which reads that buffer and reaches the client *)
(* itself through with_lock.  Client and buffer have a mutex each; a       *)
(* panic of the thread that holds the client's poisons it, after which     *)
(* every lock().expect panics.                                             *)
(*                                                                         *)
(* The worker's loop is split where another thread can come in between:    *)
(* before it reads the stop flag, before it takes the client's mutex, and  *)
(* (for the buffer, whose mutex it takes inside) before and after it hands *)
(* the events over.  The owner's closures are one step, under the mutex.   *)
(***************************************************************************)
EXTENDS Connector

CONSTANTS
  PostEndIters,  \* post_end_iters; 10
  PingWindows    \* the numbers of seconds the owner asks averages for

ASSUME AsyncAssumption ==
  /\ PostEndIters \in Nat \ {0}
  /\ PingWindows \subseteq Int

VARIABLES
  worker,        \* where the worker thread is
  itersLeft,     \* post_end_iters
  hasSentEnd,
  shouldStop,
  poisoned,      \* the client's mutex is poisoned
  buffer,        \* inner.events, of indices into events
  pendingEvents, \* pending_events, in the order it is stored in
  owner,         \* "none" before the client is handed over, "active",
                 \* "waiting" in wait() or Drop, "gone"
  read,          \* history: what it was given
  mixed,         \* history: it drained what a next_event had left over, though
                 \* the code asks it to use one of the two only
  ownEnds,       \* history: the events its own calls of end() queued
  handedOver     \* history: how many events there were when it began

workerVars == <<worker, itersLeft, hasSentEnd>>
ownerVars  == <<owner, read, mixed, ownEnds, handedOver>>
sharedVars == <<shouldStop, poisoned, buffer, pendingEvents>>

vars == <<connectorVars, clientVars, workerVars, ownerVars, sharedVars>>

Init ==
  /\ ConnectorInit
  /\ worker = "none" /\ itersLeft = PostEndIters /\ hasSentEnd = FALSE
  /\ shouldStop = FALSE /\ poisoned = FALSE /\ buffer = <<>> /\ pendingEvents = <<>>
  /\ owner = "none" /\ read = <<>> /\ mixed = FALSE /\ ownEnds = {} /\ handedOver = 0

ConnectorOnly == UNCHANGED <<workerVars, ownerVars, sharedVars>>

Connects == ConnectorSteps /\ ConnectorOnly

ClientMovesInConnector == ClientMovesInAttempt /\ ConnectorOnly

(* RBTLAsyncClient::new, with the connector's client; the connector is     *)
(* discarded.                                                              *)
NewAsync ==
  /\ connector = "connected"
  /\ connector' = "discarded" /\ offered' = {} /\ done' = {} /\ failed' = <<>>
  /\ owner' = "active" /\ worker' = "sleeping"
  /\ handedOver' = Len(events)
  /\ UNCHANGED <<clientVars, itersLeft, hasSentEnd, read, mixed, ownEnds, sharedVars>>

-----------------------------------------------------------------------------
(* The worker.                                                             *)
WorkerOnly == UNCHANGED <<connectorVars, ownerVars, shouldStop, pendingEvents>>

(* It has slept, and reads the flag.                                       *)
WorkerWakes ==
  /\ worker = "sleeping"
  /\ worker' = IF shouldStop THEN "stopping" ELSE "running"
  /\ WorkerOnly
  /\ UNCHANGED <<clientVars, itersLeft, hasSentEnd, poisoned, buffer>>

HoldsClient == worker \in {"processing", "flushing", "unlocking"}

LockFree == ~ HoldsClient /\ ~ poisoned

WorkerLocks ==
  /\ worker = "running" /\ ~ poisoned
  /\ worker' = "processing"
  /\ WorkerOnly
  /\ UNCHANGED <<clientVars, itersLeft, hasSentEnd, poisoned, buffer>>

(* The same when it is to stop; end() is called the first time only.       *)
WorkerLocksToStop ==
  /\ worker = "stopping" /\ ~ poisoned
  /\ worker' = "flushing"
  /\ hasSentEnd' = TRUE
  /\ IF hasSentEnd THEN UNCHANGED clientVars ELSE ClientEnds
  /\ WorkerOnly
  /\ UNCHANGED <<itersLeft, poisoned, buffer>>

InProcess == worker \in {"processing", "flushing"}

ClientMovesInWorker ==
  /\ InProcess /\ ClientMoves
  /\ WorkerOnly
  /\ UNCHANGED <<workerVars, poisoned, buffer>>

(* Mutant of WorkerHandsOver: the client is unlocked before the events     *)
(* are taken out of it.                                                    *)
WorkerHandsOverUnlocked ==
  \/ /\ worker = "processing" /\ worker' = "handing over"
     /\ UNCHANGED <<clientVars, buffer>>
     /\ WorkerOnly /\ UNCHANGED <<itersLeft, hasSentEnd, poisoned>>
  \/ /\ worker = "handing over" /\ worker' = "unlocking"
     /\ buffer' = buffer \o DrainedEvents
     /\ client' = [client EXCEPT !.queue = <<>>]
     /\ WorkerOnly
     /\ UNCHANGED <<events, sent, nextSeqId, pingVars, itersLeft, hasSentEnd, poisoned>>

(* Mutant of WorkerHandsOver: not once the connection is over.             *)
WorkerHandsOverUnlessOver ==
  /\ worker = "processing"
  /\ worker' = "unlocking"
  /\ IF IsConnOver(Status) THEN UNCHANGED <<client, buffer>>
       ELSE buffer' = buffer \o DrainedEvents /\ client' = [client EXCEPT !.queue = <<>>]
  /\ WorkerOnly
  /\ UNCHANGED <<events, sent, nextSeqId, pingVars, itersLeft, hasSentEnd, poisoned>>

(* process() has returned: the events go into the buffer.                  *)
WorkerHandsOver ==
  /\ worker = "processing"
  /\ worker' = "unlocking"
  /\ buffer' = buffer \o DrainedEvents
  /\ client' = [client EXCEPT !.queue = <<>>]
  /\ WorkerOnly
  /\ UNCHANGED <<events, sent, nextSeqId, pingVars, itersLeft, hasSentEnd, poisoned>>

(* post_process does nothing in either protocol.                           *)
WorkerUnlocks ==
  /\ worker = "unlocking"
  /\ worker' = "sleeping"
  /\ WorkerOnly
  /\ UNCHANGED <<clientVars, itersLeft, hasSentEnd, poisoned, buffer>>

(* Mutant of WorkerFlushes: the turns are not counted down.                *)
WorkerFlushesForever ==
  /\ worker = "flushing"
  /\ worker' = "sleeping"
  /\ WorkerOnly
  /\ UNCHANGED <<clientVars, itersLeft, hasSentEnd, poisoned, buffer>>

(* process() has returned in a turn after the stop.                        *)
WorkerFlushes ==
  /\ worker = "flushing"
  /\ itersLeft' = itersLeft - 1
  /\ worker' = IF itersLeft' = 0 THEN "done" ELSE "sleeping"
  /\ WorkerOnly
  /\ UNCHANGED <<clientVars, hasSentEnd, poisoned, buffer>>

(* process() of an rudp socket may panic (ReceiverPanics, SenderPanics).   *)
WorkerPanicsInProcess ==
  /\ InProcess /\ client.kind = "Rudp"
  /\ worker' = "panicked" /\ poisoned' = TRUE
  /\ WorkerOnly
  /\ UNCHANGED <<clientVars, itersLeft, hasSentEnd, buffer>>

(* The mutex was poisoned by the owner.                                    *)
WorkerPanicsOnLock ==
  /\ worker \in {"running", "stopping"} /\ poisoned
  /\ worker' = "panicked"
  /\ WorkerOnly
  /\ UNCHANGED <<clientVars, itersLeft, hasSentEnd, poisoned, buffer>>

WorkerSteps ==
  \/ WorkerWakes \/ WorkerLocks \/ WorkerLocksToStop \/ WorkerHandsOver \/ WorkerUnlocks
  \/ WorkerFlushes \/ WorkerPanicsOnLock

IsOver == worker \in {"done", "panicked"}

-----------------------------------------------------------------------------
(* The owner.                                                              *)
OwnerOnly == UNCHANGED <<connectorVars, workerVars, handedOver>>

(* drain_events, to its end: what next_event left over, as it is stored,   *)
(* or else the buffer, swapped for an empty one.                           *)
OwnerDrains ==
  /\ owner = "active"
  /\ pendingEvents \o buffer # <<>>
  /\ IF pendingEvents # <<>>
       THEN read' = read \o pendingEvents /\ UNCHANGED buffer
       ELSE read' = read \o buffer /\ buffer' = <<>>
  /\ pendingEvents' = <<>>
  /\ mixed' = (mixed \/ pendingEvents # <<>>)
  /\ OwnerOnly
  /\ UNCHANGED <<clientVars, shouldStop, poisoned, owner, ownEnds>>

(* Mutant of Swapped: the order is not reversed for pop().                 *)
SwappedInOrder == IF pendingEvents = <<>> THEN buffer ELSE pendingEvents

(* pending_events once it was refilled, if it had to be.                   *)
Swapped == IF pendingEvents = <<>> THEN Reverse(buffer) ELSE pendingEvents

(* next_event                                                              *)
OwnerReadsNext ==
  /\ owner = "active"
  /\ Swapped # <<>>
  /\ read' = Append(read, Last(Swapped))
  /\ pendingEvents' = Front(Swapped)
  /\ buffer' = IF pendingEvents = <<>> THEN <<>> ELSE buffer
  /\ OwnerOnly
  /\ UNCHANGED <<clientVars, shouldStop, poisoned, owner, mixed, ownEnds>>

OwnerReads == OwnerDrains \/ OwnerReadsNext

(* with_lock                                                               *)
UnderLock ==
  /\ owner = "active" /\ LockFree
  /\ OwnerOnly
  /\ UNCHANGED <<buffer, pendingEvents, read, mixed>>

OwnerSends ==
  /\ UnderLock /\ ClientSends
  /\ UNCHANGED <<shouldStop, poisoned, owner, ownEnds>>

OwnerEnds ==
  /\ UnderLock /\ ClientEnds
  /\ IsActive
  /\ ownEnds' = ownEnds \cup (DOMAIN events' \ DOMAIN events)
  /\ UNCHANGED <<shouldStop, poisoned, owner>>

(* with_lock(|c| c.ping(seconds)) with a negative number panics inside; or *)
(* with_lock finds the mutex poisoned.  The owner's thread unwinds, and    *)
(* drops the RBTLAsyncClient.                                              *)
OwnerPanics ==
  /\ owner = "active"
  /\ \/ LockFree /\ \E s \in PingWindows : AvgPingPanics(s)
     \/ poisoned
  /\ poisoned' = TRUE /\ shouldStop' = TRUE /\ owner' = "dropping"
  /\ OwnerOnly
  /\ UNCHANGED <<clientVars, buffer, pendingEvents, read, mixed, ownEnds>>

(* send_stop, after which events may still be read.                        *)
OwnerStops ==
  /\ owner = "active" /\ ~ shouldStop
  /\ shouldStop' = TRUE
  /\ OwnerOnly
  /\ UNCHANGED <<clientVars, poisoned, buffer, pendingEvents, owner, read, mixed,
                 ownEnds>>

(* wait, which joins the thread whether it was told to stop or not.        *)
OwnerWaits ==
  /\ owner = "active" /\ ~ IsOver
  /\ owner' = "waiting"
  /\ OwnerOnly
  /\ UNCHANGED <<clientVars, sharedVars, read, mixed, ownEnds>>

(* stop_and_wait, or the owner drops its RBTLAsyncClient.                  *)
OwnerDrops ==
  /\ owner = "active"
  /\ shouldStop' = TRUE
  /\ owner' = "dropping"
  /\ OwnerOnly
  /\ UNCHANGED <<clientVars, poisoned, buffer, pendingEvents, read, mixed, ownEnds>>

(* join returns, with an error if the worker panicked.                     *)
OwnerJoins ==
  /\ IsOver
  /\ \/ owner = "waiting" /\ owner' = "active"
     \/ owner = "dropping" /\ owner' = "gone"
  /\ OwnerOnly
  /\ UNCHANGED <<clientVars, sharedVars, read, mixed, ownEnds>>

(* The steps take no time, the sleep of the worker does.                   *)
TimePasses ==
  /\ worker = "sleeping" /\ owner = "active"
  /\ ClientAges
  /\ UNCHANGED <<connectorVars, workerVars, ownerVars, sharedVars>>

(* There is nothing left to do.                                            *)
Finishes == (connector = "failed" \/ owner = "gone") /\ UNCHANGED vars

Next ==
  \/ Connects \/ ClientMovesInConnector \/ NewAsync
  \/ WorkerSteps \/ ClientMovesInWorker \/ WorkerPanicsInProcess
  \/ OwnerReads \/ OwnerSends \/ OwnerEnds \/ OwnerPanics \/ OwnerStops
  \/ OwnerWaits \/ OwnerDrops \/ OwnerJoins
  \/ TimePasses \/ Finishes

Spec == Init /\ [][Next]_vars

(* The owner of a connector calls attempt_connect again and again, and a   *)
(* handshake does not stay unresolved through all the calls                *)
(* (ConnectionPrompt, TcpPrompt).  Then threads are scheduled, process()   *)
(* and join() return, and the owner reads its events.  Nothing makes it    *)
(* stop, or end, or send.                                                  *)
Fairness ==
  /\ WF_vars(Connects) /\ WF_vars(NewAsync)
  /\ SF_vars(HandshakeResolvesInAttempt /\ ConnectorOnly)
  /\ WF_vars(WorkerSteps)
  /\ WF_vars(OwnerReads)
  /\ WF_vars(OwnerJoins)

FairSpec == Spec /\ Fairness

-----------------------------------------------------------------------------
(* Properties                                                              *)

Indices == DOMAIN events

(* The types of the variables.                                             *)
TypeOK ==
  /\ PingTypeOK
  /\ offered \subseteq Range(Protocols) /\ done \subseteq Range(Protocols)
  /\ connector \in {"new", "idle", "inside", "connected", "failed", "discarded"}
  /\ worker \in {"none", "sleeping", "running", "stopping", "processing", "flushing",
                 "unlocking", "done", "panicked"}
  /\ itersLeft \in 0 .. PostEndIters
  /\ {shouldStop, hasSentEnd, poisoned} \subseteq BOOLEAN
  /\ owner \in {"none", "active", "waiting", "dropping", "gone"}
  /\ \A s \in {buffer, pendingEvents, read} : s \in Seq(Indices)
  /\ itersLeft = 0 <=> worker = "done"

(* Whatever the interleaving of the two threads and the swapping of the    *)
(* two buffers: what the owner has read, what is stored for it and what    *)
(* still is in the client are all the events there were but raw datagrams, *)
(* none twice and none missing, also when either thread panics; and they   *)
(* are in their order unless drain_events finds leftovers of next_event.   *)
NoEventLostOrReordered ==
  client # NoClient =>
    LET all    == read \o Reverse(pendingEvents) \o buffer \o DrainedEvents
        queued == Selected([i \in Indices |-> i], PassedOn)
    IN  /\ ~ mixed => all = queued
        /\ Len(all) = Len(queued) /\ Range(all) = Range(queued)

(* The status the owner learns from the events it has read or may read.    *)
ToldStatus ==
  LET told == {i \in Range(read \o pendingEvents \o buffer) : Len(RbtlEvent(events[i])) = 2}
  IN  IF told = {} THEN "Connecting" ELSE RbtlEvent(events[Max(told)])[2]

(* An owner that takes the client's mutex to look at its status finds the  *)
(* one its events tell it: the worker does not let go of the client        *)
(* between a change and its event, and the adapters name both alike.  This *)
(* is not so for what happened before the worker began and for its own     *)
(* calls of end(), until the worker comes round; for the end of an rudp    *)
(* socket, which is always told as one by the remote; and after the stop.  *)
StatusIsTold ==
  owner = "active" /\ LockFree /\ ~ hasSentEnd =>
    \/ \E i \in Range(client.queue) : i <= handedOver \/ i \in ownEnds
    \/ client.kind = "Rudp" /\ ownEnds # {}
    \/ ToldStatus = Status

(* A thread that was told to stop ends, whatever it was doing and whoever  *)
(* has panicked; so an owner that drops the client does not wait forever.  *)
StopTerminates == shouldStop ~> IsOver

(* The owner has always read all events again after some time, unless one  *)
(* of the two threads is stopped or the owner only waits.                  *)
EventsReachOwner ==
  []<>(\/ PassedOn \subseteq Range(read)
       \/ shouldStop \/ poisoned \/ owner # "active")
=============================================================================
