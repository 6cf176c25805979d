----------------------------- MODULE Connection -----------------------------
(***************************************************************************)
(* The life of one rbtl-rudp connection: the client's Socket, the Listener *)
(* and the socket it keeps for that client, from the first Syn to the      *)
(* removal of the remote (net/socket.rs, net/inner.rs, net/listener.rs).   *)
(*                                                                         *)
(* Each end is one thread.  process() is three kinds of steps: Begin reads *)
(* the clock, the Gets actions handle one datagram each, and the Finishes  *)
(* actions are inner_tick.  The clock stands still while an end is inside  *)
(* process(); between two calls the code dates what it does from the last  *)
(* one (cached_now), and the application drains the events, or does not.   *)
(*                                                                         *)
(* Time is kept as ages, saturated at the delays they are compared with.   *)
(* Public keys are numbers; 0 is the key that is not known yet.  Messages  *)
(* are best-effort ones of one fragment: the tracker and the assembler,    *)
(* which send nothing for these, are in ReliableTransfer.                  *)
(***************************************************************************)
EXTENDS PacketCodec, FiniteSets

CONSTANTS
  HeartbeatDelay,    \* SocketConfig::heartbeat_delay; 1 s
  TimeoutDelay,      \* SocketConfig::timeout_delay; 5 s
  SynDelay,          \* 3 s between two Syns
  ClearDelay,        \* 2 s before a finished remote is removed
  MaxIdle,           \* bound: time between two calls of process()
  MaxLosses,         \* bound: datagrams the network loses
  MaxDups,           \* bound: datagrams it delivers once more
  MaxSends,          \* bound: calls of send_data, of both ends
  MaxEnds,           \* bound: calls of send_end, of both ends
  MaxLate,           \* bound: datagrams that stay under way while time passes;
                     \* any of them, in any order and for any time
  ListenerDrains     \* bound: the listener's application drains events; no other
                     \* step depends on it

ASSUME ConnectionAssumption ==
  /\ {HeartbeatDelay, TimeoutDelay, SynDelay, ClearDelay, MaxIdle}
       \subseteq Nat \ {0}
  /\ {MaxLosses, MaxDups, MaxSends, MaxEnds, MaxLate} \subseteq Nat
  /\ ListenerDrains \in BOOLEAN

Ends == {"client", "server"}
Other(e) == IF e = "client" THEN "server" ELSE "client"

VARIABLES
  socks,         \* the client's socket, and the listener's one for it
  net,           \* datagrams in flight
  losses, dups, sends, ends,
  inProcess,     \* the ends that are inside process()
  sinceProcess,  \* per end, the age of cached_now
  dropped,       \* the ends whose Socket or Listener was dropped
  caughtUp       \* history: the ends whose application has drained the events
                 \* since its last process()

vars ==
  <<socks, net, losses, dups, sends, ends, inProcess, sinceProcess, dropped, caughtUp>>

NoSocket == [status |-> "None"]
Exists(e) == socks[e] # NoSocket

(* unread: the events queue, without repetitions.  seen: history, every    *)
(* event that was ever queued.                                             *)
NewSocket(status, self, other) ==
  [status |-> status, self |-> self, other |-> other,
   statusAge |-> 0, recvAge |-> 0, sentAge |-> 0, unread |-> {}, seen |-> {}]

IsFinished(s)     == s.status \in {"TimeoutError", "TerminateSent", "TerminateReceived"}
IsDisconnected(s) == s.status \in {"TimeoutError", "TerminateReceived"}

Pushed(s, events) == [s EXCEPT !.unread = @ \cup events, !.seen = @ \cup events]

StatusEvents(status) ==
  CASE status = "TimeoutError"  -> {"Timeout"}
    [] status = "TerminateSent" -> {"Ended"}
    [] status = "Connected"     -> {"Connected"}
    [] OTHER                    -> {}

(* set_status, dated age ago.                                              *)
WithStatus(s, status, age) ==
  Pushed([s EXCEPT !.status = status, !.statusAge = age], StatusEvents(status))

(* send_packet: a disconnected socket sends nothing, but believes it did.  *)
Emitted(e, s, layout) ==
  IF IsDisconnected(s) THEN {}
    ELSE {[to |-> Other(e), frag |-> layout, src |-> s.self, dst |-> s.other]}
HasSent(s, age) == [s EXCEPT !.sentAge = age]

ClientSocket == NewSocket("SynSent", 1, 0)

Init ==
  /\ socks = [e \in Ends |-> IF e = "client" THEN ClientSocket ELSE NoSocket]
  /\ net = Emitted("client", ClientSocket, ControlLayout("Syn"))
  /\ losses = 0 /\ dups = 0 /\ sends = 0 /\ ends = 0
  /\ inProcess = {} /\ dropped = {} /\ caughtUp = {}
  /\ sinceProcess = [e \in Ends |-> 0]

-----------------------------------------------------------------------------
(* The network: some datagrams are taken from it, others enter it.         *)
Moves(taken, entering) ==
  \E lost \in SUBSET entering, again \in SUBSET taken :
    /\ losses' = losses + Cardinality(lost) /\ losses' <= MaxLosses
    /\ dups' = dups + Cardinality(again) /\ dups' <= MaxDups
    /\ net' = (net \ (taken \ again)) \cup {p \in entering \ lost : p.to \notin dropped}

InFlight(e) == {p \in net : p.to = e}

(* Mutant of IsOld: compares with a clock that has just been read.         *)
IsOldAtOnce(e) == socks[e].statusAge >= ClearDelay

(* is_finished_and_old, before the clock is read: cached_now is that of    *)
(* the previous process().                                                 *)
IsOld(e) == socks[e].statusAge - sinceProcess[e] >= ClearDelay

(* Mutant of ShouldClear: a remote that timed out is kept.                 *)
ShouldClearEnded(e) ==
  IsFinished(socks[e]) /\ socks[e].status # "TimeoutError" /\ IsOld(e)

ShouldClear(e) == IsFinished(socks[e]) /\ IsOld(e)

(* process() starts; the listener first removes old remotes.  A call with  *)
(* no datagram to read and no time gone by since the last is left out.     *)
Begin(e) ==
  /\ e \notin inProcess \cup dropped
  /\ sinceProcess[e] > 0 \/ InFlight(e) # {}
  /\ inProcess' = inProcess \cup {e}
  /\ socks' = IF e = "server" /\ Exists(e) /\ ShouldClear(e)
                THEN [socks EXCEPT ![e] = NoSocket] ELSE socks
  /\ sinceProcess' = [sinceProcess EXCEPT ![e] = 0]
  /\ caughtUp' = caughtUp \ {e}
  /\ UNCHANGED <<net, losses, dups, sends, ends, dropped>>

-----------------------------------------------------------------------------
(* One datagram.  last_received_message is dated before the origin of the  *)
(* packet is checked.                                                      *)
Gets(e, p, s, answers) ==
  /\ e \in inProcess
  /\ socks' = [socks EXCEPT ![e] = s]
  /\ Moves({p}, answers)
  /\ UNCHANGED <<sends, ends, inProcess, sinceProcess, dropped, caughtUp>>

Is(p, variant) == IsControl(p.frag, variant)

Heard(e) == [socks[e] EXCEPT !.recvAge = 0]

(* Mutant of IsForUs: the source is not compared with the peer's key.      *)
IsForUsFromAnyone(s, p) ==
  \/ Is(p, "Syn")
  \/ p.dst = s.self

(* check_packet_origin                                                     *)
IsForUs(s, p) ==
  \/ Is(p, "Syn")
  \/ p.dst = s.self /\ (Is(p, "SynAck") \/ p.src = s.other)

Known(e, p) == Exists(e) /\ IsForUs(socks[e], p)

GetsForeign(e, p) ==
  /\ Exists(e) /\ ~ IsForUs(socks[e], p)
  /\ Gets(e, p, Heard(e), {})

GetsData(e, p) ==
  /\ Known(e, p) /\ IsFragment(p.frag)
  /\ Gets(e, p, Pushed(Heard(e), {"Data"}), {})

GetsHeartbeat(e, p) ==
  /\ Known(e, p) /\ Is(p, "Heartbeat")
  /\ Gets(e, p, Heard(e), {})

(* Mutant of GetsSyn: a Syn from a known remote is ignored.                *)
GetsSynSilently(e, p) ==
  /\ Known(e, p) /\ Is(p, "Syn")
  /\ Gets(e, p, Heard(e), {})

GetsSyn(e, p) ==
  /\ Known(e, p) /\ Is(p, "Syn")
  /\ Gets(e, p, HasSent(Heard(e), 0),
          Emitted(e, socks[e], ControlLayout("SynAck")))

(* The key of the remote, from which the shared secret is derived.          *)
Learnt(e, p) == WithStatus([Heard(e) EXCEPT !.other = p.src], "Connected", 0)

(* Mutant of GetsSynAck: whatever the status.                              *)
GetsSynAckAnyTime(e, p) ==
  /\ Known(e, p) /\ Is(p, "SynAck")
  /\ Gets(e, p, Learnt(e, p), {})

GetsSynAck(e, p) ==
  /\ Known(e, p) /\ Is(p, "SynAck")
  /\ \/ /\ socks[e].status = "SynSent"
        /\ Gets(e, p, Learnt(e, p), {})
     \/ /\ socks[e].status # "SynSent"
        /\ Gets(e, p, Heard(e), {})

GetsEnd(e, p) ==
  /\ Known(e, p)
  /\ \E last \in {<<"End", "Ended">>, <<"Abort", "Aborted">>} :
       /\ Is(p, last[1])
       /\ Gets(e, p, Pushed(WithStatus(Heard(e), "TerminateReceived", 0), {last[2]}), {})

(* Key pairs are random: a new one is a number in use nowhere.             *)
UsedKeys ==
  {0} \cup (UNION {{socks[e].self, socks[e].other} : e \in {d \in Ends : Exists(d)}})
      \cup (UNION {{p.src, p.dst} : p \in net})
FreshKey == CHOOSE k \in 1 .. Cardinality(UsedKeys) : k \notin UsedKeys

(* Mutant of Accepts: the remote is left in the status it is made with.    *)
AcceptsHalfway(p) ==
  LET s == NewSocket("SynReceived", FreshKey, p.src)
  IN  /\ ~ Exists("server") /\ Is(p, "Syn")
      /\ Gets("server", p, s, Emitted("server", s, ControlLayout("SynAck")))

(* process_one_incoming for a source that is not known: only a Syn makes a *)
(* remote (new_incoming).                                                  *)
Accepts(p) ==
  LET s == NewSocket("SynReceived", FreshKey, p.src)
  IN  /\ ~ Exists("server") /\ Is(p, "Syn")
      /\ Gets("server", p, WithStatus(s, "Connected", 0),
              Emitted("server", s, ControlLayout("SynAck")))

Ignores(p) ==
  /\ ~ Exists("server") /\ ~ Is(p, "Syn")
  /\ Gets("server", p, NoSocket, {})

Receives(e) ==
  \E p \in InFlight(e) :
    \/ GetsForeign(e, p) \/ GetsData(e, p) \/ GetsHeartbeat(e, p) \/ GetsSyn(e, p)
    \/ GetsSynAck(e, p) \/ GetsEnd(e, p)
    \/ e = "server" /\ (Accepts(p) \/ Ignores(p))

-----------------------------------------------------------------------------
(* inner_tick                                                              *)
Leaves(e, s, packets) ==
  /\ e \in inProcess
  /\ Cardinality(InFlight(e)) <= MaxLate
  /\ socks' = [socks EXCEPT ![e] = s]
  /\ Moves({}, packets)
  /\ inProcess' = inProcess \ {e}
  /\ UNCHANGED <<sends, ends, sinceProcess, dropped, caughtUp>>

IsTimedOut(s) == ~ IsFinished(s) /\ s.recvAge >= TimeoutDelay

(* Mutant of IsHeartbeatDue: a heartbeat answers silence.                  *)
IsHeartbeatDueOnSilence(s) == s.status = "Connected" /\ s.recvAge > HeartbeatDelay

IsHeartbeatDue(s) == s.status = "Connected" /\ s.sentAge > HeartbeatDelay

IsSynDue(s) == s.status = "SynSent" /\ s.statusAge > SynDelay

FinishesTimedOut(e) ==
  /\ Exists(e) /\ IsTimedOut(socks[e])
  /\ Leaves(e, WithStatus(socks[e], "TimeoutError", 0), {})

FinishesWithHeartbeat(e) ==
  /\ Exists(e) /\ ~ IsTimedOut(socks[e]) /\ IsHeartbeatDue(socks[e])
  /\ Leaves(e, HasSent(socks[e], 0),
            Emitted(e, socks[e], ControlLayout("Heartbeat")))

FinishesWithSyn(e) ==
  /\ Exists(e) /\ ~ IsTimedOut(socks[e]) /\ IsSynDue(socks[e])
  /\ Leaves(e, HasSent(WithStatus(socks[e], "SynSent", 0), 0),
            Emitted(e, socks[e], ControlLayout("Syn")))

FinishesQuietly(e) ==
  \/ ~ Exists(e) /\ Leaves(e, NoSocket, {})
  \/ /\ Exists(e)
     /\ ~ (IsTimedOut(socks[e]) \/ IsHeartbeatDue(socks[e]) \/ IsSynDue(socks[e]))
     /\ Leaves(e, socks[e], {})

Finishes(e) ==
  \/ FinishesTimedOut(e) \/ FinishesWithHeartbeat(e)
  \/ FinishesWithSyn(e) \/ FinishesQuietly(e)

-----------------------------------------------------------------------------
(* The applications, between two calls of process().                       *)
AppCalls(e) == e \notin inProcess /\ Exists(e)

AppSends(e) ==
  /\ AppCalls(e) /\ sends < MaxSends
  /\ sends' = sends + 1
  /\ socks' = [socks EXCEPT ![e] = HasSent(@, sinceProcess[e])]
  /\ Moves({}, Emitted(e, socks[e], FragmentLayout(0, 0)))
  /\ UNCHANGED <<ends, inProcess, sinceProcess, dropped, caughtUp>>

(* send_end, whatever the status.                                          *)
AppEnds(e) ==
  /\ AppCalls(e) /\ ends < MaxEnds
  /\ ends' = ends + 1
  /\ socks' = [socks EXCEPT ![e] = WithStatus(HasSent(@, sinceProcess[e]),
                                              "TerminateSent", sinceProcess[e])]
  /\ Moves({}, Emitted(e, socks[e], ControlLayout("End")))
  /\ UNCHANGED <<sends, inProcess, sinceProcess, dropped, caughtUp>>

Drained(s) == [s EXCEPT !.unread = {}]

(* drain_events of the listener's application, as often as it likes.  What *)
(* the client's drains no step depends on.                                 *)
AppDrains ==
  /\ ListenerDrains /\ AppCalls("server")
  /\ "server" \notin caughtUp \/ socks["server"].unread # {}
  /\ socks' = [socks EXCEPT !["server"] = Drained(@)]
  /\ caughtUp' = caughtUp \cup {"server"}
  /\ UNCHANGED <<net, losses, dups, sends, ends, inProcess, sinceProcess, dropped>>

(* The client's socket, or the listener with its sockets, is dropped: a    *)
(* connection that is not finished is aborted.                             *)
AppDrops(e) ==
  LET aborts == IF Exists(e) /\ ~ IsFinished(socks[e])
                  THEN Emitted(e, socks[e], ControlLayout("Abort")) ELSE {}
  IN  /\ e \notin inProcess \cup dropped
      /\ dropped' = dropped \cup {e}
      /\ socks' = [socks EXCEPT ![e] = NoSocket]
      /\ Moves(InFlight(e), aborts) /\ dups' = dups
      /\ sinceProcess' = [sinceProcess EXCEPT ![e] = 0]
      /\ caughtUp' = caughtUp \ {e}
      /\ UNCHANGED <<sends, ends, inProcess>>

-----------------------------------------------------------------------------
Older(age, limit) == IF age < limit THEN age + 1 ELSE age

StatusAgeLimit(s) ==
  CASE s.status = "SynSent"   -> SynDelay + 1
    [] s.status = "Connected" -> 0
    [] OTHER                  -> ClearDelay + MaxIdle

AgedSocket(s) ==
  [s EXCEPT !.statusAge = Older(@, StatusAgeLimit(s)),
            !.recvAge   = IF IsFinished(s) THEN @ ELSE Older(@, TimeoutDelay),
            !.sentAge   = IF IsFinished(s) THEN @ ELSE Older(@, HeartbeatDelay + 1)]

TimePasses ==
  /\ inProcess = {}
  /\ Cardinality(net) <= MaxLate
  /\ \A e \in Ends \ dropped : sinceProcess[e] < MaxIdle
  /\ sinceProcess' = [e \in Ends |-> IF e \in dropped THEN 0 ELSE sinceProcess[e] + 1]
  /\ socks' = [e \in Ends |-> IF Exists(e) THEN AgedSocket(socks[e]) ELSE NoSocket]
  /\ UNCHANGED <<net, losses, dups, sends, ends, inProcess, dropped, caughtUp>>

Next ==
  \/ \E e \in Ends : \/ Begin(e) \/ Receives(e) \/ Finishes(e)
                     \/ AppSends(e) \/ AppEnds(e) \/ AppDrops(e)
  \/ AppDrains
  \/ TimePasses

Spec == Init /\ [][Next]_vars

(* Both applications call process() again and again, it reads what the     *)
(* system has for it and returns, and time goes on.                        *)
Fairness ==
  /\ \A e \in Ends : WF_vars(Begin(e)) /\ WF_vars(Receives(e)) /\ WF_vars(Finishes(e))
  /\ WF_vars(TimePasses)

FairSpec == Spec /\ Fairness

-----------------------------------------------------------------------------
(* Properties                                                              *)

Events == {"Connected", "Data", "Ended", "Aborted", "Timeout"}

SocketRecord ==
  [status : {"SynSent", "Connected", "TimeoutError", "TerminateSent",
             "TerminateReceived"},
   self : Nat \ {0}, other : Nat, statusAge : Nat, recvAge : 0 .. TimeoutDelay,
   sentAge : Nat, unread : SUBSET Events, seen : SUBSET Events]

(* The types of the variables; SynReceived does not outlive the call that  *)
(* creates a remote, which is born with the client's key, and a remote of  *)
(* the listener never waits for a SynAck.                                  *)
TypeOK ==
  /\ DOMAIN socks = Ends
  /\ \A e \in Ends : Exists(e) => socks[e] \in SocketRecord
  /\ Exists("server") => socks["server"].other = 1 /\ socks["server"].status # "SynSent"
  /\ net \subseteq [to : Ends, frag : Nat \X Nat, src : Nat \ {0}, dst : Nat]
  /\ losses \in 0 .. MaxLosses /\ dups \in 0 .. MaxDups
  /\ sends \in 0 .. MaxSends /\ ends \in 0 .. MaxEnds
  /\ inProcess \subseteq Ends /\ dropped \subseteq Ends /\ inProcess \cap dropped = {}
  /\ sinceProcess \in [Ends -> 0 .. MaxIdle]
  /\ caughtUp \subseteq Ends /\ caughtUp \cap inProcess = {}

(* An application that is given data was told before that it is connected, *)
(* although the other end may send as soon as it has answered the Syn, and *)
(* the answer may be lost or come after the data.                          *)
DataFollowsConnected ==
  \A e \in Ends : Exists(e) /\ "Data" \in socks[e].seen => "Connected" \in socks[e].seen

(* A connection that has ended, whichever way, does not come back to life, *)
(* whatever datagrams of its handshake are still under way.                *)
FinishedIsFinal ==
  [][\A e \in Ends : Exists(e) /\ IsFinished(socks[e]) =>
       socks'[e] = NoSocket \/ IsFinished(socks'[e])]_vars

(* The listener removes a remote by the age of its end alone, and does not *)
(* look at its events.  Still, an application that drains them between any *)
(* two calls of process() has been given every one of them when the remote *)
(* goes, among them how it ended: also that of a send_end after the drain, *)
(* for the two seconds run from the clock of the call before it.           *)
RemovalIsAnnounced ==
  [][Exists("server") /\ socks'["server"] = NoSocket /\ "server" \notin dropped' =>
       /\ "server" \in caughtUp => socks["server"].unread = {}
       /\ socks["server"].seen \cap {"Ended", "Aborted", "Timeout"} # {}]_vars

IsAlive(e) == Exists(e) /\ ~ IsFinished(socks[e])

(* An end that times out is not alone in being alive: the heartbeats of    *)
(* the other end, or the Syns of a client whose SynAck was lost, reach it  *)
(* in time as long as no more than MaxLosses datagrams are lost.           *)
NoSpuriousTimeout ==
  [][\A e \in Ends : IsAlive(e) /\ socks'[e].status = "TimeoutError"
                       => ~ IsAlive(Other(e))]_vars

(* A handshake ends: the client is connected, or learns that it is not.    *)
HandshakeResolves ==
  Exists("client") /\ socks["client"].status = "SynSent"
    ~> ~ (Exists("client") /\ socks["client"].status = "SynSent")

(* When the client's connection is over, the listener forgets it, even if  *)
(* the End or Abort that tells it so is lost.                              *)
GhostsVanish ==
  ~ IsAlive("client") ~> ~ Exists("server")

(* Two ends that both report themselves connected, one of them to a remote *)
(* that no longer exists, do not stay so.                                  *)
Disagree ==
  /\ \A e \in Ends : Exists(e) /\ socks[e].status = "Connected"
  /\ socks["client"].other # socks["server"].self

DisagreementEnds == Disagree ~> ~ Disagree
=============================================================================
