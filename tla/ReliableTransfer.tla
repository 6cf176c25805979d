-------------------------- MODULE ReliableTransfer --------------------------
(***************************************************************************)
(* Messages from one end of an rbtl-rudp connection to the other: the      *)
(* SentDataTracker of the sending socket, the FragmentAssembler of the     *)
(* receiving one, and the datagrams between them, which may be lost,       *)
(* duplicated, delayed and reordered.  The sender is the client, which may *)
(* call send_data before its handshake is over; the receiver is the        *)
(* listener's socket, which has the shared secret from the start.  The     *)
(* acks of the other direction are the same code and touch no state of     *)
(* this one.                                                               *)
(*                                                                         *)
(* Each end is one thread.  A call of process() reads the clock once       *)
(* (cached_now), handles any number of datagrams, and ends with            *)
(* inner_tick; the clock does not move while an end is inside it.          *)
(***************************************************************************)
EXTENDS FragmentAssembler, SentDataTracker

CONSTANTS
  MaxLosses,     \* bound: datagrams the network loses
  MaxDups,       \* bound: datagrams it delivers once more
  MaxIdle,       \* bound: units of time an application lets pass between
                 \* two calls of process()
  Prompt,        \* TRUE: a datagram arrives in the unit of time it is sent in
  EarlySend      \* TRUE: the application may send before its SynAck

ASSUME TransferAssumption ==
  /\ Seq = Messages
  /\ MaxLosses \in Nat
  /\ MaxDups \in Nat
  /\ MaxIdle \in Nat \ {0}
  /\ Prompt \in BOOLEAN
  /\ EarlySend \in BOOLEAN

Ends == {"sender", "receiver"}

VARIABLES
  fragNet,       \* Fragment datagrams in flight
  ackNet,        \* Ack datagrams in flight
  losses, dups,
  inProcess,     \* the ends that are inside process()
  sinceProcess,  \* per end, the age of its cached_now
  connected,     \* the sender has had its SynAck: it has the secret, and
                 \* the listener recognises its datagrams
  sentEarly      \* history: the messages sent before that

netVars == <<fragNet, ackNet, losses, dups>>

vars ==
  <<assemblerVars, trackerVars, netVars, inProcess, sinceProcess, connected, sentEarly>>

Init ==
  /\ AssemblerInit
  /\ TrackerInit
  /\ fragNet = {} /\ ackNet = {} /\ losses = 0 /\ dups = 0
  /\ inProcess = {}
  /\ sinceProcess = [e \in Ends |-> 0]
  /\ connected = FALSE
  /\ sentEarly = {}

-----------------------------------------------------------------------------
(* The network.  Before the client has the SynAck its fragments name no    *)
(* destination, and the listener's check_packet_origin drops them all.     *)
TransmitFragments(frags) ==
  IF connected
    THEN \E lost \in SUBSET frags :
           /\ losses + Cardinality(lost) <= MaxLosses
           /\ losses' = losses + Cardinality(lost)
           /\ fragNet' = fragNet \cup (frags \ lost)
    ELSE UNCHANGED <<losses, fragNet>>

TransmitAcks(acks) ==
  \E lost \in SUBSET acks :
    /\ losses + Cardinality(lost) <= MaxLosses
    /\ losses' = losses + Cardinality(lost)
    /\ ackNet' = ackNet \cup (acks \ lost)

(* A datagram is received; the network may still hold a copy of it.        *)
Take(p, net, netNext) ==
  \/ netNext = net \ {p} /\ UNCHANGED dups
  \/ dups < MaxDups /\ dups' = dups + 1 /\ netNext = net

ReadsClock(end) == sinceProcess' = [sinceProcess EXCEPT ![end] = 0]

Enter(end) == inProcess' = inProcess \cup {end} /\ ReadsClock(end)
Leave(end) == inProcess' = inProcess \ {end} /\ ReadsClock(end)

-----------------------------------------------------------------------------
(* The sender: its application, and its process().                         *)
AppSends ==
  /\ "sender" \notin inProcess
  /\ connected \/ EarlySend
  /\ \E m \in Outgoing :
       \/ /\ SendData(m, connected, sinceProcess["sender"], FirstTransmission(nextSeqId, m))
          /\ TransmitFragments(FirstTransmission(nextSeqId, m))
       \/ SendDataFails(m, connected) /\ UNCHANGED <<losses, fragNet>>
  /\ sentEarly' = sentEarly \cup IF connected THEN {} ELSE DOMAIN accepted' \ DOMAIN accepted
  /\ UNCHANGED <<assemblerVars, ackNet, dups, inProcess, sinceProcess, connected>>

SenderConnects ==
  /\ ~ connected /\ ~ senderPanicked
  /\ connected' = TRUE
  /\ Enter("sender")
  /\ UNCHANGED <<assemblerVars, trackerVars, netVars, sentEarly>>

SenderReceivesAck ==
  /\ \E p \in ackNet : ReceiveAck(p.seq, p.ack) /\ Take(p, ackNet, ackNet')
  /\ Enter("sender")
  /\ UNCHANGED <<assemblerVars, fragNet, losses, connected, sentEarly>>

SenderTicks ==
  LET frags == UNION {ResentFragments(q) : q \in ResentSeqs}
  IN  /\ TrackerTick(frags)
      /\ TransmitFragments(frags)
      /\ Leave("sender")
      /\ UNCHANGED <<assemblerVars, ackNet, dups, connected, sentEarly>>

SenderPanics ==
  /\ \E before \in SUBSET ResentSeqs :
       LET frags == UNION {ResentFragments(q) : q \in before}
       IN  TrackerPanic(before, frags) /\ TransmitFragments(frags)
  /\ Leave("sender")
  /\ UNCHANGED <<assemblerVars, ackNet, dups, connected, sentEarly>>

-----------------------------------------------------------------------------
(* The receiver's process().                                               *)
ReceiverReceivesFragment ==
  /\ \E f \in fragNet : Push(f, TRUE) /\ Take(f, fragNet, fragNet')
  /\ Enter("receiver")
  /\ UNCHANGED <<trackerVars, ackNet, losses, connected, sentEarly>>

ReceiverTicks ==
  /\ \E acks \in SUBSET UNION {AckPackets(q) : q \in DueSeqs} :
       AssemblerTick(acks) /\ TransmitAcks(acks)
  /\ Leave("receiver")
  /\ UNCHANGED <<trackerVars, fragNet, dups, connected, sentEarly>>

ReceiverPanics ==
  /\ AssemblerPanic
  /\ Leave("receiver")
  /\ UNCHANGED <<trackerVars, netVars, connected, sentEarly>>

-----------------------------------------------------------------------------
(* The ends whose thread is gone.                                          *)
Stopped ==
  {e \in Ends : IF e = "sender" THEN senderPanicked ELSE receiverPanicked}

TimePasses ==
  /\ inProcess = {}
  /\ Prompt => fragNet = {} /\ ackNet = {}
  /\ AssemblerAges
  /\ TrackerAges
  /\ \A e \in Ends : sinceProcess[e] < MaxIdle \/ e \in Stopped
  /\ sinceProcess' = [e \in Ends |-> AtMost(sinceProcess[e] + 1, MaxIdle)]
  /\ UNCHANGED <<netVars, inProcess, connected, sentEarly>>

Next ==
  \/ AppSends
  \/ SenderConnects
  \/ SenderReceivesAck
  \/ SenderTicks
  \/ SenderPanics
  \/ ReceiverReceivesFragment
  \/ ReceiverTicks
  \/ ReceiverPanics
  \/ TimePasses

Spec == Init /\ [][Next]_vars

(* Both applications keep calling process(), which reads every datagram    *)
(* the system has for it, and time goes on.  What is lost is bounded by    *)
(* MaxLosses, so nothing is asked of the datagrams sent again.             *)
Fairness ==
  /\ WF_vars(SenderConnects)
  /\ WF_vars(SenderReceivesAck)
  /\ WF_vars(SenderTicks)
  /\ WF_vars(ReceiverReceivesFragment)
  /\ WF_vars(ReceiverTicks)
  /\ WF_vars(TimePasses)

FairSpec == Spec /\ Fairness

-----------------------------------------------------------------------------
(* Properties                                                              *)

Copies(q) == delivered[q].intact + delivered[q].garbled

AckPacket ==
  [seq : Seq, ack : [bytes : Nat, bits : SUBSET Nat]]

SentDataSet ==
  [msg : Outgoing, age : Nat, sentAge : 0 .. ResendDelay,
   lastAck : SUBSET [bytes : Nat, bits : SUBSET Nat], ackAge : 0 .. CleanupDelay,
   oldest : SUBSET (0 .. ResendDelay), done : BOOLEAN]

(* The types of the variables; a tracked message was accepted, nothing is  *)
(* known or delivered of a sequence id that was never sent, and no option  *)
(* holds two values.                                                       *)
TypeOK ==
  /\ DOMAIN pending \subseteq DOMAIN accepted
  /\ \A q \in DOMAIN pending : pending[q] \in AssemblySet
  /\ delivered \in [Seq -> [intact : 0 .. MaxCopies, garbled : 0 .. MaxCopies]]
  /\ DOMAIN accepted \subseteq 0 .. nextSeqId - 1
  /\ nextSeqId \in 0 .. MaxMessages
  /\ DOMAIN sets \subseteq DOMAIN accepted
  /\ \A q \in DOMAIN sets :
       /\ sets[q] \in SentDataSet
       /\ Cardinality(sets[q].lastAck) <= 1 /\ Cardinality(sets[q].oldest) <= 1
  /\ fragNet \subseteq Fragment
  /\ ackNet \subseteq AckPacket
  /\ losses \in 0 .. MaxLosses
  /\ dups \in 0 .. MaxDups
  /\ inProcess \subseteq Ends
  /\ sentEarly \subseteq Messages
  /\ sinceProcess \in [Ends -> 0 .. MaxIdle]
  /\ {connected, receiverPanicked, senderPanicked} \subseteq BOOLEAN

(* is_seq_id_received answers Ok(true) only for a message the other        *)
(* application was given, whatever acks were lost, repeated or overtaken.  *)
ReceivedMeansDelivered ==
  \A q \in Messages : IsSeqIdReceived(q) => Copies(q) > 0

(* A message handed to the application is the one that was sent, even      *)
(* when some of its fragments are from the first transmission and others   *)
(* from a resend.                                                          *)
IntactDelivery == \A q \in Seq : delivered[q].garbled = 0

(* The sender never gives up on a key message without expiration that has  *)
(* not been delivered: it is neither cleaned up on the strength of a stale *)
(* or partial ack, nor expired.                                            *)
KeptUntilDelivered ==
  \A q \in DOMAIN accepted :
    accepted[q].key /\ ~ accepted[q].expires /\ Copies(q) = 0 => q \in DOMAIN sets

(* Once the sender knows a message was received, no further copy of it is  *)
(* delivered, even though the receiver has forgotten the set by then.      *)
NoCopyOnceKnown ==
  [][\A q \in Messages : IsSeqIdReceived(q) => delivered'[q] = delivered[q]]_vars

(* The sender learns of every delivery of a key message, unless a datagram *)
(* is lost (then the message is delivered by resent fragments, which are   *)
(* not acknowledged, or by the first ones and both acks are lost).         *)
DeliveryIsLearnt ==
  \A q \in Messages :
    q \in DOMAIN sets /\ Copies(q) > 0
      ~> q \notin DOMAIN sets \/ sets[q].done \/ losses > 0 \/ q \in sentEarly

(* What the protocol promises, as an abstract specification.               *)
Promise == INSTANCE MessageDelivery WITH
  Messages  <- Messages,
  expiring  <- {q \in DOMAIN accepted : accepted[q].expires},
  sent      <- DOMAIN accepted,
  promised  <- DOMAIN sets,
  delivered <- {q \in Seq : Copies(q) > 0},
  confirmed <- {q \in DOMAIN sets : sets[q].done}

(* Safety: what is delivered was sent, what the sender confirms was        *)
(* delivered, and it forgets only what it confirmed or what expires.       *)
PromiseSafe == Promise!SafeSpec

(* Safety and liveness: moreover every promised message is delivered, or   *)
(* expires.                                                                *)
PromiseKept == Promise!Spec
=============================================================================
