-------------------------- MODULE ConnectionProofs --------------------------
(***************************************************************************)
(* What holds of a connection of rbtl-rudp however many datagrams are      *)
(* lost, duplicated, reordered or late, for all delays.                    *)
(*                                                                         *)
(* The types are not inductive: that the listener's socket keeps the key   *)
(* it was made with depends on what is in flight, and what is sent on the  *)
(* sockets.  The inductive invariant says in addition what every socket    *)
(* owes to its application (Sound), that only the client introduces        *)
(* itself (Genuine), and which events may be unread once the application   *)
(* has drained them after a call of process() (Settled).                   *)
(***************************************************************************)
EXTENDS Connection, SocketMoves, TLAPS, FiniteSetTheorems

Packet == [to : Ends, frag : Nat \X Nat, src : Nat \ {0}, dst : Nat]

(* What may be in flight: a Syn is the client's.                           *)
Genuine(packets) ==
  /\ IsFiniteSet(packets) /\ packets \subseteq Packet
  /\ \A p \in packets : Is(p, "Syn") => p.src = 1

(* A socket of e: its keys, and what its application is told.  An end that *)
(* knows the key of the other one has queued Connected, so it has before   *)
(* it accepts data; one that awaits the SynAck does not know that key; one *)
(* that is finished has queued how it ended.                               *)
Sound(e, s) ==
  /\ s \in SocketRecord
  /\ e = "client" => s.self = 1
  /\ e = "server" => s.other = 1 /\ s.status # "SynSent"
  /\ s.other # 0 => "Connected" \in s.seen
  /\ s.status = "SynSent" => s.other = 0
  /\ "Data" \in s.seen => "Connected" \in s.seen
  /\ IsFinished(s) => s.seen \cap {"Ended", "Aborted", "Timeout"} # {}

(* Between the drain and the next call of process(), the only event that   *)
(* may be unread is that of a send_end, dated like it by the last call.    *)
Settled(s, age) ==
  \/ s.unread = {}
  \/ s.status = "TerminateSent" /\ s.statusAge = age

SocketsInv ==
  \A e \in Ends : Exists(e) =>
    /\ Sound(e, socks[e]) /\ e \notin dropped
    /\ e \in caughtUp => Settled(socks[e], sinceProcess[e])

(* The inductive invariant.                                                *)
ConnectionInv == TypeOK /\ Genuine(net) /\ SocketsInv

-----------------------------------------------------------------------------
(* The layouts of the packets.                                             *)

(* No two packets of different variants have the same layout, and none of  *)
(* them that of a fragment.                                                *)
LEMMA LayoutsDiffer ==
  /\ ControlVariants = {"Ack", "Syn", "SynAck", "End", "Abort", "Heartbeat"}
  /\ \A v \in ControlVariants : ControlLayout(v) \in Nat \X Nat
  /\ \A v, w \in ControlVariants : ControlLayout(v) = ControlLayout(w) => v = w
  /\ FragmentLayout(0, 0) \in Nat \X Nat
  /\ \A v \in ControlVariants : FragmentLayout(0, 0) # ControlLayout(v)
<1>1. ControlVariants = {"Ack", "Syn", "SynAck", "End", "Abort", "Heartbeat"}
  BY DEF ControlVariants, FragTotalOf
<1>2. /\ FragTotalOf["Ack"] = 0 /\ FragTotalOf["Syn"] = 1 /\ FragTotalOf["SynAck"] = 2
      /\ FragTotalOf["End"] = 3 /\ FragTotalOf["Abort"] = 4
      /\ FragTotalOf["Heartbeat"] = 10
  BY DEF FragTotalOf
<1> QED
  BY <1>1, <1>2 DEF ControlLayout, FragmentLayout, MaxByte

-----------------------------------------------------------------------------
(* The changes of one socket.                                              *)

(* A socket that is not the missing one has a status of its own.           *)
LEMMA SoundExists ==
  ASSUME NEW e, NEW s, Sound(e, s)
  PROVE  s # NoSocket
BY DEF Sound, SocketRecord, NoSocket

(* last_received_message changes.                                          *)
LEMMA SoundHeard ==
  ASSUME NEW e, NEW s, Sound(e, s)
  PROVE  LET h == [s EXCEPT !.recvAge = 0] IN
         /\ Sound(e, h) /\ h.status = s.status /\ h.other = s.other /\ h.self = s.self
         /\ h.seen = s.seen
<1> DEFINE h == [s EXCEPT !.recvAge = 0]
<1>1. h = [status |-> s.status, self |-> s.self, other |-> s.other,
           statusAge |-> s.statusAge, recvAge |-> 0, sentAge |-> s.sentAge,
           unread |-> s.unread, seen |-> s.seen]
  BY DEF Sound, SocketRecord
<1>2. 0 \in 0 .. TimeoutDelay
  BY ConnectionAssumption
<1> QED
  BY <1>1, <1>2 DEF Sound, SocketRecord, IsFinished

(* last_sent_message changes.                                              *)
LEMMA SoundHasSent ==
  ASSUME NEW e, NEW s, Sound(e, s), NEW age \in Nat
  PROVE  LET h == HasSent(s, age) IN
         /\ Sound(e, h) /\ h.status = s.status /\ h.statusAge = s.statusAge
         /\ h.unread = s.unread
<1> DEFINE h == HasSent(s, age)
<1>1. h = [status |-> s.status, self |-> s.self, other |-> s.other,
           statusAge |-> s.statusAge, recvAge |-> s.recvAge, sentAge |-> age,
           unread |-> s.unread, seen |-> s.seen]
  BY DEF Sound, SocketRecord, HasSent
<1> QED
  BY <1>1 DEF Sound, SocketRecord, IsFinished

(* The events are drained.                                                 *)
LEMMA SoundDrained ==
  ASSUME NEW e, NEW s, Sound(e, s)
  PROVE  Sound(e, Drained(s)) /\ Drained(s).status = s.status /\ Drained(s).unread = {}
<1>1. Drained(s) = [status |-> s.status, self |-> s.self, other |-> s.other,
                    statusAge |-> s.statusAge, recvAge |-> s.recvAge, sentAge |-> s.sentAge,
                    unread |-> {}, seen |-> s.seen]
  BY DEF Sound, SocketRecord, Drained
<1> QED
  BY <1>1 DEF Sound, SocketRecord, IsFinished

(* A socket in any status, SynReceived included.                           *)
Statuses ==
  {"SynSent", "SynReceived", "Connected", "TimeoutError", "TerminateSent", "TerminateReceived"}

AnySocket ==
  [status : Statuses, self : Nat \ {0}, other : Nat, statusAge : Nat,
   recvAge : 0 .. TimeoutDelay, sentAge : Nat,
   unread : SUBSET Events, seen : SUBSET Events]

LEMMA SoundIsAny ==
  ASSUME NEW e, NEW s, Sound(e, s)
  PROVE  s \in AnySocket
BY DEF Sound, SocketRecord, AnySocket, Statuses

(* A socket is the record of its fields.                                   *)
LEMMA Fields ==
  ASSUME NEW s \in AnySocket
  PROVE  s = [status |-> s.status, self |-> s.self, other |-> s.other,
              statusAge |-> s.statusAge, recvAge |-> s.recvAge, sentAge |-> s.sentAge,
              unread |-> s.unread, seen |-> s.seen]
BY DEF AnySocket

(* The fields after events are queued.                                     *)
LEMMA PushedFields ==
  ASSUME NEW s \in AnySocket, NEW events \in SUBSET Events
  PROVE  LET h == Pushed(s, events) IN
         /\ h \in AnySocket
         /\ h.status = s.status /\ h.self = s.self /\ h.other = s.other
         /\ h.statusAge = s.statusAge
         /\ h.unread = s.unread \cup events /\ h.seen = s.seen \cup events
<1> DEFINE h == Pushed(s, events)
           unread == s.unread \cup events
           seen == s.seen \cup events
<1>1. h = [s EXCEPT !.unread = unread, !.seen = seen]
  BY DEF Pushed
<1>2. unread \in SUBSET Events /\ seen \in SUBSET Events
  BY DEF AnySocket
<1> HIDE DEF unread, seen
<1>3. h = [status |-> s.status, self |-> s.self, other |-> s.other,
           statusAge |-> s.statusAge, recvAge |-> s.recvAge, sentAge |-> s.sentAge,
           unread |-> unread, seen |-> seen]
  BY <1>1, Fields
<1> QED
  BY <1>2, <1>3 DEF AnySocket, unread, seen

(* The fields after set_status.                                            *)
LEMMA WithStatusFields ==
  ASSUME NEW s \in AnySocket, NEW status \in Statuses, NEW age \in Nat
  PROVE  LET h == WithStatus(s, status, age) IN
         /\ h \in AnySocket
         /\ h.status = status /\ h.self = s.self /\ h.other = s.other
         /\ h.statusAge = age
         /\ h.unread = s.unread \cup StatusEvents(status)
         /\ h.seen = s.seen \cup StatusEvents(status)
<1> DEFINE t == [s EXCEPT !.status = status, !.statusAge = age]
<1>1. t = [status |-> status, self |-> s.self, other |-> s.other,
           statusAge |-> age, recvAge |-> s.recvAge, sentAge |-> s.sentAge,
           unread |-> s.unread, seen |-> s.seen]
  <2> DEFINE u == [s EXCEPT !.status = status]
  <2>1. u = [status |-> status, self |-> s.self, other |-> s.other,
             statusAge |-> s.statusAge, recvAge |-> s.recvAge, sentAge |-> s.sentAge,
             unread |-> s.unread, seen |-> s.seen]
    BY Fields
  <2>2. t = [u EXCEPT !.statusAge = age]
    OBVIOUS
  <2> HIDE DEF u
  <2> QED
    BY <2>1, <2>2
<1>2. StatusEvents(status) \in SUBSET Events
  BY DEF StatusEvents, Events
<1>3. /\ t \in AnySocket /\ t.status = status /\ t.self = s.self /\ t.other = s.other
      /\ t.statusAge = age /\ t.unread = s.unread /\ t.seen = s.seen
  BY <1>1 DEF AnySocket
<1>4. WithStatus(s, status, age) = Pushed(t, StatusEvents(status))
  BY DEF WithStatus
<1> HIDE DEF t
<1> QED
  BY <1>2, <1>3, <1>4, PushedFields

(* Events are queued: Data only after Connected.                           *)
LEMMA SoundPushed ==
  ASSUME NEW e, NEW s, Sound(e, s), NEW events \in SUBSET Events,
         "Data" \in events => "Connected" \in s.seen
  PROVE  Sound(e, Pushed(s, events)) /\ Pushed(s, events).status = s.status
BY PushedFields, SoundIsAny DEF Sound, SocketRecord, AnySocket, Statuses, IsFinished

(* A Syn is sent again.                                                    *)
LEMMA SoundSynSent ==
  ASSUME NEW s, Sound("client", s), s.status = "SynSent"
  PROVE  Sound("client", WithStatus(s, "SynSent", 0))
<1> DEFINE h == WithStatus(s, "SynSent", 0)
<1>1. StatusEvents("SynSent") = {}
  BY DEF StatusEvents
<1>2. s \in AnySocket /\ "SynSent" \in Statuses
  BY SoundIsAny DEF Statuses
<1>3. /\ h \in AnySocket /\ h.status = "SynSent" /\ h.self = s.self
      /\ h.other = s.other /\ h.seen = s.seen \cup StatusEvents("SynSent")
  BY <1>2, 0 \in Nat, WithStatusFields
<1> HIDE DEF h
<1>4. Sound("client", h)
  BY <1>1, <1>3 DEF Sound, SocketRecord, AnySocket, Statuses, IsFinished
<1> QED
  BY <1>4 DEF h

(* The other end is lost, or this one ends.                                *)
LEMMA SoundFinished ==
  ASSUME NEW e, NEW s, Sound(e, s), NEW age \in Nat,
         NEW status \in {"TimeoutError", "TerminateSent"}
  PROVE  LET h == WithStatus(s, status, age) IN
         Sound(e, h) /\ h.status = status /\ h.statusAge = age
<1> DEFINE h == WithStatus(s, status, age)
<1>1. PICK how \in {"Timeout", "Ended"} : StatusEvents(status) = {how}
  BY DEF StatusEvents
<1>2. s \in AnySocket /\ status \in Statuses
  BY SoundIsAny DEF Statuses
<1>3. /\ h \in AnySocket /\ h.status = status /\ h.self = s.self /\ h.other = s.other
      /\ h.statusAge = age /\ h.seen = s.seen \cup {how}
  BY <1>1, <1>2, WithStatusFields
<1> HIDE DEF h
<1>4. Sound(e, h)
  BY <1>3 DEF Sound, SocketRecord, AnySocket, Statuses, IsFinished
<1> QED
  BY <1>3, <1>4 DEF h

(* An End or an Abort is received.                                         *)
LEMMA SoundTerminated ==
  ASSUME NEW e, NEW s, Sound(e, s), NEW how \in {"Ended", "Aborted"}
  PROVE  LET h == Pushed(WithStatus(s, "TerminateReceived", 0), {how}) IN
         Sound(e, h) /\ h.status = "TerminateReceived"
<1> DEFINE t == WithStatus(s, "TerminateReceived", 0)
<1>1. StatusEvents("TerminateReceived") = {}
  BY DEF StatusEvents
<1>2. s \in AnySocket /\ "TerminateReceived" \in Statuses
  BY SoundIsAny DEF Statuses
<1>3. /\ t \in AnySocket /\ t.status = "TerminateReceived" /\ t.self = s.self
      /\ t.other = s.other /\ t.seen = s.seen \cup StatusEvents("TerminateReceived")
  BY <1>2, 0 \in Nat, WithStatusFields
<1> HIDE DEF t
<1> DEFINE h == Pushed(t, {how})
<1>4. {how} \in SUBSET Events
  BY DEF Events
<1>5. /\ h \in AnySocket /\ h.status = "TerminateReceived" /\ h.self = s.self
      /\ h.other = s.other /\ h.seen = s.seen \cup {how}
  BY <1>1, <1>3, <1>4, PushedFields
<1> HIDE DEF h
<1>6. Sound(e, h)
  BY <1>5 DEF Sound, SocketRecord, AnySocket, Statuses, IsFinished
<1> QED
  BY <1>5, <1>6 DEF h, t

(* A socket becomes connected: the client's, or the listener's new one.    *)
LEMMA SoundConnected ==
  ASSUME NEW e \in Ends, NEW s \in AnySocket,
         e = "client" => s.self = 1,
         e = "server" => s.other = 1
  PROVE  LET h == WithStatus(s, "Connected", 0) IN Sound(e, h) /\ h.status = "Connected"
<1> DEFINE h == WithStatus(s, "Connected", 0)
<1>1. StatusEvents("Connected") = {"Connected"}
  BY DEF StatusEvents
<1>2. s \in AnySocket /\ "Connected" \in Statuses
  BY SoundIsAny DEF Statuses
<1>3. /\ h \in AnySocket /\ h.status = "Connected" /\ h.self = s.self
      /\ h.other = s.other /\ h.seen = s.seen \cup {"Connected"}
  BY <1>1, <1>2, WithStatusFields
<1> HIDE DEF h
<1>4. Sound(e, h)
  BY <1>3 DEF Sound, SocketRecord, AnySocket, Statuses, IsFinished
<1> QED
  BY <1>3, <1>4 DEF h

(* Time passes for a socket.                                               *)
LEMMA SoundAged ==
  ASSUME NEW e, NEW s, Sound(e, s)
  PROVE  LET h == AgedSocket(s) IN
         /\ Sound(e, h) /\ h.status = s.status /\ h.unread = s.unread /\ h.seen = s.seen
         /\ h.statusAge = Older(s.statusAge, StatusAgeLimit(s))
<1> DEFINE statusAge == Older(s.statusAge, StatusAgeLimit(s))
           recvAge == IF IsFinished(s) THEN s.recvAge ELSE Older(s.recvAge, TimeoutDelay)
           sentAge == IF IsFinished(s) THEN s.sentAge
                        ELSE Older(s.sentAge, HeartbeatDelay + 1)
<1>1. statusAge \in Nat /\ recvAge \in 0 .. TimeoutDelay /\ sentAge \in Nat
  BY ConnectionAssumption DEF Sound, SocketRecord, Older
<1>2. AgedSocket(s) = [s EXCEPT !.statusAge = statusAge, !.recvAge = recvAge,
                                !.sentAge = sentAge]
  BY DEF AgedSocket
<1> HIDE DEF statusAge, recvAge, sentAge
<1>3. AgedSocket(s) = [status |-> s.status, self |-> s.self, other |-> s.other,
                       statusAge |-> statusAge, recvAge |-> recvAge, sentAge |-> sentAge,
                       unread |-> s.unread, seen |-> s.seen]
  BY <1>2 DEF Sound, SocketRecord
<1> QED
  BY <1>1, <1>3 DEF Sound, SocketRecord, IsFinished, statusAge

-----------------------------------------------------------------------------
(* The network.                                                            *)

(* What an end sends.                                                      *)
LEMMA EmittedGenuine ==
  ASSUME NEW e \in Ends, NEW s, s.self \in Nat \ {0}, s.other \in Nat,
         NEW layout \in Nat \X Nat,
         layout = ControlLayout("Syn") => s.self = 1
  PROVE  Genuine(Emitted(e, s, layout))
<1> DEFINE p == [to |-> Other(e), frag |-> layout, src |-> s.self, dst |-> s.other]
<1>1. p \in Packet /\ p.src = s.self /\ p.frag = layout
  BY DEF Packet, Other, Ends
<1>2. Emitted(e, s, layout) = {} \/ Emitted(e, s, layout) = {p}
  BY DEF Emitted
<1> HIDE DEF p
<1>3. IsFiniteSet({}) /\ IsFiniteSet({p})
  BY FS_EmptySet, FS_Singleton
<1> QED
  BY <1>1, <1>2, <1>3 DEF Genuine, Is, IsControl

(* Sending nothing sends no Syn.                                           *)
LEMMA NoneGenuine == Genuine({})
BY FS_EmptySet DEF Genuine

(* The network loses and repeats, and makes up nothing.                    *)
LEMMA MovesGenuine ==
  ASSUME TypeOK, Genuine(net), NEW taken, IsFiniteSet(taken), NEW entering, Genuine(entering),
         Moves(taken, entering)
  PROVE  Genuine(net') /\ losses' \in 0 .. MaxLosses /\ dups' \in 0 .. MaxDups
<1>1. PICK lost \in SUBSET entering, again \in SUBSET taken :
        /\ losses' = losses + Cardinality(lost) /\ losses' <= MaxLosses
        /\ dups' = dups + Cardinality(again) /\ dups' <= MaxDups
        /\ net' = (net \ (taken \ again)) \cup {p \in entering \ lost : p.to \notin dropped}
  BY DEF Moves
<1> DEFINE kept == net \ (taken \ again)
           new == {p \in entering \ lost : p.to \notin dropped}
<1>2. IsFiniteSet(lost) /\ IsFiniteSet(again) /\ IsFiniteSet(kept) /\ IsFiniteSet(new)
  BY FS_Subset DEF Genuine
<1>3. Cardinality(lost) \in Nat /\ Cardinality(again) \in Nat
  BY <1>2, FS_CardinalityType
<1>4. losses \in Nat /\ dups \in Nat /\ MaxLosses \in Nat /\ MaxDups \in Nat
  BY ConnectionAssumption DEF TypeOK
<1>5. kept \subseteq net /\ new \subseteq entering /\ net' = kept \cup new
  BY <1>1
<1>6. IsFiniteSet(net')
  BY <1>2, <1>5, FS_Union
<1> QED
  BY <1>1, <1>3, <1>4, <1>5, <1>6 DEF Genuine

(* One of the first keys is in use nowhere: the key of a new socket.       *)
LEMMA FreshKeyIsNew ==
  ASSUME Genuine(net)
  PROVE  FreshKey \in Nat \ {0} /\ FreshKey \notin UsedKeys
<1> DEFINE keysOf == [e \in Ends |-> {socks[e].self, socks[e].other}]
           srcOf == [p \in net |-> p.src]
           dstOf == [p \in net |-> p.dst]
           srcs == {p.src : p \in net}
           dsts == {p.dst : p \in net}
           owned == keysOf["client"] \cup keysOf["server"]
           all == ({0} \cup owned) \cup (srcs \cup dsts)
<1>1. IsFiniteSet(net)
  BY DEF Genuine
<1>2. IsFiniteSet(srcs) /\ IsFiniteSet(dsts)
  <2>1. srcOf \in Surjection(net, srcs) /\ dstOf \in Surjection(net, dsts)
    BY DEF Surjection
  <2> QED
    BY <1>1, <2>1, FS_Surjection
<1>3. IsFiniteSet({0} \cup owned)
  <2>1. \A a, b : IsFiniteSet({a, b})
    <3> TAKE a, b
    <3>1. IsFiniteSet({a}) /\ {a, b} = {a} \cup {b}
      BY FS_Singleton
    <3> QED
      BY <3>1, FS_AddElement
  <2>2. /\ keysOf["client"] = {socks["client"].self, socks["client"].other}
        /\ keysOf["server"] = {socks["server"].self, socks["server"].other}
    BY DEF Ends
  <2> HIDE DEF keysOf
  <2>3. IsFiniteSet(owned)
    BY <2>1, <2>2, FS_Union
  <2> QED
    BY <2>3, FS_Union, FS_Singleton
<1>4. IsFiniteSet(all)
  BY <1>2, <1>3, FS_Union
<1>5. UsedKeys \subseteq all
  <2> SUFFICES ASSUME NEW k \in UsedKeys PROVE k \in all
    OBVIOUS
  <2>1. \/ k = 0
        \/ \E e \in Ends : k \in {socks[e].self, socks[e].other}
        \/ \E p \in net : k \in {p.src, p.dst}
    BY DEF UsedKeys
  <2>2. ASSUME NEW e \in Ends, k \in {socks[e].self, socks[e].other}
        PROVE  k \in owned
    BY <2>2 DEF Ends
  <2>3. ASSUME NEW p \in net, k \in {p.src, p.dst}
        PROVE  k \in srcs \cup dsts
    BY <2>3
  <2> HIDE DEF owned, srcs, dsts
  <2> QED
    BY <2>1, <2>2, <2>3
<1>6. IsFiniteSet(UsedKeys) /\ Cardinality(UsedKeys) \in Nat
  BY <1>4, <1>5, FS_Subset, FS_CardinalityType
<1> DEFINE n == Cardinality(UsedKeys)
<1>7. Cardinality(0 .. n) = n + 1
  BY <1>6, FS_Interval
<1>8. ~ (0 .. n \subseteq UsedKeys)
  <2> SUFFICES ASSUME 0 .. n \subseteq UsedKeys PROVE FALSE
    OBVIOUS
  <2>1. Cardinality(0 .. n) <= n
    BY <1>6, FS_Subset
  <2> QED
    BY <1>6, <1>7, <2>1
<1>9. 0 \in UsedKeys
  BY DEF UsedKeys
<1>10. \E k \in 1 .. n : k \notin UsedKeys
  BY <1>6, <1>8, <1>9
<1>11. FreshKey \in 1 .. n /\ FreshKey \notin UsedKeys
  BY <1>10 DEF FreshKey
<1> QED
  BY <1>6, <1>11

-----------------------------------------------------------------------------
(* The steps preserve the inductive invariant.                             *)

(* The parts that make it up.                                              *)
LEMMA InvParts ==
  ASSUME DOMAIN socks' = Ends, SocketsInv', Genuine(net'),
         losses' \in 0 .. MaxLosses, dups' \in 0 .. MaxDups,
         sends' \in 0 .. MaxSends, ends' \in 0 .. MaxEnds,
         inProcess' \subseteq Ends, dropped' \subseteq Ends, inProcess' \cap dropped' = {},
         sinceProcess' \in [Ends -> 0 .. MaxIdle],
         caughtUp' \subseteq Ends, caughtUp' \cap inProcess' = {}
  PROVE  ConnectionInv'
<1>1. /\ \A e \in Ends : Exists(e)' => socks'[e] \in SocketRecord
      /\ Exists("server")' => socks'["server"].other = 1 /\ socks'["server"].status # "SynSent"
  BY DEF SocketsInv, Sound, Ends
<1>2. net' \subseteq [to : Ends, frag : Nat \X Nat, src : Nat \ {0}, dst : Nat]
  BY DEF Genuine, Packet
<1> QED
  BY <1>1, <1>2 DEF ConnectionInv, TypeOK

(* One socket changes, and nothing of what concerns the other end.         *)
LEMMA OneSocket ==
  ASSUME ConnectionInv, NEW e \in Ends, NEW s, s = NoSocket \/ Sound(e, s),
         socks' = [socks EXCEPT ![e] = s],
         \A d \in Ends \ {e} : /\ d \in caughtUp' <=> d \in caughtUp
                               /\ d \in dropped' <=> d \in dropped
                               /\ sinceProcess'[d] = sinceProcess[d],
         s # NoSocket => e \notin dropped',
         s # NoSocket /\ e \in caughtUp' => Settled(s, sinceProcess'[e])
  PROVE  DOMAIN socks' = Ends /\ SocketsInv'
<1>1. DOMAIN socks = Ends
  BY DEF ConnectionInv, TypeOK
<1>2. DOMAIN socks' = Ends /\ socks'[e] = s /\ \A d \in Ends \ {e} : socks'[d] = socks[d]
  BY <1>1
<1> SUFFICES ASSUME NEW d \in Ends, socks'[d] # NoSocket
             PROVE  /\ Sound(d, socks'[d]) /\ d \notin dropped'
                    /\ d \in caughtUp' => Settled(socks'[d], sinceProcess'[d])
  BY <1>2 DEF SocketsInv, Exists
<1>3. CASE d = e
  BY <1>2, <1>3
<1>4. CASE d # e
  BY <1>2, <1>4 DEF ConnectionInv, SocketsInv, Exists
<1> QED
  BY <1>3, <1>4

(* One datagram is handled.                                                *)
LEMMA GetsStep ==
  ASSUME ConnectionInv, NEW e \in Ends, NEW p, NEW s, NEW answers,
         Gets(e, p, s, answers), s = NoSocket \/ Sound(e, s), Genuine(answers)
  PROVE  ConnectionInv'
<1>1. /\ e \in inProcess /\ socks' = [socks EXCEPT ![e] = s] /\ Moves({p}, answers)
      /\ UNCHANGED <<sends, ends, inProcess, sinceProcess, dropped, caughtUp>>
  BY DEF Gets
<1>2. Genuine(net') /\ losses' \in 0 .. MaxLosses /\ dups' \in 0 .. MaxDups
  BY <1>1, MovesGenuine, FS_Singleton DEF ConnectionInv
<1>3. e \notin dropped /\ e \notin caughtUp
  BY <1>1 DEF ConnectionInv, TypeOK
<1>4. DOMAIN socks' = Ends /\ SocketsInv'
  BY <1>1, <1>3, OneSocket
<1> QED
  BY <1>1, <1>2, <1>4, InvParts DEF ConnectionInv, TypeOK

(* inner_tick                                                              *)
LEMMA LeavesStep ==
  ASSUME ConnectionInv, NEW e \in Ends, NEW s, NEW packets,
         Leaves(e, s, packets), s = NoSocket \/ Sound(e, s),
         Genuine(packets)
  PROVE  ConnectionInv'
<1>1. /\ e \in inProcess /\ socks' = [socks EXCEPT ![e] = s] /\ Moves({}, packets)
      /\ inProcess' = inProcess \ {e}
      /\ UNCHANGED <<sends, ends, sinceProcess, dropped, caughtUp>>
  BY DEF Leaves
<1>2. Genuine(net') /\ losses' \in 0 .. MaxLosses /\ dups' \in 0 .. MaxDups
  BY <1>1, MovesGenuine, FS_EmptySet DEF ConnectionInv
<1>3. e \notin dropped /\ e \notin caughtUp
  BY <1>1 DEF ConnectionInv, TypeOK
<1>4. DOMAIN socks' = Ends /\ SocketsInv'
  BY <1>1, <1>3, OneSocket
<1> QED
  BY <1>1, <1>2, <1>4, InvParts DEF ConnectionInv, TypeOK

(* What a socket sends.                                                    *)
LEMMA SocketEmits ==
  ASSUME ConnectionInv, NEW e \in Ends, Exists(e)
  PROVE  /\ \A v \in ControlVariants \ {"Syn"} :
              Genuine(Emitted(e, socks[e], ControlLayout(v)))
         /\ Genuine(Emitted(e, socks[e], FragmentLayout(0, 0)))
         /\ e = "client" => Genuine(Emitted(e, socks[e], ControlLayout("Syn")))
<1>1. /\ socks[e].self \in Nat \ {0} /\ socks[e].other \in Nat
      /\ e = "client" => socks[e].self = 1
  BY DEF ConnectionInv, SocketsInv, Sound, SocketRecord
<1>2. "Syn" \in ControlVariants
  BY LayoutsDiffer
<1> QED
  BY <1>1, <1>2, EmittedGenuine, LayoutsDiffer

(* A datagram is handled: each of the handlers.                            *)
LEMMA ReceivesStep ==
  ASSUME ConnectionInv, NEW e \in Ends, Receives(e)
  PROVE  ConnectionInv'
<1>1. PICK p \in InFlight(e) :
        \/ GetsForeign(e, p) \/ GetsData(e, p) \/ GetsHeartbeat(e, p) \/ GetsSyn(e, p)
        \/ GetsSynAck(e, p) \/ GetsEnd(e, p)
        \/ e = "server" /\ (Accepts(p) \/ Ignores(p))
  BY DEF Receives
<1>2. p \in net /\ p \in Packet /\ (Is(p, "Syn") => p.src = 1) /\ p.src \in Nat \ {0}
  BY DEF InFlight, ConnectionInv, Genuine, Packet
<1>3. ASSUME Exists(e)
      PROVE  /\ Sound(e, socks[e])
             /\ Sound(e, Heard(e)) /\ Heard(e).status = socks[e].status
             /\ Heard(e).other = socks[e].other /\ Heard(e).self = socks[e].self
             /\ Heard(e).seen = socks[e].seen
  BY <1>3, SoundHeard DEF Heard, ConnectionInv, SocketsInv
<1>4. CASE GetsForeign(e, p) \/ GetsHeartbeat(e, p)
  BY <1>3, <1>4, GetsStep, NoneGenuine DEF GetsForeign, GetsHeartbeat, Known
<1>5. CASE GetsData(e, p)
  <2>1. Exists(e) /\ IsForUs(socks[e], p) /\ IsFragment(p.frag)
    BY <1>5 DEF GetsData, Known
  <2>2. ~ Is(p, "Syn") /\ ~ Is(p, "SynAck")
    BY <2>1, LayoutsDiffer DEF Is, IsFragment
  <2>3. socks[e].other # 0
    BY <1>2, <2>1, <2>2 DEF IsForUs
  <2>4. "Connected" \in Heard(e).seen
    BY <1>3, <2>1, <2>3 DEF Sound
  <2>5. Sound(e, Pushed(Heard(e), {"Data"}))
    BY <1>3, <2>1, <2>4, SoundPushed DEF Events
  <2> QED
    BY <1>5, <2>5, GetsStep, NoneGenuine DEF GetsData
<1>6. CASE GetsSyn(e, p)
  <2>1. Exists(e) /\ Gets(e, p, HasSent(Heard(e), 0), Emitted(e, socks[e], ControlLayout("SynAck")))
    BY <1>6 DEF GetsSyn, Known
  <2>2. Sound(e, HasSent(Heard(e), 0))
    BY <1>3, <2>1, SoundHasSent
  <2>3. Genuine(Emitted(e, socks[e], ControlLayout("SynAck")))
    BY <2>1, SocketEmits, LayoutsDiffer
  <2> QED
    BY <2>1, <2>2, <2>3, GetsStep
<1>7. CASE GetsSynAck(e, p)
  <2>1. Exists(e)
    BY <1>7 DEF GetsSynAck, Known
  <2>2. CASE socks[e].status = "SynSent" /\ Gets(e, p, Learnt(e, p), {})
    <3>1. e = "client"
      BY <1>3, <2>1, <2>2 DEF Sound, Ends
    <3> DEFINE s == Heard(e)
               t == [s EXCEPT !.other = p.src]
    <3>2. s \in AnySocket /\ s.self = 1
      BY <1>3, <2>1, <3>1, SoundIsAny DEF Sound
    <3> HIDE DEF s
    <3>3. t = [status |-> s.status, self |-> s.self, other |-> p.src,
               statusAge |-> s.statusAge, recvAge |-> s.recvAge, sentAge |-> s.sentAge,
               unread |-> s.unread, seen |-> s.seen]
      BY <3>2, Fields
    <3>4. t \in AnySocket /\ t.self = 1
      BY <1>2, <3>2, <3>3 DEF AnySocket
    <3>5. Learnt(e, p) = WithStatus(t, "Connected", 0)
      BY DEF Learnt, s
    <3> HIDE DEF t
    <3>6. Sound(e, Learnt(e, p))
      BY <3>1, <3>4, <3>5, SoundConnected
    <3> QED
      BY <2>2, <3>6, GetsStep, NoneGenuine
  <2>3. CASE Gets(e, p, Heard(e), {})
    BY <1>3, <2>1, <2>3, GetsStep, NoneGenuine
  <2> QED
    BY <1>7, <2>2, <2>3 DEF GetsSynAck
<1>8. CASE GetsEnd(e, p)
  <2>1. Exists(e)
    BY <1>8 DEF GetsEnd, Known
  <2>2. PICK how \in {"Ended", "Aborted"} :
          Gets(e, p, Pushed(WithStatus(Heard(e), "TerminateReceived", 0), {how}), {})
    BY <1>8 DEF GetsEnd
  <2>3. Sound(e, Pushed(WithStatus(Heard(e), "TerminateReceived", 0), {how}))
    BY <1>3, <2>1, SoundTerminated
  <2> QED
    BY <2>2, <2>3, GetsStep, NoneGenuine
<1>9. CASE e = "server" /\ Accepts(p)
  <2> DEFINE s == NewSocket("SynReceived", FreshKey, p.src)
  <2>1. /\ Is(p, "Syn")
        /\ Gets("server", p, WithStatus(s, "Connected", 0),
                Emitted("server", s, ControlLayout("SynAck")))
    BY <1>9 DEF Accepts
  <2>2. s \in AnySocket /\ s.self \in Nat \ {0} /\ s.other = 1
    BY <1>2, <2>1, FreshKeyIsNew, ConnectionAssumption
       DEF ConnectionInv, NewSocket, AnySocket, Statuses
  <2> HIDE DEF s
  <2>3. Sound("server", WithStatus(s, "Connected", 0))
    BY <2>2, SoundConnected DEF Ends
  <2>4. Genuine(Emitted("server", s, ControlLayout("SynAck")))
    BY <2>2, EmittedGenuine, LayoutsDiffer DEF Ends
  <2> QED
    BY <2>1, <2>3, <2>4, GetsStep DEF Ends
<1>10. CASE e = "server" /\ Ignores(p)
  BY <1>10, GetsStep, NoneGenuine DEF Ignores
<1> QED
  BY <1>1, <1>4, <1>5, <1>6, <1>7, <1>8, <1>9, <1>10

(* process() starts.                                                       *)
LEMMA BeginStep ==
  ASSUME ConnectionInv, NEW e \in Ends, Begin(e)
  PROVE  ConnectionInv'
<1>1. /\ e \notin inProcess \cup dropped /\ inProcess' = inProcess \cup {e}
      /\ sinceProcess' = [sinceProcess EXCEPT ![e] = 0]
      /\ caughtUp' = caughtUp \ {e}
      /\ UNCHANGED <<net, losses, dups, sends, ends, dropped>>
  BY DEF Begin
<1>2. DOMAIN socks = Ends /\ sinceProcess \in [Ends -> 0 .. MaxIdle] /\ 0 \in 0 .. MaxIdle
  BY ConnectionAssumption DEF ConnectionInv, TypeOK
<1>3. DOMAIN socks' = Ends /\ \A d \in Ends : socks'[d] \in {socks[d], NoSocket}
  BY <1>2 DEF Begin
<1>4. \A d \in caughtUp' \cap Ends : sinceProcess'[d] = sinceProcess[d] /\ d \in caughtUp
  BY <1>1, <1>2
<1>5. SocketsInv'
  BY <1>1, <1>3, <1>4 DEF ConnectionInv, SocketsInv, Exists
<1>6. sinceProcess' \in [Ends -> 0 .. MaxIdle]
  BY <1>1, <1>2
<1>7. Genuine(net')
  BY <1>1 DEF ConnectionInv
<1> QED
  BY <1>1, <1>3, <1>5, <1>6, <1>7, InvParts DEF ConnectionInv, TypeOK

(* process() ends.                                                         *)
LEMMA FinishesStep ==
  ASSUME ConnectionInv, NEW e \in Ends, Finishes(e)
  PROVE  ConnectionInv'
<1>1. Exists(e) => Sound(e, socks[e])
  BY DEF ConnectionInv, SocketsInv
<1>2. CASE FinishesTimedOut(e)
  <2> DEFINE s == WithStatus(socks[e], "TimeoutError", 0)
  <2>1. Exists(e) /\ Leaves(e, s, {})
    BY <1>2 DEF FinishesTimedOut
  <2>2. Sound(e, s)
    BY <1>1, <2>1, SoundFinished
  <2> HIDE DEF s
  <2> QED
    BY <2>1, <2>2, LeavesStep, NoneGenuine
<1>3. CASE FinishesWithHeartbeat(e)
  <2> DEFINE s == HasSent(socks[e], 0)
             packets == Emitted(e, socks[e], ControlLayout("Heartbeat"))
  <2>1. Exists(e) /\ Leaves(e, s, packets)
    BY <1>3 DEF FinishesWithHeartbeat
  <2>2. Sound(e, s)
    BY <1>1, <2>1, SoundHasSent
  <2>3. Genuine(packets)
    BY <2>1, SocketEmits, LayoutsDiffer
  <2> HIDE DEF s, packets
  <2> QED
    BY <2>1, <2>2, <2>3, LeavesStep
<1>4. CASE FinishesWithSyn(e)
  <2> DEFINE t == WithStatus(socks[e], "SynSent", 0)
             s == HasSent(t, 0)
             packets == Emitted(e, socks[e], ControlLayout("Syn"))
  <2>1. Exists(e) /\ Leaves(e, s, packets) /\ socks[e].status = "SynSent"
    BY <1>4 DEF FinishesWithSyn, IsSynDue
  <2>2. e = "client"
    BY <1>1, <2>1 DEF Sound, Ends
  <2>3. Sound(e, t)
    BY <1>1, <2>1, <2>2, SoundSynSent
  <2> HIDE DEF t
  <2>4. Sound(e, s)
    BY <2>3, SoundHasSent
  <2>5. Genuine(packets)
    BY <2>1, <2>2, SocketEmits
  <2> HIDE DEF s, packets
  <2> QED
    BY <2>1, <2>4, <2>5, LeavesStep
<1>5. CASE FinishesQuietly(e)
  <2>1. CASE Leaves(e, NoSocket, {})
    BY <2>1, LeavesStep, NoneGenuine
  <2>2. CASE Exists(e) /\ Leaves(e, socks[e], {})
    BY <1>1, <2>2, LeavesStep, NoneGenuine
  <2> QED
    BY <1>5, <2>1, <2>2 DEF FinishesQuietly
<1> QED
  BY <1>2, <1>3, <1>4, <1>5 DEF Finishes

(* The applications send data.                                             *)
LEMMA AppSendsStep ==
  ASSUME ConnectionInv, NEW e \in Ends, AppSends(e)
  PROVE  ConnectionInv'
<1> DEFINE s == HasSent(socks[e], sinceProcess[e])
           packets == Emitted(e, socks[e], FragmentLayout(0, 0))
<1>1. /\ e \notin inProcess /\ Exists(e) /\ sends < MaxSends /\ sends' = sends + 1
      /\ socks' = [socks EXCEPT ![e] = s] /\ Moves({}, packets)
      /\ UNCHANGED <<ends, inProcess, sinceProcess, dropped, caughtUp>>
  BY DEF AppSends, AppCalls
<1>2. /\ Sound(e, socks[e]) /\ e \notin dropped
      /\ e \in caughtUp => Settled(socks[e], sinceProcess[e])
  BY <1>1 DEF ConnectionInv, SocketsInv
<1>3. sinceProcess[e] \in Nat
  BY DEF ConnectionInv, TypeOK
<1>4. Sound(e, s) /\ (e \in caughtUp => Settled(s, sinceProcess[e]))
  BY <1>2, <1>3, SoundHasSent DEF Settled
<1>5. Genuine(packets)
  BY <1>1, SocketEmits
<1> HIDE DEF s, packets
<1>6. Genuine(net') /\ losses' \in 0 .. MaxLosses /\ dups' \in 0 .. MaxDups
  BY <1>1, <1>5, MovesGenuine, FS_EmptySet DEF ConnectionInv
<1>7. DOMAIN socks' = Ends /\ SocketsInv'
  BY <1>1, <1>2, <1>4, OneSocket
<1>8. sends' \in 0 .. MaxSends
  BY <1>1, ConnectionAssumption DEF ConnectionInv, TypeOK
<1> QED
  BY <1>1, <1>6, <1>7, <1>8, InvParts DEF ConnectionInv, TypeOK

(* The applications end the connection.                                    *)
LEMMA AppEndsStep ==
  ASSUME ConnectionInv, NEW e \in Ends, AppEnds(e)
  PROVE  ConnectionInv'
<1> DEFINE age == sinceProcess[e]
           t == HasSent(socks[e], age)
           s == WithStatus(t, "TerminateSent", age)
           packets == Emitted(e, socks[e], ControlLayout("End"))
<1>1. /\ e \notin inProcess /\ Exists(e) /\ ends < MaxEnds /\ ends' = ends + 1
      /\ socks' = [socks EXCEPT ![e] = s] /\ Moves({}, packets)
      /\ UNCHANGED <<sends, inProcess, sinceProcess, dropped, caughtUp>>
  BY DEF AppEnds, AppCalls
<1>2. Sound(e, socks[e]) /\ e \notin dropped
  BY <1>1 DEF ConnectionInv, SocketsInv
<1>3. age \in Nat
  BY DEF ConnectionInv, TypeOK
<1>4. Sound(e, t)
  BY <1>2, <1>3, SoundHasSent
<1> HIDE DEF t
<1>5. Sound(e, s) /\ Settled(s, sinceProcess[e])
  <2> HIDE DEF age
  <2>1. Sound(e, s) /\ s.status = "TerminateSent" /\ s.statusAge = age
    BY <1>3, <1>4, SoundFinished
  <2> QED
    BY <2>1 DEF Settled, age
<1>6. Genuine(packets)
  BY <1>1, SocketEmits, LayoutsDiffer
<1> HIDE DEF s, packets
<1>7. Genuine(net') /\ losses' \in 0 .. MaxLosses /\ dups' \in 0 .. MaxDups
  BY <1>1, <1>6, MovesGenuine, FS_EmptySet DEF ConnectionInv
<1>8. DOMAIN socks' = Ends /\ SocketsInv'
  BY <1>1, <1>2, <1>5, OneSocket
<1>9. ends' \in 0 .. MaxEnds
  BY <1>1, ConnectionAssumption DEF ConnectionInv, TypeOK
<1> QED
  BY <1>1, <1>7, <1>8, <1>9, InvParts DEF ConnectionInv, TypeOK

(* The listener's application drains the events.                           *)
LEMMA AppDrainsStep ==
  ASSUME ConnectionInv, AppDrains
  PROVE  ConnectionInv'
<1> DEFINE s == socks["server"]
<1>1. /\ "server" \notin inProcess /\ Exists("server")
      /\ socks' = [socks EXCEPT !["server"] = Drained(s)]
      /\ caughtUp' = caughtUp \cup {"server"}
      /\ UNCHANGED <<net, losses, dups, sends, ends, inProcess, sinceProcess, dropped>>
  BY DEF AppDrains, AppCalls
<1>2. "server" \in Ends
  BY DEF Ends
<1>3. Sound("server", s) /\ "server" \notin dropped
  BY <1>1, <1>2 DEF ConnectionInv, SocketsInv
<1> HIDE DEF s
<1>4. Sound("server", Drained(s)) /\ \A age : Settled(Drained(s), age)
  BY <1>3, SoundDrained DEF Settled
<1>5. DOMAIN socks' = Ends /\ SocketsInv'
  BY <1>1, <1>2, <1>3, <1>4, OneSocket
<1> QED
  BY <1>1, <1>2, <1>5, InvParts DEF ConnectionInv, TypeOK

(* A Socket or a Listener is dropped.                                      *)
LEMMA AppDropsStep ==
  ASSUME ConnectionInv, NEW e \in Ends, AppDrops(e)
  PROVE  ConnectionInv'
<1> DEFINE aborts == IF Exists(e) /\ ~ IsFinished(socks[e])
                       THEN Emitted(e, socks[e], ControlLayout("Abort")) ELSE {}
<1>1. /\ e \notin inProcess \cup dropped /\ dropped' = dropped \cup {e}
      /\ socks' = [socks EXCEPT ![e] = NoSocket]
      /\ Moves(InFlight(e), aborts)
      /\ sinceProcess' = [sinceProcess EXCEPT ![e] = 0]
      /\ caughtUp' = caughtUp \ {e}
      /\ UNCHANGED <<sends, ends, inProcess>>
  BY DEF AppDrops
<1>2. Genuine(aborts)
  BY SocketEmits, LayoutsDiffer, NoneGenuine
<1> HIDE DEF aborts
<1>3. IsFiniteSet(InFlight(e))
  BY FS_Subset DEF InFlight, ConnectionInv, Genuine
<1>4. Genuine(net') /\ losses' \in 0 .. MaxLosses /\ dups' \in 0 .. MaxDups
  BY <1>1, <1>2, <1>3, MovesGenuine DEF ConnectionInv
<1>5. sinceProcess \in [Ends -> 0 .. MaxIdle] /\ 0 \in 0 .. MaxIdle
  BY ConnectionAssumption DEF ConnectionInv, TypeOK
<1>6. DOMAIN socks' = Ends /\ SocketsInv'
  BY <1>1, <1>5, OneSocket
<1>7. sinceProcess' \in [Ends -> 0 .. MaxIdle]
  BY <1>1, <1>5
<1> QED
  BY <1>1, <1>4, <1>6, <1>7, InvParts DEF ConnectionInv, TypeOK

(* Time passes: an event of send_end that is unread ages with the clock.   *)
LEMMA TimePassesStep ==
  ASSUME ConnectionInv, TimePasses
  PROVE  ConnectionInv'
<1>1. /\ inProcess = {} /\ \A e \in Ends \ dropped : sinceProcess[e] < MaxIdle
      /\ sinceProcess' = [e \in Ends |-> IF e \in dropped THEN 0 ELSE sinceProcess[e] + 1]
      /\ socks' = [e \in Ends |-> IF Exists(e) THEN AgedSocket(socks[e]) ELSE NoSocket]
      /\ UNCHANGED <<net, losses, dups, sends, ends, inProcess, dropped, caughtUp>>
  BY DEF TimePasses
<1>2. {MaxIdle, ClearDelay} \subseteq Nat \ {0}
  BY ConnectionAssumption
<1>3. sinceProcess \in [Ends -> 0 .. MaxIdle]
  BY DEF ConnectionInv, TypeOK
<1>4. sinceProcess' \in [Ends -> 0 .. MaxIdle]
  BY <1>1, <1>2, <1>3
<1>5. SocketsInv'
  <2> SUFFICES ASSUME NEW e \in Ends, socks'[e] # NoSocket
               PROVE  /\ Sound(e, socks'[e]) /\ e \notin dropped
                      /\ e \in caughtUp => Settled(socks'[e], sinceProcess'[e])
    BY <1>1 DEF SocketsInv, Exists
  <2> DEFINE s == socks[e]
             h == AgedSocket(s)
             age == sinceProcess[e]
  <2>1. Exists(e) /\ socks'[e] = h
    BY <1>1
  <2>2. Sound(e, s) /\ e \notin dropped /\ (e \in caughtUp => Settled(s, age))
    BY <1>1, <2>1 DEF ConnectionInv, SocketsInv
  <2>3. age \in Nat /\ age < MaxIdle /\ sinceProcess'[e] = age + 1
    BY <1>1, <1>3, <2>2
  <2>4. /\ Sound(e, h) /\ h.status = s.status /\ h.unread = s.unread
        /\ h.statusAge = Older(s.statusAge, StatusAgeLimit(s))
    BY <2>2, SoundAged
  <2> HIDE DEF s, h, age
  <2>5. s.status = "TerminateSent" => StatusAgeLimit(s) = ClearDelay + MaxIdle
    BY DEF StatusAgeLimit
  <2>6. e \in caughtUp => Settled(h, age + 1)
    BY <1>2, <2>2, <2>3, <2>4, <2>5 DEF Settled, Older
  <2> QED
    BY <2>1, <2>2, <2>3, <2>4, <2>6
<1>6. DOMAIN socks' = Ends /\ Genuine(net')
  BY <1>1 DEF ConnectionInv
<1> QED
  BY <1>1, <1>4, <1>5, <1>6, InvParts DEF ConnectionInv, TypeOK

-----------------------------------------------------------------------------
(* The theorems.                                                           *)

(* The inductive invariant: each step of either end preserves it.          *)
THEOREM ConnectionInvariance == Spec => []ConnectionInv
<1>1. Init => ConnectionInv
  <2> SUFFICES ASSUME Init PROVE ConnectionInv
    OBVIOUS
  <2>1. /\ socks = [e \in Ends |-> IF e = "client" THEN ClientSocket ELSE NoSocket]
        /\ net = Emitted("client", ClientSocket, ControlLayout("Syn"))
        /\ losses = 0 /\ dups = 0 /\ sends = 0 /\ ends = 0
        /\ inProcess = {} /\ dropped = {} /\ caughtUp = {}
        /\ sinceProcess = [e \in Ends |-> 0]
    BY DEF Init
  <2>2. 0 \in 0 .. TimeoutDelay /\ 0 \in 0 .. MaxIdle /\ 0 \in 0 .. MaxLosses
        /\ 0 \in 0 .. MaxDups /\ 0 \in 0 .. MaxSends /\ 0 \in 0 .. MaxEnds
    BY ConnectionAssumption
  <2>3. Sound("client", ClientSocket)
    BY <2>2 DEF Sound, SocketRecord, ClientSocket, NewSocket, IsFinished
  <2>4. Genuine(net)
    BY <2>1, EmittedGenuine, LayoutsDiffer DEF ClientSocket, NewSocket, Ends
  <2>5. SocketsInv
    BY <2>1, <2>3 DEF SocketsInv, Exists
  <2>6. TypeOK
    BY <2>1, <2>2, <2>3, <2>4, <2>5
       DEF TypeOK, SocketsInv, Sound, Exists, Genuine, Packet, Ends
  <2> QED
    BY <2>4, <2>5, <2>6 DEF ConnectionInv
<1>2. ConnectionInv /\ [Next]_vars => ConnectionInv'
  <2> SUFFICES ASSUME ConnectionInv, [Next]_vars PROVE ConnectionInv'
    OBVIOUS
  <2>1. ASSUME NEW e \in Ends,
               \/ Begin(e) \/ Receives(e) \/ Finishes(e)
               \/ AppSends(e) \/ AppEnds(e) \/ AppDrops(e)
        PROVE  ConnectionInv'
    BY <2>1, BeginStep, ReceivesStep, FinishesStep, AppSendsStep, AppEndsStep, AppDropsStep
  <2>2. CASE TimePasses
    BY <2>2, TimePassesStep
  <2>3. CASE AppDrains
    BY <2>3, AppDrainsStep
  <2>4. CASE UNCHANGED vars
    BY <2>4 DEF vars, ConnectionInv, TypeOK, SocketsInv, Genuine, Exists
  <2> QED
    BY <2>1, <2>2, <2>3, <2>4 DEF Next
<1> QED
  BY <1>1, <1>2, PTL DEF Spec

(* The variables keep their types: the listener's socket keeps the key of  *)
(* the client it was made for, and never waits for a SynAck.               *)
THEOREM ConnectionTypes == Spec => []TypeOK
<1>1. ConnectionInv => TypeOK
  BY DEF ConnectionInv
<1> QED
  BY <1>1, ConnectionInvariance, PTL

(* An application is told that it is connected before it is given data,    *)
(* in whatever order the answer to the Syn and the data arrive.            *)
THEOREM ConnectedBeforeData == Spec => []DataFollowsConnected
<1>1. ConnectionInv => DataFollowsConnected
  BY DEF ConnectionInv, SocketsInv, Sound, DataFollowsConnected
<1> QED
  BY <1>1, ConnectionInvariance, PTL

(* What becomes of a socket: old and finished, it is removed; with its     *)
(* Socket or Listener, it is dropped; otherwise it lives on, and if it is  *)
(* finished it stays so.                                                   *)
LEMMA SocketLife ==
  ASSUME ConnectionInv, Next, NEW d \in Ends, Exists(d)
  PROVE  \/ Begin(d) /\ ShouldClear(d) /\ socks'[d] = NoSocket
         \/ d \in dropped' /\ socks'[d] = NoSocket
         \/ socks'[d] # NoSocket /\ (IsFinished(socks[d]) => IsFinished(socks'[d]))
<1> DEFINE s == socks[d]
           LivesOn(x) == x # NoSocket /\ (IsFinished(s) => IsFinished(x))
           over == {"TerminateSent", "TerminateReceived"}
<1>1. DOMAIN socks = Ends /\ Sound(d, s) /\ sinceProcess[d] \in Nat
  BY DEF ConnectionInv, TypeOK, SocketsInv
<1>2. Heard(d).status = s.status /\ Sound(d, Heard(d))
  BY <1>1, SoundHeard DEF Heard
<1>3. \A x : Sound(d, x) /\ x.status \in over \cup {s.status} => LivesOn(x)
  BY SoundExists DEF IsFinished
<1>4. ASSUME NEW e \in Ends, e # d,
             \/ Begin(e) \/ Receives(e) \/ Finishes(e)
             \/ AppSends(e) \/ AppEnds(e) \/ AppDrops(e)
      PROVE  socks'[d] = s
  <2>1. CASE Receives(e)
    BY <1>1, <1>4, <2>1
       DEF Receives, GetsForeign, GetsData, GetsHeartbeat, GetsSyn, GetsSynAck, GetsEnd,
           Accepts, Ignores, Gets
  <2>2. CASE Finishes(e)
    BY <1>1, <1>4, <2>2
       DEF Finishes, FinishesTimedOut, FinishesWithHeartbeat, FinishesWithSyn,
           FinishesQuietly, Leaves
  <2>3. CASE Begin(e) \/ AppSends(e) \/ AppEnds(e) \/ AppDrops(e)
    BY <1>1, <1>4, <2>3 DEF Begin, AppSends, AppEnds, AppDrops
  <2> QED
    BY <1>4, <2>1, <2>2, <2>3
<1>5. CASE Begin(d)
  BY <1>1, <1>3, <1>5 DEF Begin
<1>6. CASE Receives(d)
  <2>1. PICK p \in InFlight(d) :
          \/ GetsForeign(d, p) \/ GetsData(d, p) \/ GetsHeartbeat(d, p) \/ GetsSyn(d, p)
          \/ GetsSynAck(d, p) \/ GetsEnd(d, p)
    BY <1>6 DEF Receives, Accepts, Ignores
  <2>2. ASSUME NEW x, NEW answers, Gets(d, p, x, answers)
        PROVE  socks'[d] = x
    BY <1>1, <2>2 DEF Gets
  <2>3. CASE GetsForeign(d, p) \/ GetsHeartbeat(d, p)
    BY <1>2, <1>3, <2>2, <2>3 DEF GetsForeign, GetsHeartbeat
  <2>4. CASE GetsData(d, p)
    <3> DEFINE x == Pushed(Heard(d), {"Data"})
    <3>1. socks'[d] = x
      BY <2>2, <2>4 DEF GetsData
    <3>2. x.status = s.status
      BY <1>2, SoundIsAny, PushedFields DEF Events
    <3> HIDE DEF x
    <3> QED
      BY <1>1, <3>1, <3>2 DEF IsFinished, NoSocket, Sound, SocketRecord
  <2>5. CASE GetsSyn(d, p)
    <3>1. socks'[d] = HasSent(Heard(d), 0)
      BY <2>2, <2>5 DEF GetsSyn
    <3>2. Sound(d, HasSent(Heard(d), 0)) /\ HasSent(Heard(d), 0).status = s.status
      BY <1>2, SoundHasSent
    <3> QED
      BY <1>3, <3>1, <3>2
  <2>6. CASE GetsSynAck(d, p)
    <3>1. CASE s.status = "SynSent" /\ Gets(d, p, Learnt(d, p), {})
      <4> DEFINE y == [Heard(d) EXCEPT !.other = p.src]
      <4>1. socks'[d] = WithStatus(y, "Connected", 0)
        BY <2>2, <3>1 DEF Learnt
      <4>2. y \in AnySocket /\ "Connected" \in Statuses
        <5> DEFINE h == Heard(d)
        <5>1. h \in AnySocket /\ p.src \in Nat
          BY <1>2, SoundIsAny DEF InFlight, ConnectionInv, Genuine, Packet
        <5> HIDE DEF h
        <5>2. [h EXCEPT !.other = p.src] \in AnySocket
          BY <5>1 DEF AnySocket
        <5> QED
          BY <5>2 DEF h, Statuses
      <4> HIDE DEF y
      <4>3. socks'[d].status = "Connected"
        BY <4>1, <4>2, WithStatusFields
      <4> QED
        BY <3>1, <4>3 DEF IsFinished, NoSocket
    <3>2. CASE Gets(d, p, Heard(d), {})
      BY <1>2, <1>3, <2>2, <3>2
    <3> QED
      BY <2>6, <3>1, <3>2 DEF GetsSynAck
  <2>7. CASE GetsEnd(d, p)
    <3>1. PICK how \in {"Ended", "Aborted"} :
            Gets(d, p, Pushed(WithStatus(Heard(d), "TerminateReceived", 0), {how}), {})
      BY <2>7 DEF GetsEnd
    <3> DEFINE x == Pushed(WithStatus(Heard(d), "TerminateReceived", 0), {how})
    <3>2. Sound(d, x) /\ x.status = "TerminateReceived"
      BY <1>2, SoundTerminated
    <3> HIDE DEF x
    <3> QED
      BY <1>3, <2>2, <3>1, <3>2 DEF x
  <2> QED
    BY <2>1, <2>3, <2>4, <2>5, <2>6, <2>7
<1>7. CASE Finishes(d)
  <2>1. \/ /\ ~ IsFinished(s)
           /\ \/ socks'[d] = WithStatus(s, "TimeoutError", 0)
              \/ socks'[d] = HasSent(s, 0)
              \/ /\ s.status = "SynSent"
                 /\ socks'[d] = HasSent(WithStatus(s, "SynSent", 0), 0)
        \/ socks'[d] = s
    BY <1>1, <1>7
       DEF Finishes, FinishesTimedOut, FinishesWithHeartbeat, FinishesWithSyn,
           FinishesQuietly, Leaves, IsTimedOut, IsHeartbeatDue, IsSynDue, IsFinished
  <2>2. Sound(d, WithStatus(s, "TimeoutError", 0)) /\ Sound(d, HasSent(s, 0))
    BY <1>1, SoundFinished, SoundHasSent
  <2>3. s.status = "SynSent" => Sound(d, HasSent(WithStatus(s, "SynSent", 0), 0))
    <3> SUFFICES ASSUME s.status = "SynSent"
                 PROVE  Sound(d, HasSent(WithStatus(s, "SynSent", 0), 0))
      OBVIOUS
    <3>1. d = "client"
      BY <1>1 DEF Sound, Ends
    <3>2. Sound(d, WithStatus(s, "SynSent", 0))
      BY <1>1, <3>1, SoundSynSent
    <3> QED
      BY <3>2, SoundHasSent
  <2>4. \A x : Sound(d, x) => x # NoSocket
    BY SoundExists
  <2> HIDE DEF s
  <2> QED
    BY <1>1, <2>1, <2>2, <2>3, <2>4 DEF IsFinished, s
<1>8. CASE AppSends(d)
  <2>1. socks'[d] = HasSent(s, sinceProcess[d])
    BY <1>1, <1>8 DEF AppSends
  <2>2. Sound(d, HasSent(s, sinceProcess[d])) /\ HasSent(s, sinceProcess[d]).status = s.status
    BY <1>1, SoundHasSent
  <2> QED
    BY <1>3, <2>1, <2>2
<1>9. CASE AppEnds(d)
  <2> DEFINE age == sinceProcess[d]
             t == HasSent(s, age)
             x == WithStatus(t, "TerminateSent", age)
  <2>1. socks'[d] = x /\ age \in Nat
    BY <1>1, <1>9 DEF AppEnds
  <2>2. Sound(d, t)
    BY <1>1, <2>1, SoundHasSent
  <2> HIDE DEF t, age
  <2>3. Sound(d, x) /\ x.status = "TerminateSent"
    BY <2>1, <2>2, SoundFinished
  <2> HIDE DEF x
  <2> QED
    BY <1>3, <2>1, <2>3
<1>10. CASE AppDrops(d)
  BY <1>1, <1>10 DEF AppDrops
<1>11. CASE TimePasses
  <2>1. socks'[d] = AgedSocket(s)
    BY <1>11 DEF TimePasses
  <2>2. Sound(d, AgedSocket(s)) /\ AgedSocket(s).status = s.status
    BY <1>1, SoundAged
  <2> QED
    BY <1>3, <2>1, <2>2
<1>12. CASE AppDrains
  <2>1. socks'[d] = s \/ socks'[d] = Drained(s)
    BY <1>1, <1>12 DEF AppDrains
  <2>2. Sound(d, Drained(s)) /\ Drained(s).status = s.status
    BY <1>1, SoundDrained
  <2> QED
    BY <1>1, <1>3, <2>1, <2>2
<1>13. LivesOn(s)
  BY <1>1, <1>3
<1> QED
  BY <1>4, <1>5, <1>6, <1>7, <1>8, <1>9, <1>10, <1>11, <1>12, <1>13 DEF Next

(* A connection that has ended does not come back to life, whatever is     *)
(* still under way.                                                        *)
THEOREM FinishedForGood == Spec => FinishedIsFinal
<1>1. ConnectionInv /\ [Next]_vars =>
        [\A e \in Ends : Exists(e) /\ IsFinished(socks[e]) =>
           socks'[e] = NoSocket \/ IsFinished(socks'[e])]_vars
  BY SocketLife
<1> QED
  BY <1>1, ConnectionInvariance, PTL DEF Spec, FinishedIsFinal

(* An application that drains its events between any two calls of          *)
(* process() is given all those of a remote before the listener removes    *)
(* it, among them how it ended: what is unread when a call starts was      *)
(* queued by a send_end since the last call, whose clock dates it and is   *)
(* the one that the removal goes by.                                       *)
THEOREM RemovedAfterNews == Spec => RemovalIsAnnounced
<1>1. ASSUME ConnectionInv, Next, Exists("server"), socks'["server"] = NoSocket,
             "server" \notin dropped'
      PROVE  /\ "server" \in caughtUp => socks["server"].unread = {}
             /\ socks["server"].seen \cap {"Ended", "Aborted", "Timeout"} # {}
  <2> DEFINE s == socks["server"]
  <2>1. "server" \in Ends
    BY DEF Ends
  <2>2. Begin("server") /\ ShouldClear("server")
    BY <1>1, <2>1, SocketLife
  <2>3. /\ Sound("server", s)
        /\ "server" \in caughtUp => Settled(s, sinceProcess["server"])
    BY <1>1, <2>1, <2>2 DEF ConnectionInv, SocketsInv, Begin
  <2>4. IsFinished(s) /\ s.statusAge - sinceProcess["server"] >= ClearDelay
    BY <2>2 DEF ShouldClear, IsOld
  <2>5. ClearDelay \in Nat \ {0} /\ sinceProcess["server"] \in Nat
    BY <1>1, <2>1, ConnectionAssumption DEF ConnectionInv, TypeOK
  <2>6. "server" \in caughtUp => s.unread = {}
    BY <2>3, <2>4, <2>5 DEF Settled
  <2> QED
    BY <2>3, <2>4, <2>6 DEF Sound
<1>2. ConnectionInv /\ [Next]_vars =>
        [Exists("server") /\ socks'["server"] = NoSocket /\ "server" \notin dropped' =>
           /\ "server" \in caughtUp => socks["server"].unread = {}
           /\ socks["server"].seen \cap {"Ended", "Aborted", "Timeout"} # {}]_vars
  BY <1>1
<1> QED
  BY <1>2, ConnectionInvariance, PTL DEF Spec, RemovalIsAnnounced

-----------------------------------------------------------------------------
(* What a socket tells its owner.                                          *)

(* From s to t, nothing that its owner can tell; or one of the moves that  *)
(* a client may make inside process(); or the answer to a send_end.        *)
ActsAsClient(e, s, t) ==
  \/ t.status = s.status /\ t.seen = s.seen
  \/ /\ e \in inProcess
     /\ \E m \in RudpMoves(s.status) : t.status = m[1] /\ t.seen = s.seen \cup {m[2]}
  \/ e \notin inProcess /\ t.status = "TerminateSent" /\ t.seen = s.seen \cup {"Ended"}

(* The dates of a socket and its queue are not its status or its history.  *)
LEMMA QuietFields ==
  ASSUME NEW s \in AnySocket, NEW age
  PROVE  /\ HasSent(s, age).status = s.status /\ HasSent(s, age).seen = s.seen
         /\ Drained(s).status = s.status /\ Drained(s).seen = s.seen
BY Fields DEF HasSent, Drained

(* One socket, in one step: what it is told or does itself.                *)
LEMMA SocketActs ==
  ASSUME ConnectionInv, Next, NEW d \in Ends, Exists(d), socks'[d] # NoSocket
  PROVE  ActsAsClient(d, socks[d], socks'[d])
<1> DEFINE s == socks[d]
           Quiet(x) == x.status = s.status /\ x.seen = s.seen
<1>1. /\ DOMAIN socks = Ends /\ Sound(d, s) /\ sinceProcess[d] \in Nat /\ s \in AnySocket
      /\ s.status \in Statuses
  BY SoundIsAny DEF ConnectionInv, TypeOK, SocketsInv, AnySocket
<1>2. /\ Heard(d) \in AnySocket /\ Quiet(Heard(d)) /\ Heard(d).other = s.other
      /\ Sound(d, Heard(d))
  BY <1>1, SoundHeard, SoundIsAny DEF Heard
<1>3. \A x : socks'[d] = x /\ Quiet(x) => ActsAsClient(d, s, socks'[d])
  BY DEF ActsAsClient
<1>4. ASSUME NEW e \in Ends, e # d,
             \/ Begin(e) \/ Receives(e) \/ Finishes(e)
             \/ AppSends(e) \/ AppEnds(e) \/ AppDrops(e)
      PROVE  socks'[d] = s
  <2>1. CASE Receives(e)
    BY <1>1, <1>4, <2>1
       DEF Receives, GetsForeign, GetsData, GetsHeartbeat, GetsSyn, GetsSynAck, GetsEnd,
           Accepts, Ignores, Gets
  <2>2. CASE Finishes(e)
    BY <1>1, <1>4, <2>2
       DEF Finishes, FinishesTimedOut, FinishesWithHeartbeat, FinishesWithSyn,
           FinishesQuietly, Leaves
  <2>3. CASE Begin(e) \/ AppSends(e) \/ AppEnds(e) \/ AppDrops(e)
    BY <1>1, <1>4, <2>3 DEF Begin, AppSends, AppEnds, AppDrops
  <2> QED
    BY <1>4, <2>1, <2>2, <2>3
<1>5. CASE Begin(d)
  <2>1. socks'[d] = s
    BY <1>1, <1>5 DEF Begin
  <2> QED
    BY <1>3, <2>1
<1>6. CASE Receives(d)
  <2>1. PICK p \in InFlight(d) :
          \/ GetsForeign(d, p) \/ GetsData(d, p) \/ GetsHeartbeat(d, p) \/ GetsSyn(d, p)
          \/ GetsSynAck(d, p) \/ GetsEnd(d, p)
    BY <1>6 DEF Receives, Accepts, Ignores
  <2>2. ASSUME NEW x, NEW answers, Gets(d, p, x, answers)
        PROVE  socks'[d] = x /\ d \in inProcess
    BY <1>1, <2>2 DEF Gets
  <2>3. p.src \in Nat \ {0}
    BY DEF InFlight, ConnectionInv, Genuine, Packet
  <2>4. ASSUME Known(d, p), ~ Is(p, "Syn"), ~ Is(p, "SynAck")
        PROVE  s.status # "SynSent"
    BY <1>1, <2>3, <2>4 DEF Known, IsForUs, Sound
  <2>5. CASE GetsForeign(d, p) \/ GetsHeartbeat(d, p)
    BY <1>2, <1>3, <2>2, <2>5 DEF GetsForeign, GetsHeartbeat
  <2>6. CASE GetsData(d, p)
    <3> DEFINE x == Pushed(Heard(d), {"Data"})
    <3>1. socks'[d] = x /\ d \in inProcess
      BY <2>2, <2>6 DEF GetsData
    <3>2. x.status = s.status /\ x.seen = s.seen \cup {"Data"}
      BY <1>2, PushedFields DEF Events
    <3>3. s.status # "SynSent"
      <4>1. ~ Is(p, "Syn") /\ ~ Is(p, "SynAck")
        BY <2>6, LayoutsDiffer DEF GetsData, IsFragment, Is, IsControl
      <4> QED
        BY <2>4, <2>6, <4>1 DEF GetsData
    <3> HIDE DEF x
    <3>4. <<s.status, "Data">> \in RudpMoves(s.status)
      BY <3>3 DEF RudpMoves
    <3> QED
      BY <3>1, <3>2, <3>4 DEF ActsAsClient
  <2>7. CASE GetsSyn(d, p)
    <3>1. socks'[d] = HasSent(Heard(d), 0)
      BY <2>2, <2>7 DEF GetsSyn
    <3>2. Quiet(HasSent(Heard(d), 0))
      BY <1>2, QuietFields
    <3> QED
      BY <1>3, <3>1, <3>2
  <2>8. CASE GetsSynAck(d, p)
    <3>1. CASE s.status = "SynSent" /\ Gets(d, p, Learnt(d, p), {})
      <4> DEFINE y == [Heard(d) EXCEPT !.other = p.src]
      <4>1. socks'[d] = WithStatus(y, "Connected", 0) /\ d \in inProcess
        BY <2>2, <3>1 DEF Learnt
      <4>2. y \in AnySocket /\ y.seen = s.seen /\ "Connected" \in Statuses
        <5> DEFINE h == Heard(d)
        <5>1. h \in AnySocket /\ p.src \in Nat /\ h.seen = s.seen
          BY <1>2, <2>3
        <5> HIDE DEF h
        <5>2. [h EXCEPT !.other = p.src] \in AnySocket
          BY <5>1 DEF AnySocket
        <5>3. [h EXCEPT !.other = p.src].seen = h.seen
          BY <5>1, Fields
        <5> QED
          BY <5>1, <5>2, <5>3 DEF h, Statuses
      <4> HIDE DEF y
      <4>3. StatusEvents("Connected") = {"Connected"}
        BY DEF StatusEvents
      <4>4. socks'[d].status = "Connected" /\ socks'[d].seen = s.seen \cup {"Connected"}
        BY <4>1, <4>2, <4>3, 0 \in Nat, WithStatusFields
      <4>5. <<"Connected", "Connected">> \in RudpMoves(s.status)
        BY <3>1 DEF RudpMoves
      <4> QED
        BY <4>1, <4>4, <4>5 DEF ActsAsClient
    <3>2. CASE Gets(d, p, Heard(d), {})
      BY <1>2, <1>3, <2>2, <3>2
    <3> QED
      BY <2>8, <3>1, <3>2 DEF GetsSynAck
  <2>9. CASE GetsEnd(d, p)
    <3> DEFINE x == WithStatus(Heard(d), "TerminateReceived", 0)
    <3>1. PICK last \in {<<"End", "Ended">>, <<"Abort", "Aborted">>} :
            Is(p, last[1]) /\ Gets(d, p, Pushed(x, {last[2]}), {})
      BY <2>9 DEF GetsEnd
    <3>2. last[2] \in {"Ended", "Aborted"} /\ last[1] \in {"End", "Abort"}
      OBVIOUS
    <3>3. StatusEvents("TerminateReceived") = {} /\ "TerminateReceived" \in Statuses
      BY DEF StatusEvents, Statuses
    <3>4. x \in AnySocket /\ x.status = "TerminateReceived" /\ x.seen = s.seen
      <4>1. /\ x \in AnySocket /\ x.status = "TerminateReceived"
            /\ x.seen = Heard(d).seen \cup StatusEvents("TerminateReceived")
        BY <1>2, <3>3, 0 \in Nat, WithStatusFields
      <4> HIDE DEF x
      <4> QED
        BY <1>2, <3>3, <4>1
    <3>5. s.status # "SynSent"
      <4>1. ~ Is(p, "Syn") /\ ~ Is(p, "SynAck")
        BY <3>1, <3>2, LayoutsDiffer DEF Is, IsControl
      <4> QED
        BY <2>4, <2>9, <4>1 DEF GetsEnd
    <3>6. socks'[d] = Pushed(x, {last[2]}) /\ d \in inProcess
      BY <2>2, <3>1
    <3> HIDE DEF x
    <3>7. socks'[d].status = "TerminateReceived" /\ socks'[d].seen = s.seen \cup {last[2]}
      BY <3>2, <3>4, <3>6, PushedFields DEF Events
    <3>8. <<"TerminateReceived", last[2]>> \in RudpMoves(s.status)
      BY <3>2, <3>5 DEF RudpMoves
    <3> QED
      BY <3>6, <3>7, <3>8 DEF ActsAsClient
  <2> QED
    BY <2>1, <2>5, <2>6, <2>7, <2>8, <2>9
<1>7. CASE Finishes(d)
  <2> DEFINE late  == WithStatus(s, "TimeoutError", 0)
             again == WithStatus(s, "SynSent", 0)
  <2>1. /\ d \in inProcess
        /\ \/ ~ IsFinished(s) /\ socks'[d] = late
           \/ socks'[d] = HasSent(s, 0)
           \/ s.status = "SynSent" /\ socks'[d] = HasSent(again, 0)
           \/ socks'[d] = s
    BY <1>1, <1>7
       DEF Finishes, FinishesTimedOut, FinishesWithHeartbeat, FinishesWithSyn,
           FinishesQuietly, Leaves, IsTimedOut, IsSynDue
  <2>2. /\ late \in AnySocket /\ late.status = "TimeoutError"
        /\ late.seen = s.seen \cup {"Timeout"}
    <3>1. StatusEvents("TimeoutError") = {"Timeout"} /\ "TimeoutError" \in Statuses
      BY DEF StatusEvents, Statuses
    <3> QED
      BY <1>1, <3>1, 0 \in Nat, WithStatusFields
  <2>3. again \in AnySocket /\ again.status = "SynSent" /\ again.seen = s.seen
    <3>1. StatusEvents("SynSent") = {} /\ "SynSent" \in Statuses
      BY DEF StatusEvents, Statuses
    <3>2. /\ again \in AnySocket /\ again.status = "SynSent"
          /\ again.seen = s.seen \cup StatusEvents("SynSent")
      BY <1>1, <3>1, 0 \in Nat, WithStatusFields
    <3> HIDE DEF again
    <3> QED
      BY <3>1, <3>2
  <2> HIDE DEF late, again
  <2>4. CASE ~ IsFinished(s) /\ socks'[d] = late
    <3>1. <<"TimeoutError", "Timeout">> \in RudpMoves(s.status)
      BY <1>1, <2>4 DEF RudpMoves, IsFinished, Sound, SocketRecord
    <3>2. socks'[d].status = "TimeoutError" /\ socks'[d].seen = s.seen \cup {"Timeout"}
      BY <2>2, <2>4
    <3> QED
      BY <2>1, <3>1, <3>2 DEF ActsAsClient
  <2>5. CASE socks'[d] = HasSent(s, 0) \/ socks'[d] = s
    <3>1. Quiet(socks'[d])
      BY <1>1, <2>5, QuietFields
    <3> QED
      BY <1>3, <3>1
  <2>6. CASE s.status = "SynSent" /\ socks'[d] = HasSent(again, 0)
    <3>1. Quiet(socks'[d])
      BY <2>3, <2>6, QuietFields
    <3> QED
      BY <1>3, <3>1
  <2> QED
    BY <2>1, <2>4, <2>5, <2>6
<1>8. CASE AppSends(d)
  <2>1. socks'[d] = HasSent(s, sinceProcess[d])
    BY <1>1, <1>8 DEF AppSends
  <2> QED
    BY <1>1, <1>3, <2>1, QuietFields
<1>9. CASE AppEnds(d)
  <2> DEFINE t == HasSent(s, sinceProcess[d])
  <2>1. socks'[d] = WithStatus(t, "TerminateSent", sinceProcess[d]) /\ d \notin inProcess
    BY <1>1, <1>9 DEF AppEnds, AppCalls
  <2>2. t \in AnySocket /\ t.seen = s.seen
    BY <1>1, SoundHasSent, SoundIsAny, QuietFields
  <2>3. StatusEvents("TerminateSent") = {"Ended"} /\ "TerminateSent" \in Statuses
    BY DEF StatusEvents, Statuses
  <2> HIDE DEF t
  <2>4. socks'[d].status = "TerminateSent" /\ socks'[d].seen = s.seen \cup {"Ended"}
    BY <1>1, <2>1, <2>2, <2>3, WithStatusFields
  <2> QED
    BY <2>1, <2>4 DEF ActsAsClient
<1>10. CASE AppDrops(d)
  BY <1>1, <1>10 DEF AppDrops
<1>11. CASE TimePasses
  <2>1. socks'[d] = AgedSocket(s)
    BY <1>11 DEF TimePasses
  <2> QED
    BY <1>1, <1>3, <2>1, SoundAged
<1>12. CASE AppDrains
  <2>1. socks'[d] = s \/ socks'[d] = Drained(s)
    BY <1>1, <1>12 DEF AppDrains
  <2> QED
    BY <1>1, <1>3, <2>1, QuietFields
<1>13. socks'[d] = s => ActsAsClient(d, s, socks'[d])
  BY <1>3
<1> QED
  BY <1>4, <1>5, <1>6, <1>7, <1>8, <1>9, <1>10, <1>11, <1>12, <1>13 DEF Next

(* What the owner of a socket sees of it, step by step, is what Client     *)
(* takes a client of rbtl-rudp for: inside process() the status and the    *)
(* event of one of RudpMoves, and outside only what a send_end does.  In   *)
(* particular nothing is heard of a remote before its SynAck.              *)
THEOREM SocketsMoveAsClients ==
  Spec => [][\A e \in Ends : Exists(e) /\ socks'[e] # NoSocket =>
               ActsAsClient(e, socks[e], socks'[e])]_vars
<1>1. ConnectionInv /\ [Next]_vars =>
        [\A e \in Ends : Exists(e) /\ socks'[e] # NoSocket =>
           ActsAsClient(e, socks[e], socks'[e])]_vars
  BY SocketActs
<1> QED
  BY <1>1, ConnectionInvariance, PTL DEF Spec
=============================================================================
