------------------------ MODULE TcpConnectionProofs ------------------------
(***************************************************************************)
(* An rbtl-tcp connection keeps its promises for any delays and any number *)
(* of messages and faults.                                                 *)
(*                                                                         *)
(* ConnectionInv is the inductive invariant.  Its core is FlowInv: what an *)
(* end has queued, and after it any sound messages that it has not read,   *)
(* is a prefix of what the other end sent, and all of it while nothing was *)
(* cut or closed.  Most steps are Quiet: they shorten what is under way,   *)
(* and change no more of a socket than its status and its ages.  The two   *)
(* that are not are process(), which moves messages from the stream to the *)
(* events, and send_data.                                                  *)
(***************************************************************************)
EXTENDS TcpConnection, SocketMoves, SelectionsProofs, FiniteSetTheorems

-----------------------------------------------------------------------------
(* The data among messages, results and events.                            *)

IdsOf(xs) == [i \in DOMAIN DataOf(xs) |-> DataOf(xs)[i].seq]

Datas(E) == {x \in E : x.kind = "Data"}

(* It is a selection by a set that does not depend on the sequence.        *)
LEMMA DataSelected ==
  ASSUME NEW E, NEW xs \in Seq(E)
  PROVE  DataOf(xs) = Selected(xs, Datas(E))
<1> DEFINE S == {r \in ToSet(xs) : r.kind = "Data"}
<1>1. \A i \in 1 .. Len(xs) : xs[i] \in S <=> xs[i] \in Datas(E)
  BY DEF ToSet, Datas
<1>2. Selected(xs, S) = Selected(xs, Datas(E))
  BY <1>1, SelectedSame
<1> QED
  BY <1>2 DEF DataOf

(* It has data only.                                                       *)
LEMMA DataOfType ==
  ASSUME NEW E, NEW xs \in Seq(E)
  PROVE  DataOf(xs) \in Seq(E) /\ DataOf(xs) \in Seq(Datas(E))
<1> DEFINE d == DataOf(xs)
           S == Datas(E)
<1>1. d = Selected(xs, S) /\ d \in Seq(E)
  BY DataSelected, SelectedType
<1>2. \A i \in 1 .. Len(d) : d[i] \in S
  <2>1. \A y : (\E i \in 1 .. Len(Selected(xs, S)) : Selected(xs, S)[i] = y)
                 <=> y \in S /\ (\E i \in 1 .. Len(xs) : xs[i] = y)
    <3> HIDE DEF S
    <3> QED
      BY SelectedElements
  <2> HIDE DEF d, S
  <2> QED
    BY <1>1, <2>1
<1> HIDE DEF d, S
<1>3. d \in Seq(S)
  BY <1>1, <1>2
<1> QED
  BY <1>1, <1>3 DEF d, S

(* Whether there are ids in the sequences.                                 *)
HasIds(E) == \A x \in Datas(E) : x.seq \in Nat

(* The data of a sequence that grows by one.                               *)
LEMMA DataOfAppend ==
  ASSUME NEW E, NEW xs \in Seq(E), NEW x \in E
  PROVE  /\ DataOf(xs) \in Seq(E)
         /\ DataOf(Append(xs, x)) =
              IF x.kind = "Data" THEN Append(DataOf(xs), x) ELSE DataOf(xs)
<1> DEFINE S == Datas(E)
<1>1. DataOf(xs) = Selected(xs, S) /\ DataOf(xs) \in Seq(E) /\ Append(xs, x) \in Seq(E)
  BY DataSelected, SelectedType
<1>2. DataOf(Append(xs, x)) = Selected(Append(xs, x), S)
  BY <1>1, DataSelected
<1>3. Selected(Append(xs, x), S) =
        IF x \in S THEN Append(Selected(xs, S), x) ELSE Selected(xs, S)
  BY SelectedAppend
<1>4. x \in S <=> x.kind = "Data"
  BY DEF Datas
<1> HIDE DEF S
<1> QED
  BY <1>1, <1>2, <1>3, <1>4

(* The ids of a sequence that grows by one.                                *)
LEMMA IdsOfAppend ==
  ASSUME NEW E, HasIds(E), NEW xs \in Seq(E), NEW x \in E
  PROVE  /\ IdsOf(xs) \in Seq(Nat)
         /\ IdsOf(Append(xs, x)) = IF x.kind = "Data" THEN Append(IdsOf(xs), x.seq) ELSE IdsOf(xs)
<1> DEFINE d == DataOf(xs)
<1>1. d \in Seq(E) /\ d \in Seq(Datas(E))
  BY DataOfType
<1>2. \A i \in 1 .. Len(d) : d[i] \in Datas(E)
  <2> HIDE DEF d
  <2> QED
    BY <1>1
<1>3. DataOf(Append(xs, x)) = IF x.kind = "Data" THEN Append(d, x) ELSE d
  BY DataOfAppend
<1>4. IdsOf(xs) = [i \in 1 .. Len(d) |-> d[i].seq] /\ IdsOf(xs) \in Seq(Nat)
  <2>1. IdsOf(xs) = [i \in 1 .. Len(d) |-> d[i].seq]
    BY <1>1 DEF IdsOf
  <2>2. \A i \in 1 .. Len(d) : d[i].seq \in Nat
    BY <1>2 DEF HasIds
  <2> HIDE DEF d
  <2> QED
    BY <1>1, <2>1, <2>2
<1>5. CASE x.kind = "Data"
  <2> HIDE DEF d
  <2>1. DataOf(Append(xs, x)) = Append(d, x)
    BY <1>3, <1>5
  <2>2. x.seq \in Nat
    BY <1>5 DEF HasIds, Datas
  <2>3. IdsOf(Append(xs, x)) = [i \in 1 .. Len(d) + 1 |-> Append(d, x)[i].seq]
    BY <1>1, <2>1 DEF IdsOf
  <2>4. \A i \in 1 .. Len(d) + 1 :
          Append(d, x)[i].seq = IF i = Len(d) + 1 THEN x.seq ELSE d[i].seq
    BY <1>1
  <2>5. [i \in 1 .. Len(d) + 1 |-> Append(d, x)[i].seq]
          = [i \in 1 .. Len(d) + 1 |-> IF i = Len(d) + 1 THEN x.seq ELSE d[i].seq]
    BY <2>4
  <2>6. Append(IdsOf(xs), x.seq)
          = [i \in 1 .. Len(d) + 1 |-> IF i = Len(d) + 1 THEN x.seq ELSE d[i].seq]
    <3>1. Len(IdsOf(xs)) = Len(d) /\ Len(d) \in Nat /\ \A i \in 1 .. Len(d) : IdsOf(xs)[i] = d[i].seq
      BY <1>1, <1>4
    <3> DEFINE a == Append(IdsOf(xs), x.seq)
    <3>2. a \in Seq(Nat) /\ Len(a) = Len(d) + 1 /\ a[Len(d) + 1] = x.seq
          /\ \A i \in 1 .. Len(d) : a[i] = d[i].seq
      BY <1>4, <2>2, <3>1
    <3> HIDE DEF a
    <3>3. \A i \in 1 .. Len(d) + 1 : a[i] = IF i = Len(d) + 1 THEN x.seq ELSE d[i].seq
      BY <3>1, <3>2
    <3>4. a = [i \in 1 .. Len(d) + 1 |-> a[i]]
      BY <3>2
    <3> QED
      BY <3>3, <3>4 DEF a
  <2> QED
    BY <1>4, <1>5, <2>3, <2>5, <2>6
<1>6. CASE x.kind # "Data"
  <2>1. DataOf(Append(xs, x)) = d
    BY <1>3, <1>6
  <2> QED
    BY <1>4, <1>6, <2>1 DEF IdsOf
<1> QED
  BY <1>5, <1>6

(* No elements, no ids.                                                    *)
LEMMA IdsOfNone == DataOf(<<>>) = <<>> /\ IdsOf(<<>>) = <<>>
<1>1. <<>> \in Seq({}) /\ \A i \in 1 .. Len(<<>>) : <<>>[i] \notin Datas({})
  OBVIOUS
<1>2. DataOf(<<>>) = <<>>
  BY <1>1, DataSelected, SelectedNone
<1> QED
  BY <1>2 DEF IdsOf

(* The ids of a concatenation.                                             *)
IdsJoin(xs, ys) == IdsOf(xs \o ys) = IdsOf(xs) \o IdsOf(ys)

LEMMA IdsOfConcat ==
  ASSUME NEW E, HasIds(E), NEW xs \in Seq(E), NEW ys \in Seq(E)
  PROVE  IdsJoin(xs, ys)
<1> DEFINE T == {zs \in Seq(E) : IdsJoin(xs, zs)}
<1>1. <<>> \in T
  <2>1. IdsOf(xs) \in Seq(Nat)
    <3>1. CASE E = {}
      <4>1. xs = <<>>
        BY <3>1
      <4>2. <<>> \in Seq(Nat)
        OBVIOUS
      <4> QED
        BY <4>1, <4>2, IdsOfNone
    <3>2. CASE E # {}
      BY <3>2, IdsOfAppend
    <3> QED
      BY <3>1, <3>2
  <2>2. xs \o <<>> = xs /\ IdsOf(xs) \o <<>> = IdsOf(xs) /\ <<>> \in Seq(E)
    BY <2>1
  <2>3. IdsOf(xs \o <<>>) = IdsOf(xs) \o IdsOf(<<>>)
    BY <2>2, IdsOfNone, Zenon
  <2> QED
    BY <2>2, <2>3 DEF IdsJoin
<1>2. ASSUME NEW zs \in Seq(E), NEW z \in E, zs \in T PROVE Append(zs, z) \in T
  <2> DEFINE a == IdsOf(xs)
             b == IdsOf(zs)
  <2>1. AppendsToSecond(xs, zs, z)
    BY AppendToConcat
  <2>2. a \in Seq(Nat) /\ b \in Seq(Nat) /\ xs \o zs \in Seq(E) /\ IdsOf(xs \o zs) = a \o b
    BY <1>2, IdsOfAppend DEF IdsJoin
  <2>3. IdsOf(Append(xs \o zs, z)) = IF z.kind = "Data" THEN Append(a \o b, z.seq) ELSE a \o b
    BY <2>2, IdsOfAppend
  <2>4. IdsOf(Append(zs, z)) = IF z.kind = "Data" THEN Append(b, z.seq) ELSE b
    BY IdsOfAppend
  <2>5. z.kind = "Data" => AppendsToSecond(a, b, z.seq)
    <3>1. z.kind = "Data" => z.seq \in Nat
      BY DEF HasIds, Datas
    <3> QED
      BY <2>2, <3>1, AppendToConcat
  <2> HIDE DEF a, b
  <2>6. IdsOf(xs \o Append(zs, z)) = a \o IdsOf(Append(zs, z))
    BY <2>1, <2>3, <2>4, <2>5, Zenon DEF AppendsToSecond
  <2>7. Append(zs, z) \in Seq(E)
    OBVIOUS
  <2> QED
    BY <2>6, <2>7 DEF a, IdsJoin
<1> HIDE DEF T
<1>3. \A zs \in Seq(E) : zs \in T
  BY <1>1, <1>2, AllSequences
<1> QED
  BY <1>3 DEF T

-----------------------------------------------------------------------------
(* What is written, read and queued.                                       *)

Nums == 0 .. MaxSends

Message ==
  [kind : {"Data", "Oversize", "Receipt"}, seq : Nums] \cup [kind : {"Heartbeat", "Torn"}]

Result == [kind : {"Data", "SeqIdOk"}, seq : Nums] \cup [kind : {"Heartbeat", "Error"}]

(* The constants are numbers.                                              *)
LEMMA NumbersOnly ==
  /\ HeartbeatInterval \in Nat \ {0} /\ TimeoutDelay \in Nat \ {0}
  /\ MaxDial \in Nat \ {0} /\ MaxIdle \in Nat \ {0}
  /\ MaxLate \in Nat /\ MaxSends \in Nat /\ MaxEnds \in Nat /\ MaxFaults \in Nat
BY TcpAssumption

(* There are ids in what is written, read and queued.                      *)
LEMMA AllHaveIds == HasIds(Message) /\ HasIds(Result) /\ HasIds(Event)
BY NumbersOnly DEF HasIds, Datas, Message, Result, Event, Nums

-----------------------------------------------------------------------------
(* A socket.                                                               *)

(* Its status is the last one that is among its events.                    *)
Announced(s) ==
  \/ s.status = "Connecting" /\ \A i \in 1 .. Len(s.events) : s.events[i].kind # "Status"
  \/ \E i \in 1 .. Len(s.events) :
       /\ s.events[i] = StatusEvent(s.status)
       /\ \A j \in i + 1 .. Len(s.events) : s.events[j].kind # "Status"

SocketOK(s) ==
  /\ s \in SocketRecord
  /\ s.drained <= Len(s.events)
  /\ s.lastOk = {} \/ \E q \in Nums : s.lastOk = {q}
  /\ Announced(s)

(* What process() leaves as it is in a socket.                             *)
SameSocket(s, t) == SocketOK(t) /\ t.nextSeq = s.nextSeq /\ t.drained = s.drained

(* An event is queued.                                                     *)
LEMMA PushedIs ==
  ASSUME NEW s \in SocketRecord, NEW event
  PROVE  Pushed(s, event) =
           [status |-> s.status, recvAge |-> s.recvAge, sentAge |-> s.sentAge,
            nextSeq |-> s.nextSeq, lastOk |-> s.lastOk, events |-> Append(s.events, event),
            drained |-> s.drained]
<1> DEFINE a == Append(s.events, event)
<1>1. Pushed(s, event) = [s EXCEPT !.events = a]
  BY DEF Pushed
<1> HIDE DEF a
<1>2. [s EXCEPT !.events = a] =
        [status |-> s.status, recvAge |-> s.recvAge, sentAge |-> s.sentAge,
         nextSeq |-> s.nextSeq, lastOk |-> s.lastOk, events |-> a, drained |-> s.drained]
  BY DEF SocketRecord
<1> QED
  BY <1>1, <1>2 DEF a

(* A new status is announced.                                              *)
WithStatus(s, status) == [Pushed(s, StatusEvent(status)) EXCEPT !.status = status]

LEMMA StatusPushed ==
  ASSUME NEW s, SocketOK(s), NEW status \in Statuses
  PROVE  /\ SameSocket(s, WithStatus(s, status))
         /\ WithStatus(s, status).status = status
         /\ WithStatus(s, status).lastOk = s.lastOk
         /\ WithStatus(s, status).recvAge = s.recvAge
         /\ WithStatus(s, status).sentAge = s.sentAge
         /\ DataOf(WithStatus(s, status).events) = DataOf(s.events)
<1> DEFINE v == StatusEvent(status)
           a == Append(s.events, v)
           t == WithStatus(s, status)
<1>1. s \in SocketRecord /\ v \in Event /\ v.kind = "Status"
  BY DEF SocketOK, Event, StatusEvent
<1>2. t = [status |-> status, recvAge |-> s.recvAge, sentAge |-> s.sentAge,
           nextSeq |-> s.nextSeq, lastOk |-> s.lastOk, events |-> a, drained |-> s.drained]
  <2> HIDE DEF v
  <2>1. Pushed(s, v) =
          [status |-> s.status, recvAge |-> s.recvAge, sentAge |-> s.sentAge,
           nextSeq |-> s.nextSeq, lastOk |-> s.lastOk, events |-> a, drained |-> s.drained]
    BY <1>1, PushedIs
  <2>2. WithStatus(s, status) = [Pushed(s, v) EXCEPT !.status = status]
    BY DEF WithStatus, v
  <2> HIDE DEF a
  <2> QED
    BY <2>1, <2>2
<1> HIDE DEF t
<1>3. /\ s.events \in Seq(Event) /\ a \in Seq(Event) /\ Len(a) = Len(s.events) + 1
      /\ a[Len(s.events) + 1] = v /\ Len(s.events) \in Nat /\ s.drained \in Nat
  BY <1>1 DEF SocketRecord
<1>4. DataOf(a) = DataOf(s.events)
  <2>1. v.kind # "Data"
    BY <1>1
  <2> HIDE DEF v
  <2> QED
    BY <1>1, <1>3, <2>1, DataOfAppend
<1> HIDE DEF a, v
<1>5. t \in SocketRecord
  BY <1>1, <1>2, <1>3 DEF SocketRecord
<1>6. Announced(t)
  <2>1. t.events = a /\ t.status = status
    BY <1>2
  <2> QED
    BY <1>1, <1>3, <2>1 DEF Announced, v
<1>7. SocketOK(t)
  BY <1>2, <1>3, <1>5, <1>6 DEF SocketOK
<1> QED
  BY <1>2, <1>4, <1>7 DEF SameSocket, t

(* set_status.                                                             *)
LEMMA StatusSet ==
  ASSUME NEW s, SocketOK(s), NEW status \in Statuses,
         NEW t, t = SetStatus(s, status)
  PROVE  /\ SameSocket(s, t) /\ t.lastOk = s.lastOk
         /\ t.recvAge = s.recvAge /\ t.sentAge = s.sentAge
         /\ t.status = IF IsOver(status) /\ IsOver(s.status) THEN s.status ELSE status
         /\ DataOf(t.events) = DataOf(s.events)
<1>1. CASE IsOver(status) /\ IsOver(s.status)
  BY <1>1 DEF SetStatus, SameSocket
<1>2. CASE ~ (IsOver(status) /\ IsOver(s.status))
  <2>1. t = WithStatus(s, status)
    BY <1>2 DEF SetStatus, WithStatus
  <2> QED
    BY <1>2, <2>1, StatusPushed
<1> QED
  BY <1>1, <1>2

(* One result.                                                             *)
LEMMA ResultTaken ==
  ASSUME NEW s, SocketOK(s), NEW r \in Result, NEW t, t = WithResult(s, r)
  PROVE  /\ SameSocket(s, t) /\ t.sentAge = s.sentAge
         /\ t.status \in {s.status, "Error"}
         /\ IdsOf(t.events) = IF r.kind = "Data" THEN Append(IdsOf(s.events), r.seq)
                                                 ELSE IdsOf(s.events)
         /\ t.lastOk = IF r.kind = "SeqIdOk" THEN {r.seq} ELSE s.lastOk
<1>1. s \in SocketRecord
  BY DEF SocketOK
<1>2. CASE r.kind = "Data"
  <2> DEFINE v == DataEvent(r.seq)
             a == Append(s.events, v)
  <2>1. v \in Event /\ v.kind = "Data" /\ v.seq = r.seq
    BY <1>2 DEF Event, DataEvent, Result, Nums
  <2>2. t = [status |-> s.status, recvAge |-> s.recvAge, sentAge |-> s.sentAge,
             nextSeq |-> s.nextSeq, lastOk |-> s.lastOk, events |-> a, drained |-> s.drained]
    <3>1. t = Pushed(s, v)
      BY <1>2 DEF WithResult
    <3> QED
      BY <1>1, <3>1, PushedIs
  <2>3. /\ s.events \in Seq(Event) /\ a \in Seq(Event) /\ Len(a) = Len(s.events) + 1
        /\ a[Len(s.events) + 1] = v /\ \A i \in 1 .. Len(s.events) : a[i] = s.events[i]
    BY <1>1, <2>1 DEF SocketRecord
  <2>4. Len(s.events) \in Nat /\ s.drained \in Nat
    BY <1>1 DEF SocketRecord
  <2> HIDE DEF v
  <2>5. IdsOf(a) = Append(IdsOf(s.events), r.seq)
    BY <2>1, <2>3, AllHaveIds, IdsOfAppend
  <2> HIDE DEF a
  <2>6. t \in SocketRecord
    BY <1>1, <2>2, <2>3 DEF SocketRecord
  <2>7. Announced(t)
    <3>1. t.events = a /\ t.status = s.status /\ Announced(s)
      BY <2>2 DEF SocketOK
    <3>2. CASE s.status = "Connecting" /\ \A i \in 1 .. Len(s.events) : s.events[i].kind # "Status"
      BY <2>1, <2>3, <2>4, <3>1, <3>2 DEF Announced
    <3>3. ASSUME NEW i \in 1 .. Len(s.events), s.events[i] = StatusEvent(s.status),
                 \A j \in i + 1 .. Len(s.events) : s.events[j].kind # "Status"
          PROVE  Announced(t)
      <4>1. i \in 1 .. Len(a) /\ a[i] = StatusEvent(t.status)
        BY <2>3, <2>4, <3>1, <3>3
      <4>2. ASSUME NEW j \in i + 1 .. Len(a) PROVE a[j].kind # "Status"
        BY <2>1, <2>3, <2>4, <3>3
      <4> QED
        BY <3>1, <4>1, <4>2 DEF Announced
    <3> QED
      BY <3>1, <3>2, <3>3 DEF Announced
  <2>8. SocketOK(t)
    BY <2>2, <2>3, <2>4, <2>6, <2>7 DEF SocketOK
  <2> QED
    BY <1>2, <2>2, <2>5, <2>8 DEF SameSocket
<1>3. CASE r.kind = "Heartbeat"
  <2>1. t = [status |-> s.status, recvAge |-> 0, sentAge |-> s.sentAge,
             nextSeq |-> s.nextSeq, lastOk |-> s.lastOk, events |-> s.events,
             drained |-> s.drained]
    <3>1. t = [s EXCEPT !.recvAge = 0]
      BY <1>3 DEF WithResult
    <3> QED
      BY <1>1, <3>1 DEF SocketRecord
  <2>2. t \in SocketRecord
    BY <1>1, <2>1, NumbersOnly DEF SocketRecord
  <2>3. SocketOK(t)
    BY <2>1, <2>2 DEF SocketOK, Announced
  <2> QED
    BY <1>3, <2>1, <2>3 DEF SameSocket
<1>4. CASE r.kind = "SeqIdOk"
  <2>1. t = [status |-> s.status, recvAge |-> s.recvAge, sentAge |-> s.sentAge,
             nextSeq |-> s.nextSeq, lastOk |-> {r.seq}, events |-> s.events,
             drained |-> s.drained]
    <3>1. t = [s EXCEPT !.lastOk = {r.seq}]
      BY <1>4 DEF WithResult
    <3> QED
      BY <1>1, <3>1 DEF SocketRecord
  <2>2. t \in SocketRecord /\ r.seq \in Nums
    BY <1>1, <1>4, <2>1 DEF SocketRecord, Result, Nums
  <2>3. SocketOK(t)
    BY <2>1, <2>2 DEF SocketOK, Announced
  <2> QED
    BY <1>4, <2>1, <2>3 DEF SameSocket
<1>5. CASE r.kind = "Error"
  <2>1. t = WithStatus(s, "Error") /\ "Error" \in Statuses
    BY <1>5 DEF WithResult, WithStatus, Statuses
  <2>2. /\ SameSocket(s, t) /\ t.status = "Error" /\ t.lastOk = s.lastOk
        /\ t.sentAge = s.sentAge /\ DataOf(t.events) = DataOf(s.events)
    BY <2>1, StatusPushed
  <2> QED
    BY <1>5, <2>2 DEF IdsOf
<1> QED
  BY <1>2, <1>3, <1>4, <1>5 DEF Result

(* What a sequence of results makes of a socket.                           *)
IngestedTo(s, results, t) ==
  /\ SameSocket(s, t) /\ t.sentAge = s.sentAge
  /\ t.status \in {s.status, "Error"}
  /\ IdsOf(t.events) = IdsOf(s.events) \o IdsOf(results)
  /\ \/ t.lastOk = s.lastOk
     \/ \E i \in 1 .. Len(results) : /\ results[i].kind = "SeqIdOk"
                                     /\ t.lastOk = {results[i].seq}

(* The ids of a socket's events are numbers.                               *)
LEMMA EventIds ==
  ASSUME NEW s, SocketOK(s)
  PROVE  s.events \in Seq(Event) /\ IdsOf(s.events) \in Seq(Nat)
<1>1. s.events \in Seq(Event)
  BY DEF SocketOK, SocketRecord
<1>2. StatusEvent("Error") \in Event
  BY DEF Event, StatusEvent, Statuses
<1> QED
  BY <1>1, <1>2, AllHaveIds, IdsOfAppend

(* The next result.                                                        *)
LEMMA OneMoreResult ==
  ASSUME NEW s, SocketOK(s), NEW results \in Seq(Result), NEW r \in Result,
         NEW t, IngestedTo(s, results, t)
  PROVE  IngestedTo(s, Append(results, r), WithResult(t, r))
<1> DEFINE u == WithResult(t, r)
           next == Append(results, r)
<1>1. SocketOK(t) /\ SameSocket(s, t)
  BY DEF IngestedTo, SameSocket
<1>2. /\ SameSocket(t, u) /\ u.sentAge = t.sentAge
      /\ u.status \in {t.status, "Error"}
      /\ IdsOf(u.events) = IF r.kind = "Data" THEN Append(IdsOf(t.events), r.seq)
                                              ELSE IdsOf(t.events)
      /\ u.lastOk = IF r.kind = "SeqIdOk" THEN {r.seq} ELSE t.lastOk
  BY <1>1, ResultTaken
<1> HIDE DEF u
<1>3. IdsOf(u.events) = IdsOf(s.events) \o IdsOf(next)
  <2> DEFINE a == IdsOf(s.events)
             b == IdsOf(results)
             c == IdsOf(t.events)
  <2>1. a \in Seq(Nat) /\ b \in Seq(Nat)
    BY EventIds, AllHaveIds, IdsOfAppend
  <2>2. IdsOf(next) = IF r.kind = "Data" THEN Append(b, r.seq) ELSE b
    BY AllHaveIds, IdsOfAppend
  <2>3. r.kind = "Data" => AppendsToSecond(a, b, r.seq)
    <3>1. r.kind = "Data" => r.seq \in Nat
      BY AllHaveIds DEF HasIds, Datas
    <3> HIDE DEF a, b
    <3> QED
      BY <2>1, <3>1, AppendToConcat
  <2>4. c = a \o b
    BY DEF IngestedTo
  <2> HIDE DEF a, b, c, next
  <2>5. IdsOf(u.events) = a \o IdsOf(next)
    BY <1>2, <2>2, <2>3, <2>4, Zenon DEF AppendsToSecond, c
  <2> QED
    BY <2>5 DEF a
<1>4. /\ Len(next) = Len(results) + 1 /\ next[Len(results) + 1] = r /\ Len(results) \in Nat
      /\ \A i \in 1 .. Len(results) : next[i] = results[i]
  OBVIOUS
<1> HIDE DEF next
<1>5. \/ u.lastOk = s.lastOk
      \/ \E i \in 1 .. Len(next) : next[i].kind = "SeqIdOk" /\ u.lastOk = {next[i].seq}
  <2>1. CASE r.kind = "SeqIdOk"
    BY <1>2, <1>4, <2>1
  <2>2. CASE r.kind # "SeqIdOk"
    <3>1. CASE t.lastOk = s.lastOk
      BY <1>2, <2>2, <3>1
    <3>2. ASSUME NEW i \in 1 .. Len(results), results[i].kind = "SeqIdOk",
                 t.lastOk = {results[i].seq}
          PROVE  \E j \in 1 .. Len(next) : next[j].kind = "SeqIdOk" /\ u.lastOk = {next[j].seq}
      <4>1. i \in 1 .. Len(next) /\ next[i] = results[i]
        BY <1>4
      <4> QED
        BY <1>2, <2>2, <3>2, <4>1
    <3> QED
      BY <3>1, <3>2 DEF IngestedTo
  <2> QED
    BY <2>1, <2>2
<1>6. SameSocket(s, u) /\ u.sentAge = s.sentAge /\ u.status \in {s.status, "Error"}
  BY <1>1, <1>2 DEF SameSocket, IngestedTo
<1> QED
  BY <1>3, <1>5, <1>6 DEF IngestedTo, u, next

(* The results are taken one by one.                                       *)
LEMMA IngestedStepwise ==
  ASSUME NEW s, SocketOK(s), NEW results \in Seq(Result)
  PROVE  \E h : /\ h[0] = s
                /\ \A i \in 1 .. Len(results) : h[i] = WithResult(h[i - 1], results[i])
                /\ Ingested(s, results) = h[Len(results)]
<1> DEFINE n == Len(results)
           V == {t \in SocketRecord : SocketOK(t)}
           F == [p \in V \X (1 .. n) |-> WithResult(p[1], results[p[2]])]
           Recursive(g) ==
             g = [i \in 0 .. n |-> IF i = 0 THEN s ELSE WithResult(g[i - 1], results[i])]
           h == CHOOSE g : Recursive(g)
<1>1. n \in Nat /\ s \in V /\ \A i \in 1 .. n : results[i] \in Result
  BY DEF SocketOK
<1>2. F \in [V \X (1 .. n) -> V]
  <2>1. ASSUME NEW p \in V \X (1 .. n) PROVE WithResult(p[1], results[p[2]]) \in V
    <3>1. SocketOK(p[1]) /\ results[p[2]] \in Result
      BY <1>1
    <3>2. SameSocket(p[1], WithResult(p[1], results[p[2]]))
      BY <3>1, ResultTaken
    <3> QED
      BY <3>2 DEF SameSocket, SocketOK
  <2> HIDE DEF V
  <2> QED
    BY <2>1
<1> HIDE DEF n, V, F
<1>3. PICK f \in [0 .. n -> V] : Follows(f, s, n, F)
  BY <1>1, <1>2, StepByStep
<1>4. ASSUME NEW i \in 1 .. n PROVE f[i] = WithResult(f[i - 1], results[i])
  <2>1. i - 1 \in 0 .. n /\ f[i - 1] \in V
    BY <1>1
  <2>2. f[i] = F[<<f[i - 1], i>>] /\ <<f[i - 1], i>> \in V \X (1 .. n)
    BY <1>3, <2>1 DEF Follows
  <2> QED
    BY <2>2 DEF F
<1>5. Recursive(f)
  <2>1. \A i \in 0 .. n : f[i] = IF i = 0 THEN s ELSE WithResult(f[i - 1], results[i])
    <3>1. f[0] = s /\ \A i \in 0 .. n : i # 0 => i \in 1 .. n
      BY <1>1, <1>3 DEF Follows
    <3> QED
      BY <1>4, <3>1
  <2> QED
    BY <2>1
<1>6. Recursive(h)
  <2> HIDE DEF Recursive
  <2> QED
    BY <1>5
<1>7. Ingested(s, results) = h[n]
  BY DEF Ingested, n
<1> HIDE DEF h
<1>8. h[0] = s /\ \A i \in 1 .. n : h[i] = WithResult(h[i - 1], results[i])
  <2>1. h = [i \in 0 .. n |-> IF i = 0 THEN s ELSE WithResult(h[i - 1], results[i])]
    BY <1>6
  <2>2. 0 \in 0 .. n /\ \A i \in 1 .. n : i \in 0 .. n /\ i # 0
    BY <1>1
  <2> QED
    BY <2>1, <2>2
<1> QED
  BY <1>7, <1>8 DEF n

(* process_ingester_results, of all results.                               *)
LEMMA ResultsTaken ==
  ASSUME NEW s, SocketOK(s), NEW results \in Seq(Result)
  PROVE  IngestedTo(s, results, Ingested(s, results))
<1> DEFINE n == Len(results)
<1>1. n \in Nat /\ \A i \in 1 .. n : results[i] \in Result
  OBVIOUS
<1>2. PICK h : /\ h[0] = s
               /\ \A i \in 1 .. n : h[i] = WithResult(h[i - 1], results[i])
               /\ Ingested(s, results) = h[n]
  BY IngestedStepwise
<1> HIDE DEF n
<1> DEFINE Read(k) == SubSeq(results, 1, k)
           T == {k \in Nat : k <= n => IngestedTo(s, Read(k), h[k])}
<1>3. 0 \in T
  <2>1. Read(0) = <<>> /\ IdsOf(s.events) \in Seq(Nat)
    BY EventIds
  <2>2. IdsOf(s.events) \o <<>> = IdsOf(s.events)
    BY <2>1
  <2> HIDE DEF Read
  <2>3. IdsOf(s.events) = IdsOf(s.events) \o IdsOf(Read(0))
    BY <2>1, <2>2, IdsOfNone, Zenon
  <2>4. IngestedTo(s, Read(0), s)
    BY <2>3 DEF IngestedTo, SameSocket
  <2> QED
    BY <1>2, <2>4
<1>4. ASSUME NEW k \in Nat, k \in T PROVE k + 1 \in T
  <2> SUFFICES ASSUME k + 1 <= n PROVE IngestedTo(s, Read(k + 1), h[k + 1])
    OBVIOUS
  <2>1. IngestedTo(s, Read(k), h[k])
    BY <1>1, <1>4
  <2>2. k + 1 \in 1 .. n /\ (k + 1) - 1 = k
    BY <1>1
  <2>3. h[k + 1] = WithResult(h[k], results[k + 1]) /\ results[k + 1] \in Result
    BY <1>1, <1>2, <2>2
  <2>4. Read(k) \in Seq(Result) /\ Read(k + 1) = Append(Read(k), results[k + 1])
    BY <1>1, <2>2 DEF n
  <2> HIDE DEF Read
  <2> QED
    BY <2>1, <2>3, <2>4, OneMoreResult
<1> HIDE DEF T
<1>5. n \in T
  BY <1>1, <1>3, <1>4, AllNumbers
<1>6. IngestedTo(s, Read(n), h[n])
  BY <1>1, <1>5 DEF T
<1>7. Read(n) = results
  BY DEF n
<1> HIDE DEF Read
<1> QED
  BY <1>2, <1>6, <1>7

(* What process() makes of a socket.                                       *)
ProcessedTo(s, results, end, t) ==
  /\ SameSocket(s, t)
  /\ t.status \in {s.status, "Error", "Timeout", end} \ {"Ok"}
  /\ IsOver(s.status) => t.status \in {s.status, "Error"}
  /\ IdsOf(t.events) = IdsOf(s.events) \o IdsOf(results)
  /\ \/ t.lastOk = s.lastOk
     \/ \E i \in 1 .. Len(results) : /\ results[i].kind = "SeqIdOk"
                                     /\ t.lastOk = {results[i].seq}

StreamEnds == {"Ok", "RemoteEnded", "Timeout", "Error"}

(* The same with no status but that of the results, and other ages.        *)
OnlyAges(s, t) ==
  /\ SameSocket(s, t)
  /\ t.status = s.status /\ t.lastOk = s.lastOk /\ t.events = s.events

WithAges(s, recv, sent) == [s EXCEPT !.recvAge = recv, !.sentAge = sent]

LEMMA AgesDoNotMatter ==
  ASSUME NEW s, SocketOK(s), NEW recv \in 0 .. TimeoutDelay, NEW sent \in 0 .. HeartbeatInterval
  PROVE  OnlyAges(s, WithAges(s, recv, sent))
<1> DEFINE t == WithAges(s, recv, sent)
<1>1. s \in SocketRecord
  BY DEF SocketOK
<1>2. t = [status |-> s.status, recvAge |-> recv, sentAge |-> sent,
           nextSeq |-> s.nextSeq, lastOk |-> s.lastOk, events |-> s.events,
           drained |-> s.drained]
  <2> DEFINE b == [status |-> s.status, recvAge |-> s.recvAge, sentAge |-> s.sentAge,
                   nextSeq |-> s.nextSeq, lastOk |-> s.lastOk, events |-> s.events,
                   drained |-> s.drained]
  <2>1. s = b
    BY <1>1 DEF SocketRecord
  <2>2. t = [b EXCEPT !.recvAge = recv, !.sentAge = sent]
    BY <2>1 DEF WithAges
  <2> QED
    BY <2>2
<1> HIDE DEF t
<1>3. t \in SocketRecord
  BY <1>1, <1>2 DEF SocketRecord
<1>4. SocketOK(t)
  BY <1>2, <1>3 DEF SocketOK, Announced
<1>5. OnlyAges(s, t)
  BY <1>2, <1>4 DEF SameSocket, OnlyAges
<1> QED
  BY <1>5 DEF t

LEMMA SocketProcessed ==
  ASSUME NEW s, SocketOK(s), NEW results \in Seq(Result), NEW end \in StreamEnds
  PROVE  ProcessedTo(s, results, end, Processed(s, results, end))
<1> DEFINE i == Ingested(s, results)
           t == CheckedTimeout(i)
           u == IF IsHeartbeatDue(t) THEN [t EXCEPT !.sentAge = 0] ELSE t
           v == IF end = "Ok" THEN u ELSE SetStatus(u, end)
           OkIs(x) == \/ x.lastOk = s.lastOk
                      \/ \E k \in 1 .. Len(results) : /\ results[k].kind = "SeqIdOk"
                                                      /\ x.lastOk = {results[k].seq}
<1>1. /\ SameSocket(s, i) /\ i.status \in {s.status, "Error"} /\ OkIs(i)
      /\ IdsOf(i.events) = IdsOf(s.events) \o IdsOf(results)
  BY ResultsTaken DEF IngestedTo
<1> HIDE DEF i
<1>2. /\ SameSocket(s, t) /\ OkIs(t)
      /\ t.status \in {i.status, "Timeout"} /\ (IsOver(i.status) => t.status = i.status)
      /\ IdsOf(t.events) = IdsOf(i.events)
  <2>1. CASE i.recvAge >= TimeoutDelay
    <3> DEFINE w == SetStatus(i, "Timeout")
    <3>1. t = w
      BY <2>1 DEF CheckedTimeout
    <3>2. /\ SameSocket(i, w) /\ w.lastOk = i.lastOk
          /\ w.status = IF IsOver("Timeout") /\ IsOver(i.status) THEN i.status ELSE "Timeout"
          /\ DataOf(w.events) = DataOf(i.events)
      BY <1>1, StatusSet DEF SameSocket, Statuses
    <3> HIDE DEF w
    <3>3. SameSocket(s, w) /\ OkIs(w) /\ IdsOf(w.events) = IdsOf(i.events)
      BY <1>1, <3>2 DEF SameSocket, IdsOf
    <3>4. IsOver("Timeout")
      BY DEF IsOver
    <3> HIDE DEF t, OkIs
    <3> QED
      BY <3>1, <3>2, <3>3, <3>4
  <2>2. CASE ~ (i.recvAge >= TimeoutDelay)
    BY <1>1, <2>2 DEF CheckedTimeout
  <2> QED
    BY <2>1, <2>2
<1> HIDE DEF t
<1>3. SameSocket(s, u) /\ OkIs(u) /\ u.status = t.status /\ u.events = t.events
  <2>1. CASE IsHeartbeatDue(t)
    <3>1. t \in SocketRecord /\ SocketOK(t)
      BY <1>2 DEF SameSocket, SocketOK
    <3>2. t.recvAge \in 0 .. TimeoutDelay /\ 0 \in 0 .. HeartbeatInterval
      BY <3>1, NumbersOnly DEF SocketRecord
    <3>3. u = WithAges(t, t.recvAge, 0)
      <4>1. t = [t EXCEPT !.recvAge = t.recvAge]
        BY <3>1 DEF SocketRecord
      <4>2. u = [t EXCEPT !.sentAge = 0]
        BY <2>1
      <4> QED
        BY <4>1, <4>2 DEF WithAges
    <3>4. OnlyAges(t, u)
      BY <3>1, <3>2, <3>3, AgesDoNotMatter
    <3> HIDE DEF u
    <3> QED
      BY <1>2, <3>4 DEF SameSocket, OnlyAges
  <2>2. CASE ~ IsHeartbeatDue(t)
    BY <1>2, <2>2
  <2> QED
    BY <2>1, <2>2
<1> HIDE DEF u
<1>4. CASE end = "Ok"
  <2>1. Processed(s, results, end) = u
    BY <1>4 DEF Processed, t, u, i
  <2>2. u.status \in {s.status, "Error", "Timeout"} /\ u.status \in Statuses
    BY <1>1, <1>2, <1>3 DEF SameSocket, SocketOK, SocketRecord
  <2>3. "Ok" \notin Statuses
    BY DEF Statuses
  <2>4. u.status \in {s.status, "Error", "Timeout", end} \ {"Ok"}
    BY <2>2, <2>3
  <2>5. IsOver(s.status) => u.status \in {s.status, "Error"}
    BY <1>1, <1>2, <1>3 DEF IsOver
  <2> HIDE DEF OkIs
  <2>6. IdsOf(u.events) = IdsOf(s.events) \o IdsOf(results)
    BY <1>1, <1>2, <1>3
  <2> QED
    BY <1>3, <2>1, <2>4, <2>5, <2>6 DEF ProcessedTo, OkIs
<1>5. CASE end # "Ok"
  <2>1. Processed(s, results, end) = SetStatus(u, end)
    BY <1>5 DEF Processed, t, u, i
  <2> DEFINE w == SetStatus(u, end)
  <2>2. end \in Statuses /\ IsOver(end)
    BY <1>5 DEF Statuses, StreamEnds, IsOver
  <2>3. /\ SameSocket(u, w) /\ w.lastOk = u.lastOk
        /\ w.status = IF IsOver(end) /\ IsOver(u.status) THEN u.status ELSE end
        /\ DataOf(w.events) = DataOf(u.events)
    BY <1>3, <2>2, StatusSet DEF SameSocket
  <2> HIDE DEF w
  <2>4. w.status \in {s.status, "Error", "Timeout", end} \ {"Ok"}
    <3>1. u.status \in {s.status, "Error", "Timeout"} /\ u.status \in Statuses
      BY <1>1, <1>2, <1>3 DEF SameSocket, SocketOK, SocketRecord
    <3>2. "Ok" \notin Statuses
      BY DEF Statuses
    <3> QED
      BY <1>5, <2>3, <3>1, <3>2
  <2>5. IsOver(s.status) => w.status \in {s.status, "Error"}
    BY <1>1, <1>2, <1>3, <2>2, <2>3 DEF IsOver
  <2>6. IdsOf(w.events) = IdsOf(s.events) \o IdsOf(results)
    <3>1. IdsOf(w.events) = IdsOf(u.events)
      BY <2>3 DEF IdsOf
    <3> QED
      BY <1>1, <1>2, <1>3, <3>1
  <2>7. SameSocket(s, w) /\ OkIs(w)
    BY <1>3, <2>3 DEF SameSocket
  <2> QED
    BY <2>1, <2>4, <2>5, <2>6, <2>7 DEF ProcessedTo, w
<1> QED
  BY <1>4, <1>5

(* Time passes.                                                            *)
LEMMA SocketAged ==
  ASSUME NEW s, SocketOK(s)
  PROVE  OnlyAges(s, AgedSocket(s))
<1>1. CASE IsOver(s.status)
  BY <1>1 DEF AgedSocket, SameSocket, OnlyAges
<1>2. CASE ~ IsOver(s.status)
  <2>1. s \in SocketRecord
    BY DEF SocketOK
  <2> DEFINE recv == Older(s.recvAge, TimeoutDelay)
             sent == Older(s.sentAge, HeartbeatInterval)
  <2>2. recv \in 0 .. TimeoutDelay /\ sent \in 0 .. HeartbeatInterval
    BY <2>1, NumbersOnly DEF SocketRecord, Older
  <2>3. AgedSocket(s) = WithAges(s, recv, sent)
    <3>1. AgedSocket(s) = [s EXCEPT !.recvAge = recv, !.sentAge = sent]
      BY <1>2 DEF AgedSocket
    <3> QED
      BY <3>1 DEF WithAges
  <2> HIDE DEF recv, sent
  <2> QED
    BY <2>2, <2>3, AgesDoNotMatter
<1> QED
  BY <1>1, <1>2

-----------------------------------------------------------------------------
(* What is read of messages, and what is written in reply.                 *)

NoData(ms) == \A i \in 1 .. Len(ms) : ms[i].kind # "Data"
Sound(ms, n) == \A i \in 1 .. n : IsSound(ms[i])

LEMMA NoDataNoIds ==
  ASSUME NEW E, NEW ms \in Seq(E), NoData(ms)
  PROVE  IdsOf(ms) = <<>>
<1>1. \A i \in 1 .. Len(ms) : ms[i] \notin Datas(E)
  BY DEF NoData, Datas
<1>2. DataOf(ms) = <<>>
  BY <1>1, DataSelected, SelectedNone
<1> QED
  BY <1>2 DEF IdsOf

(* The part before the framing is lost.                                    *)
LEMMA SoundPart ==
  ASSUME NEW ms \in Seq(Message)
  PROVE  /\ SoundLen(ms) \in 0 .. Len(ms) /\ Sound(ms, SoundLen(ms))
         /\ SoundLen(ms) < Len(ms) => ~ IsSound(ms[SoundLen(ms) + 1])
<1> DEFINE bad == {i \in DOMAIN ms : ~ IsSound(ms[i])}
<1>1. DOMAIN ms = 1 .. Len(ms) /\ Len(ms) \in Nat
  OBVIOUS
<1>2. CASE bad = {}
  <2>1. SoundLen(ms) = Len(ms)
    BY <1>2 DEF SoundLen
  <2>2. \A i \in 1 .. Len(ms) : IsSound(ms[i])
    BY <1>1, <1>2
  <2> QED
    BY <1>1, <2>1, <2>2 DEF Sound
<1>3. CASE bad # {}
  <2>1. bad \in SUBSET Nat
    BY <1>1
  <2>2. \E x \in bad : \A y \in bad : x <= y
    <3> HIDE DEF bad
    <3> QED
      BY <1>3, <2>1, LeastElement
  <2>3. Min(bad) \in bad /\ \A y \in bad : Min(bad) <= y
    BY <2>2 DEF Min
  <2>4. SoundLen(ms) = Min(bad) - 1
    BY <1>3 DEF SoundLen
  <2> DEFINE m == Min(bad)
  <2> HIDE DEF m
  <2>5. m \in 1 .. Len(ms) /\ ~ IsSound(ms[m]) /\ \A i \in 1 .. Len(ms) : i < m => IsSound(ms[i])
    <3>1. m \in bad /\ \A y \in bad : m <= y
      BY <2>3 DEF m
    <3> QED
      BY <1>1, <3>1
  <2>6. SoundLen(ms) = m - 1
    BY <2>4 DEF m
  <2> QED
    BY <1>1, <2>5, <2>6 DEF Sound
<1> QED
  BY <1>2, <1>3

(* The results of messages that are sound.                                 *)
ResultsOf(ms) == [i \in 1 .. Len(ms) |-> ResultOf(ms[i])]

LEMMA ResultOfSound ==
  ASSUME NEW m \in Message, IsSound(m)
  PROVE  /\ ResultOf(m) \in Result
         /\ ResultOf(m).kind = "Data" <=> m.kind = "Data"
         /\ m.kind = "Data" => ResultOf(m).seq = m.seq
         /\ ResultOf(m).kind = "SeqIdOk" => m.kind = "Receipt" /\ ResultOf(m).seq = m.seq
<1>1. m.kind \in {"Data", "Receipt", "Heartbeat"}
  BY DEF Message, IsSound
<1>2. m.kind # "Heartbeat" => m.seq \in Nums
  BY <1>1 DEF Message, IsSound
<1> QED
  BY <1>1, <1>2 DEF ResultOf, Result

SoundMessage == {m \in Message : IsSound(m)}

(* Their ids are those of the messages.                                    *)
LEMMA IdsOfResults ==
  ASSUME NEW ms \in Seq(SoundMessage)
  PROVE  ResultsOf(ms) \in Seq(Result) /\ IdsOf(ResultsOf(ms)) = IdsOf(ms)
<1>1. ASSUME NEW xs \in Seq(SoundMessage) PROVE ResultsOf(xs) \in Seq(Result)
  <2>1. \A i \in 1 .. Len(xs) : ResultOf(xs[i]) \in Result
    <3>1. \A i \in 1 .. Len(xs) : xs[i] \in SoundMessage
      OBVIOUS
    <3> QED
      BY <3>1, ResultOfSound DEF SoundMessage
  <2> QED
    BY <2>1 DEF ResultsOf
<1> DEFINE T == {xs \in Seq(SoundMessage) : IdsOf(ResultsOf(xs)) = IdsOf(xs)}
<1>2. <<>> \in T
  <2>1. <<>> \in Seq(SoundMessage) /\ ResultsOf(<<>>) = <<>>
    BY DEF ResultsOf
  <2> QED
    BY <2>1
<1>3. ASSUME NEW xs \in Seq(SoundMessage), NEW m \in SoundMessage, xs \in T
      PROVE  Append(xs, m) \in T
  <2> DEFINE r == ResultOf(m)
             rs == ResultsOf(xs)
             ys == Append(xs, m)
  <2>1. /\ r \in Result /\ (r.kind = "Data" <=> m.kind = "Data")
        /\ (m.kind = "Data" => r.seq = m.seq)
    BY ResultOfSound DEF SoundMessage
  <2>2. ResultsOf(ys) = Append(rs, r)
    <3>1. /\ Len(ys) = Len(xs) + 1 /\ Len(xs) \in Nat /\ ys[Len(xs) + 1] = m
          /\ \A i \in 1 .. Len(xs) : ys[i] = xs[i]
      OBVIOUS
    <3>2. rs \in Seq(Result) /\ Len(rs) = Len(xs) /\ \A i \in 1 .. Len(xs) : rs[i] = ResultOf(xs[i])
      BY <1>1 DEF ResultsOf
    <3>3. /\ Append(rs, r) \in Seq(Result) /\ Len(Append(rs, r)) = Len(xs) + 1
          /\ Append(rs, r)[Len(xs) + 1] = r
          /\ \A i \in 1 .. Len(xs) : Append(rs, r)[i] = ResultOf(xs[i])
      BY <2>1, <3>2
    <3> HIDE DEF rs, ys
    <3>4. \A i \in 1 .. Len(xs) + 1 : Append(rs, r)[i] = ResultOf(ys[i])
      BY <3>1, <3>3
    <3>5. Append(rs, r) = [i \in 1 .. Len(xs) + 1 |-> Append(rs, r)[i]]
      <4> DEFINE a == Append(rs, r)
      <4> HIDE DEF a
      <4>1. a \in Seq(Result) /\ Len(a) = Len(xs) + 1
        BY <3>3 DEF a
      <4>2. a = [i \in 1 .. Len(xs) + 1 |-> a[i]]
        BY <4>1
      <4> QED
        BY <4>2 DEF a
    <3> QED
      BY <3>1, <3>4, <3>5 DEF ResultsOf
  <2>3. ys \in Seq(SoundMessage) /\ rs \in Seq(Result) /\ HasIds(SoundMessage)
    BY <1>1, AllHaveIds DEF HasIds, Datas, SoundMessage
  <2>4. IdsOf(Append(rs, r)) = IF r.kind = "Data" THEN Append(IdsOf(rs), r.seq) ELSE IdsOf(rs)
    BY <2>1, <2>3, AllHaveIds, IdsOfAppend
  <2>5. IdsOf(ys) = IF m.kind = "Data" THEN Append(IdsOf(xs), m.seq) ELSE IdsOf(xs)
    BY <2>3, IdsOfAppend
  <2> HIDE DEF r, rs, ys
  <2>6. IdsOf(rs) = IdsOf(xs)
    BY <1>3 DEF rs
  <2>7. IdsOf(ResultsOf(ys)) = IdsOf(ys)
    BY <2>1, <2>2, <2>4, <2>5, <2>6
  <2> QED
    BY <2>3, <2>7 DEF ys
<1> HIDE DEF T
<1>4. ms \in T
  BY <1>2, <1>3, AllSequences
<1> QED
  BY <1>1, <1>4 DEF T

(* Whatever a read yields are results; if the framing holds, they are      *)
(* those of the messages, all of which are sound.                          *)
LEMMA ReadingsAre ==
  ASSUME NEW e \in Ends, NEW ms \in Seq(Message), broken[e] \in BOOLEAN,
         NEW results \in Readings(e, ms)
  PROVE  /\ results \in Seq(Result)
         /\ Breaks(e, ms) \in BOOLEAN
         /\ ~ Breaks(e, ms) => /\ ~ broken[e] /\ Sound(ms, Len(ms))
                               /\ ms \in Seq(SoundMessage) /\ results = ResultsOf(ms)
<1> DEFINE n == SoundLen(ms)
           sound == [i \in 1 .. n |-> ResultOf(ms[i])]
           error == IF ms[n + 1].kind = "Oversize" THEN <<[kind |-> "Error"]>> ELSE <<>>
<1>1. n \in 0 .. Len(ms) /\ Sound(ms, n) /\ Len(ms) \in Nat
  BY SoundPart
<1>2. \A i \in 1 .. n : ms[i] \in Message /\ IsSound(ms[i])
  BY <1>1 DEF Sound
<1>3. sound \in Seq(Result)
  <2>1. \A i \in 1 .. n : ResultOf(ms[i]) \in Result
    BY <1>2, ResultOfSound
  <2> HIDE DEF n
  <2> QED
    BY <1>1, <2>1
<1>4. error \in Seq(Result) /\ Misread \subseteq Result
  <2>1. 0 \in Nums
    BY NumbersOnly DEF Nums
  <2>2. \A r \in Misread : r \in Result
    BY <2>1 DEF Misread, Result
  <2>3. [kind |-> "Error"] \in Result
    BY DEF Result
  <2>4. <<>> \in Seq(Result) /\ <<[kind |-> "Error"]>> \in Seq(Result)
    BY <2>3
  <2> QED
    BY <2>2, <2>4
<1>5. CASE broken[e]
  <2>1. results = <<>> /\ Breaks(e, ms)
    BY <1>5 DEF Readings, Breaks
  <2> QED
    BY <2>1
<1>6. CASE ~ broken[e] /\ n = Len(ms)
  <2>1. results = ResultsOf(ms)
    BY <1>6 DEF Readings, ResultsOf
  <2>2. ms \in Seq(SoundMessage)
    <3>1. \A i \in 1 .. Len(ms) : ms[i] \in SoundMessage
      BY <1>2, <1>6 DEF SoundMessage
    <3> QED
      BY <3>1
  <2>3. Breaks(e, ms) \in BOOLEAN
    BY DEF Breaks
  <2> HIDE DEF n
  <2> QED
    BY <1>1, <1>6, <2>1, <2>2, <2>3, IdsOfResults
<1>7. CASE ~ broken[e] /\ n # Len(ms)
  <2>1. n < Len(ms) /\ Breaks(e, ms)
    BY <1>1, <1>7 DEF Breaks
  <2>2. results = sound \o error \/ \E r \in Misread : results = Append(sound \o error, r)
    BY <1>7, <2>1 DEF Readings
  <2> HIDE DEF n, sound, error
  <2>3. sound \o error \in Seq(Result)
    BY <1>3, <1>4
  <2>4. \A r \in Misread : Append(sound \o error, r) \in Seq(Result)
    BY <1>4, <2>3
  <2> QED
    BY <2>1, <2>2, <2>3, <2>4
<1> QED
  BY <1>5, <1>6, <1>7

(* Receipts are for some ids.                                              *)
OnlyReceipts(ms, ids) ==
  \A i \in 1 .. Len(ms) : ms[i].kind = "Receipt" => ms[i].seq \in ToSet(ids)

(* The replies are receipts for the data.                                  *)
LEMMA RepliesAre ==
  ASSUME NEW results \in Seq(Result)
  PROVE  /\ Replies(results) \in Seq(Message) /\ NoData(Replies(results))
         /\ OnlyReceipts(Replies(results), IdsOf(results))
<1> DEFINE d == DataOf(results)
           w == Replies(results)
<1>1. d \in Seq(Result) /\ \A i \in 1 .. Len(d) : d[i] \in Datas(Result)
  <2>1. d \in Seq(Result) /\ d \in Seq(Datas(Result))
    BY DataOfType
  <2> HIDE DEF d
  <2> QED
    BY <2>1
<1>2. w = [i \in 1 .. Len(d) |-> Receipt(d[i].seq)] /\ IdsOf(results) = [i \in 1 .. Len(d) |-> d[i].seq]
  BY <1>1 DEF Replies, IdsOf
<1> HIDE DEF d, w
<1>3. \A i \in 1 .. Len(d) : Receipt(d[i].seq) \in Message
  BY <1>1 DEF Datas, Result, Receipt, Message, Nums
<1>4. w \in Seq(Message) /\ Len(w) = Len(d) /\ \A i \in 1 .. Len(d) : w[i] = Receipt(d[i].seq)
  BY <1>1, <1>2, <1>3
<1>5. \A i \in 1 .. Len(d) : d[i].seq \in ToSet(IdsOf(results))
  BY <1>1, <1>2 DEF ToSet
<1>6. NoData(w) /\ OnlyReceipts(w, IdsOf(results))
  <2> DEFINE ids == ToSet(IdsOf(results))
  <2>1. ASSUME NEW i \in 1 .. Len(w) PROVE w[i].kind = "Receipt" /\ w[i].seq = d[i].seq
    <3>1. w[i] = Receipt(d[i].seq)
      BY <1>4
    <3>2. \A q : Receipt(q).kind = "Receipt" /\ Receipt(q).seq = q
      BY DEF Receipt
    <3> QED
      BY <3>1, <3>2, Zenon
  <2>2. \A i \in 1 .. Len(w) : d[i].seq \in ids
    BY <1>4, <1>5
  <2> HIDE DEF ids
  <2>3. NoData(w) /\ \A i \in 1 .. Len(w) : w[i].seq \in ids
    BY <2>1, <2>2 DEF NoData
  <2> QED
    BY <2>3 DEF OnlyReceipts, ids
<1> QED
  BY <1>4, <1>6 DEF w

(* So is all that process() writes, or it is a heartbeat.                  *)
LEMMA WrittenIs ==
  ASSUME NEW s, NEW results \in Seq(Result)
  PROVE  /\ Written(s, results) \in Seq(Message) /\ NoData(Written(s, results))
         /\ OnlyReceipts(Written(s, results), IdsOf(results))
<1> DEFINE w == Replies(results)
           h == IF IsHeartbeatDue(CheckedTimeout(Ingested(s, results))) THEN <<Heartbeat>> ELSE <<>>
           ids == IdsOf(results)
<1>1. w \in Seq(Message) /\ NoData(w) /\ OnlyReceipts(w, ids)
  BY RepliesAre
<1>2. Heartbeat \in Message /\ Heartbeat.kind = "Heartbeat"
  BY DEF Heartbeat, Message
<1>3. h \in Seq(Message) /\ \A i \in 1 .. Len(h) : h[i] = Heartbeat
  <2>1. <<Heartbeat>> \in Seq(Message) /\ <<>> \in Seq(Message)
    BY <1>2
  <2> QED
    BY <2>1
<1>4. Written(s, results) = w \o h
  BY DEF Written
<1> HIDE DEF w, h, ids
<1>5. /\ w \o h \in Seq(Message) /\ Len(w \o h) = Len(w) + Len(h)
      /\ Len(w) \in Nat /\ Len(h) \in Nat
      /\ \A i \in 1 .. Len(w \o h) : (w \o h)[i] = IF i <= Len(w) THEN w[i] ELSE h[i - Len(w)]
  BY <1>1, <1>3
<1>6. ASSUME NEW i \in 1 .. Len(w \o h)
      PROVE  \/ (w \o h)[i] = Heartbeat
             \/ \E j \in 1 .. Len(w) : (w \o h)[i] = w[j]
  <2>1. CASE i <= Len(w)
    BY <1>5, <2>1
  <2>2. CASE ~ (i <= Len(w))
    <3>1. i - Len(w) \in 1 .. Len(h)
      BY <1>5, <2>2
    <3> QED
      BY <1>3, <1>5, <2>2, <3>1
  <2> QED
    BY <2>1, <2>2
<1>7. NoData(w \o h) /\ OnlyReceipts(w \o h, ids)
  <2> DEFINE v == w \o h
  <2> HIDE DEF v
  <2>1. \A i \in 1 .. Len(v) : v[i] = Heartbeat \/ \E j \in 1 .. Len(w) : v[i] = w[j]
    BY <1>6 DEF v
  <2>2. NoData(v) /\ OnlyReceipts(v, ids)
    BY <1>1, <1>2, <2>1 DEF NoData, OnlyReceipts
  <2> QED
    BY <2>2 DEF v
<1> QED
  BY <1>4, <1>5, <1>7 DEF ids

(* What the system takes of it.                                            *)
LEMMA TakenIs ==
  ASSUME NEW ms \in Seq(Message), faults \in 0 .. MaxFaults, NEW taken \in Taken(ms)
  PROVE  /\ taken \in Seq(Message)
         /\ \A i \in 1 .. Len(taken) : taken[i] = Torn \/ \E j \in 1 .. Len(ms) : taken[i] = ms[j]
         /\ taken # ms => faults < MaxFaults
<1>1. Torn \in Message /\ Len(ms) \in Nat
  BY DEF Torn, Message
<1>2. CASE taken = ms
  BY <1>2
<1>3. ASSUME faults < MaxFaults, NEW n \in 0 .. Len(ms) - 1,
             taken \in {SubSeq(ms, 1, n), Append(SubSeq(ms, 1, n), Torn)}
      PROVE  /\ taken \in Seq(Message)
             /\ \A i \in 1 .. Len(taken) : taken[i] = Torn \/ \E j \in 1 .. Len(ms) : taken[i] = ms[j]
  <2> DEFINE p == SubSeq(ms, 1, n)
  <2>1. p \in Seq(Message) /\ Len(p) = n /\ \A i \in 1 .. n : p[i] = ms[i] /\ i \in 1 .. Len(ms)
    BY <1>1, <1>3
  <2> HIDE DEF p
  <2>2. CASE taken = p
    BY <2>1, <2>2
  <2>3. CASE taken = Append(p, Torn)
    <3>1. /\ taken \in Seq(Message) /\ Len(taken) = n + 1 /\ taken[n + 1] = Torn
          /\ \A i \in 1 .. n : taken[i] = p[i]
      BY <1>1, <2>1, <2>3
    <3>2. \A i \in 1 .. Len(taken) : i = n + 1 \/ i \in 1 .. n
      BY <1>3, <3>1
    <3> QED
      BY <2>1, <3>1, <3>2
  <2> QED
    BY <1>3, <2>2, <2>3 DEF p
<1>4. taken = ms \/ (faults < MaxFaults /\ \E n \in 0 .. Len(ms) - 1 :
                       taken \in {SubSeq(ms, 1, n), Append(SubSeq(ms, 1, n), Torn)})
  BY DEF Taken, MayFail
<1> QED
  BY <1>2, <1>3, <1>4

(* It has no data if there was none, and no other receipts.                *)
LEMMA TakenReplies ==
  ASSUME NEW ms \in Seq(Message), faults \in 0 .. MaxFaults, NEW taken \in Taken(ms),
         NoData(ms), NEW ids, OnlyReceipts(ms, ids)
  PROVE  NoData(taken) /\ OnlyReceipts(taken, ids)
<1>1. Torn.kind = "Torn"
  BY DEF Torn
<1> QED
  BY <1>1, TakenIs DEF NoData, OnlyReceipts

-----------------------------------------------------------------------------
(* Ids read.                                                               *)

(* Messages after others.                                                  *)
LEMMA IdsOfMore ==
  ASSUME NEW xs \in Seq(Message), NEW ys \in Seq(Message)
  PROVE  /\ IdsOf(xs) \in Seq(Nat) /\ IdsOf(ys) \in Seq(Nat) /\ xs \o ys \in Seq(Message)
         /\ IdsOf(xs \o ys) = IdsOf(xs) \o IdsOf(ys)
<1>1. Torn \in Message
  BY DEF Torn, Message
<1>2. IdsOf(xs) \in Seq(Nat) /\ IdsOf(ys) \in Seq(Nat)
  BY <1>1, AllHaveIds, IdsOfAppend
<1>3. IdsJoin(xs, ys)
  BY AllHaveIds, IdsOfConcat
<1> QED
  BY <1>2, <1>3 DEF IdsJoin

(* Messages without data do not matter.                                    *)
LEMMA IdsOfNoMore ==
  ASSUME NEW xs \in Seq(Message), NEW ys \in Seq(Message), NoData(ys)
  PROVE  IdsOf(xs \o ys) = IdsOf(xs)
<1>1. IdsOf(ys) = <<>> /\ IdsOf(xs) \in Seq(Nat) /\ IdsOf(xs \o ys) = IdsOf(xs) \o IdsOf(ys)
  BY NoDataNoIds, IdsOfMore
<1> DEFINE a == IdsOf(xs)
<1> HIDE DEF a
<1>2. a \o <<>> = a
  BY <1>1 DEF a
<1> QED
  BY <1>1, <1>2, Zenon DEF a

(* A prefix, element by element.                                           *)
LEMMA PrefixIs ==
  ASSUME NEW s \in Seq(Nat), NEW t \in Seq(Nat)
  PROVE  IsPrefix(s, t) <=> Len(s) <= Len(t) /\ \A i \in 1 .. Len(s) : s[i] = t[i]
<1>1. SubSeq(s, 1, Len(s)) = s
  OBVIOUS
<1>2. CASE Len(s) <= Len(t)
  <2> DEFINE p == SubSeq(t, 1, Len(s))
  <2>1. p \in Seq(Nat) /\ Len(p) = Len(s) /\ \A i \in 1 .. Len(s) : p[i] = t[i]
    BY <1>2
  <2>2. IsPrefix(s, t) <=> s = p
    BY <1>1, <1>2 DEF IsPrefix
  <2> HIDE DEF p
  <2>3. s = p <=> \A i \in 1 .. Len(s) : s[i] = p[i]
    BY <2>1, SeqEqual
  <2> QED
    BY <1>2, <2>1, <2>2, <2>3
<1>3. CASE ~ (Len(s) <= Len(t))
  BY <1>3 DEF IsPrefix
<1> QED
  BY <1>2, <1>3

(* What was read, and with it any messages that are sound, is a prefix of  *)
(* what was accepted.                                                      *)
Flows(ids, box, acc) ==
  \A n \in 0 .. Len(box) :
    Sound(box, n) => IsPrefix(ids \o IdsOf(SubSeq(box, 1, n)), acc)

(* With all messages it is all of it.                                      *)
Whole(ids, box, acc) == Sound(box, Len(box)) => ids \o IdsOf(box) = acc

(* Messages are lost from the end.                                         *)
LEMMA FlowsShorter ==
  ASSUME NEW ids, NEW box \in Seq(Message), NEW acc, Flows(ids, box, acc),
         NEW m \in 0 .. Len(box)
  PROVE  Flows(ids, SubSeq(box, 1, m), acc)
<1> DEFINE p == SubSeq(box, 1, m)
<1>1. Len(p) = m /\ Len(box) \in Nat /\ \A i \in 1 .. m : p[i] = box[i]
  OBVIOUS
<1>2. \A n \in 0 .. m : SubSeq(p, 1, n) = SubSeq(box, 1, n)
  OBVIOUS
<1> HIDE DEF p
<1> SUFFICES ASSUME NEW n \in 0 .. m, Sound(p, n)
             PROVE  IsPrefix(ids \o IdsOf(SubSeq(p, 1, n)), acc)
  BY <1>1 DEF Flows, p
<1>3. n \in 0 .. Len(box) /\ Sound(box, n)
  BY <1>1 DEF Sound
<1> QED
  BY <1>2, <1>3 DEF Flows

(* Reading.                                                                *)
LEMMA FlowsRead ==
  ASSUME NEW ids \in Seq(Nat), NEW box \in Seq(Message), NEW acc, Flows(ids, box, acc),
         NEW n \in 0 .. Len(box), Sound(box, n)
  PROVE  LET read == ids \o IdsOf(SubSeq(box, 1, n))
             left == SubSeq(box, n + 1, Len(box))
         IN  Flows(read, left, acc) /\ (Whole(ids, box, acc) => Whole(read, left, acc))
<1> DEFINE first == SubSeq(box, 1, n)
           left == SubSeq(box, n + 1, Len(box))
           read == ids \o IdsOf(first)
<1>1. /\ first \in Seq(Message) /\ left \in Seq(Message)
      /\ Len(left) = Len(box) - n /\ Len(box) \in Nat /\ n \in Nat
      /\ \A i \in 1 .. Len(box) - n : left[i] = box[n + i]
  OBVIOUS
<1>2. \A k \in 0 .. Len(box) - n : SubSeq(box, 1, n + k) = first \o SubSeq(left, 1, k)
  OBVIOUS
<1>3. \A k \in 0 .. Len(box) - n : SubSeq(left, 1, k) \in Seq(Message)
  OBVIOUS
<1>4. SubSeq(left, 1, Len(left)) = left /\ SubSeq(box, 1, Len(box)) = box
  OBVIOUS
<1> HIDE DEF first, left
<1>5. ASSUME NEW k \in 0 .. Len(box) - n
      PROVE  ids \o IdsOf(SubSeq(box, 1, n + k)) = read \o IdsOf(SubSeq(left, 1, k))
  <2> DEFINE a == IdsOf(first)
             b == IdsOf(SubSeq(left, 1, k))
  <2>1. /\ a \in Seq(Nat) /\ b \in Seq(Nat)
        /\ IdsOf(first \o SubSeq(left, 1, k)) = a \o b
    BY <1>1, <1>3, IdsOfMore
  <2>2. IdsOf(SubSeq(box, 1, n + k)) = a \o b
    BY <1>2, <2>1
  <2> HIDE DEF a, b
  <2>3. Associates(ids, a, b)
    BY <2>1, ConcatLaws
  <2>4. ids \o IdsOf(SubSeq(box, 1, n + k)) = (ids \o a) \o b
    BY <2>2, <2>3, Zenon DEF Associates
  <2> QED
    BY <2>4 DEF a, b
<1>6. ASSUME NEW k \in 0 .. Len(box) - n, Sound(left, k) PROVE Sound(box, n + k)
  <2> SUFFICES ASSUME NEW i \in 1 .. n + k PROVE IsSound(box[i])
    BY DEF Sound
  <2>1. CASE i <= n
    BY <1>1, <2>1 DEF Sound
  <2>2. CASE ~ (i <= n)
    <3>1. i - n \in 1 .. k /\ i - n \in 1 .. Len(box) - n /\ n + (i - n) = i
      BY <1>1, <2>2
    <3>2. left[i - n] = box[i]
      BY <1>1, <3>1
    <3> QED
      BY <1>6, <3>1, <3>2 DEF Sound
  <2> QED
    BY <2>1, <2>2
<1>7. Flows(read, left, acc)
  <2> SUFFICES ASSUME NEW k \in 0 .. Len(box) - n, Sound(left, k)
               PROVE  IsPrefix(read \o IdsOf(SubSeq(left, 1, k)), acc)
    BY <1>1 DEF Flows
  <2>1. n + k \in 0 .. Len(box) /\ Sound(box, n + k)
    BY <1>1, <1>6
  <2>2. IsPrefix(ids \o IdsOf(SubSeq(box, 1, n + k)), acc)
    BY <2>1 DEF Flows
  <2> QED
    BY <1>5, <2>2
<1>8. ASSUME Whole(ids, box, acc), Sound(left, Len(left)) PROVE read \o IdsOf(left) = acc
  <2>1. Len(left) \in 0 .. Len(box) - n /\ n + Len(left) = Len(box)
    BY <1>1
  <2>2. Sound(box, Len(box))
    BY <1>6, <1>8, <2>1
  <2>3. ids \o IdsOf(SubSeq(box, 1, n + Len(left))) = read \o IdsOf(SubSeq(left, 1, Len(left)))
    BY <1>5, <2>1
  <2>4. ids \o IdsOf(box) = read \o IdsOf(left)
    BY <1>4, <2>1, <2>3
  <2> QED
    BY <1>8, <2>2, <2>4 DEF Whole
<1> QED
  BY <1>7, <1>8 DEF Whole, first, left

(* Something is written.                                                   *)
LEMMA FlowsWritten ==
  ASSUME NEW ids \in Seq(Nat), NEW box \in Seq(Message), NEW more \in Seq(Message),
         NEW acc \in Seq(Nat), Flows(ids, box, acc), NoData(more)
  PROVE  /\ Flows(ids, box \o more, acc)
         /\ Whole(ids, box, acc) => Whole(ids, box \o more, acc)
<1> DEFINE all == box \o more
<1>1. /\ all \in Seq(Message) /\ Len(all) = Len(box) + Len(more)
      /\ Len(box) \in Nat /\ Len(more) \in Nat
      /\ \A i \in 1 .. Len(box) : all[i] = box[i]
  OBVIOUS
<1>2. \A n \in 0 .. Len(box) : SubSeq(all, 1, n) = SubSeq(box, 1, n)
  OBVIOUS
<1>3. ASSUME NEW n \in 0 .. Len(all), ~ (n <= Len(box))
      PROVE  SubSeq(all, 1, n) = box \o SubSeq(more, 1, n - Len(box))
             /\ n - Len(box) \in 0 .. Len(more)
  BY <1>1, <1>3
<1>4. ASSUME NEW k \in 0 .. Len(more)
      PROVE  SubSeq(more, 1, k) \in Seq(Message) /\ NoData(SubSeq(more, 1, k))
  <2> DEFINE p == SubSeq(more, 1, k)
  <2>1. p \in Seq(Message) /\ Len(p) = k /\ \A i \in 1 .. k : p[i] = more[i] /\ i \in 1 .. Len(more)
    BY <1>1
  <2> HIDE DEF p
  <2>2. NoData(p)
    BY <2>1 DEF NoData
  <2> QED
    BY <2>1, <2>2 DEF p
<1>5. IdsOf(all) = IdsOf(box)
  BY IdsOfNoMore
<1>6. SubSeq(box, 1, Len(box)) = box
  OBVIOUS
<1> HIDE DEF all
<1>7. ASSUME NEW n \in 0 .. Len(all), Sound(all, n)
      PROVE  IsPrefix(ids \o IdsOf(SubSeq(all, 1, n)), acc)
  <2>1. CASE n <= Len(box)
    <3>1. n \in 0 .. Len(box) /\ Sound(box, n)
      BY <1>1, <1>7, <2>1 DEF Sound
    <3> QED
      BY <1>2, <3>1 DEF Flows
  <2>2. CASE ~ (n <= Len(box))
    <3>1. SubSeq(all, 1, n) = box \o SubSeq(more, 1, n - Len(box)) /\ n - Len(box) \in 0 .. Len(more)
      BY <1>3, <2>2
    <3>2. IdsOf(SubSeq(all, 1, n)) = IdsOf(box)
      BY <1>4, <3>1, IdsOfNoMore
    <3>3. Len(box) \in 0 .. Len(box) /\ Sound(box, Len(box))
      BY <1>1, <1>7, <2>2 DEF Sound
    <3>4. IsPrefix(ids \o IdsOf(SubSeq(box, 1, Len(box))), acc)
      BY <3>3 DEF Flows
    <3> QED
      BY <1>6, <3>2, <3>4
  <2> QED
    BY <2>1, <2>2
<1>8. ASSUME Whole(ids, box, acc), Sound(all, Len(all)) PROVE ids \o IdsOf(all) = acc
  <2>1. Sound(box, Len(box))
    BY <1>1, <1>8 DEF Sound
  <2> QED
    BY <1>5, <1>8, <2>1 DEF Whole
<1> QED
  BY <1>7, <1>8 DEF Flows, Whole, all

(* More is accepted, of which nothing arrives.                             *)
LEMMA FlowsLater ==
  ASSUME NEW ids \in Seq(Nat), NEW box \in Seq(Message), NEW acc \in Seq(Nat), NEW q \in Nat,
         Flows(ids, box, acc)
  PROVE  Flows(ids, box, Append(acc, q))
<1> SUFFICES ASSUME NEW n \in 0 .. Len(box), Sound(box, n)
             PROVE  IsPrefix(ids \o IdsOf(SubSeq(box, 1, n)), Append(acc, q))
  BY DEF Flows
<1> DEFINE read == ids \o IdsOf(SubSeq(box, 1, n))
           next == Append(acc, q)
<1>1. IsPrefix(read, acc)
  BY DEF Flows
<1>2. SubSeq(box, 1, n) \in Seq(Message) /\ <<>> \in Seq(Message)
  OBVIOUS
<1>3. read \in Seq(Nat)
  <2> DEFINE a == IdsOf(SubSeq(box, 1, n))
  <2>1. a \in Seq(Nat)
    BY <1>2, IdsOfMore
  <2> HIDE DEF a
  <2>2. ids \o a \in Seq(Nat)
    BY <2>1
  <2> QED
    BY <2>2 DEF a
<1>4. /\ next \in Seq(Nat) /\ Len(next) = Len(acc) + 1 /\ Len(acc) \in Nat
      /\ \A i \in 1 .. Len(acc) : next[i] = acc[i]
  OBVIOUS
<1> HIDE DEF read, next
<1>5. Len(read) <= Len(acc) /\ \A i \in 1 .. Len(read) : read[i] = acc[i]
  BY <1>1, <1>3, PrefixIs
<1>6. Len(read) \in Nat
  BY <1>3
<1>7. Len(read) <= Len(next) /\ \A i \in 1 .. Len(read) : read[i] = next[i]
  BY <1>4, <1>5, <1>6
<1> QED
  BY <1>3, <1>4, <1>7, PrefixIs DEF read, next

(* A message is accepted, and arrives, whole or not.                       *)
LEMMA FlowsSent ==
  ASSUME NEW ids \in Seq(Nat), NEW box \in Seq(Message), NEW acc \in Seq(Nat), NEW q \in Nat,
         Flows(ids, box, acc), Whole(ids, box, acc),
         NEW m \in Message, (m.kind = "Data" /\ m.seq = q) \/ ~ IsSound(m)
  PROVE  /\ Flows(ids, Append(box, m), Append(acc, q))
         /\ Whole(ids, Append(box, m), Append(acc, q))
<1> DEFINE all == Append(box, m)
           next == Append(acc, q)
<1>1. /\ all \in Seq(Message) /\ Len(all) = Len(box) + 1 /\ Len(box) \in Nat
      /\ all[Len(box) + 1] = m /\ \A i \in 1 .. Len(box) : all[i] = box[i]
  OBVIOUS
<1>2. \A n \in 0 .. Len(box) : SubSeq(all, 1, n) = SubSeq(box, 1, n)
  OBVIOUS
<1>3. SubSeq(all, 1, Len(all)) = all
  BY <1>1
<1>4. IdsOf(all) = IF m.kind = "Data" THEN Append(IdsOf(box), m.seq) ELSE IdsOf(box)
  BY AllHaveIds, IdsOfAppend
<1>5. IdsOf(box) \in Seq(Nat) /\ next \in Seq(Nat)
  BY AllHaveIds, IdsOfAppend
<1>6. Flows(ids, box, next)
  BY FlowsLater
<1> HIDE DEF all
<1>7. ASSUME Sound(all, Len(all)) PROVE ids \o IdsOf(all) = next
  <2>1. Sound(box, Len(box)) /\ IsSound(m)
    <3>1. Len(box) + 1 \in 1 .. Len(all)
      BY <1>1
    <3>2. IsSound(all[Len(box) + 1])
      BY <1>7, <3>1 DEF Sound
    <3> QED
      BY <1>1, <1>7, <3>2 DEF Sound
  <2>2. ids \o IdsOf(box) = acc
    BY <2>1 DEF Whole
  <2> DEFINE b == IdsOf(box)
  <2>3. IdsOf(all) = Append(b, q)
    BY <1>4, <2>1
  <2> HIDE DEF b
  <2>4. AppendsToSecond(ids, b, q)
    BY <1>5, AppendToConcat DEF b
  <2> QED
    BY <2>2, <2>3, <2>4, Zenon DEF AppendsToSecond, b
<1>8. ASSUME NEW n \in 0 .. Len(all), Sound(all, n)
      PROVE  IsPrefix(ids \o IdsOf(SubSeq(all, 1, n)), next)
  <2>1. CASE n = Len(all)
    <3>1. ids \o IdsOf(SubSeq(all, 1, n)) = next
      BY <1>3, <1>7, <1>8, <2>1
    <3>2. IsPrefix(next, next)
      <4> HIDE DEF next
      <4>1. Len(next) \in Nat
        BY <1>5
      <4> QED
        BY <1>5, <4>1, PrefixIs
    <3> QED
      BY <3>1, <3>2
  <2>2. CASE n # Len(all)
    <3> HIDE DEF next
    <3>1. n \in 0 .. Len(box)
      BY <1>1, <2>2
    <3>2. Sound(box, n)
      <4>1. \A i \in 1 .. n : i \in 1 .. Len(box)
        BY <1>1, <3>1
      <4> QED
        BY <1>1, <1>8, <4>1 DEF Sound
    <3> QED
      BY <1>2, <1>6, <3>1, <3>2 DEF Flows
  <2> QED
    BY <2>1, <2>2
<1> QED
  BY <1>7, <1>8 DEF Flows, Whole, all

-----------------------------------------------------------------------------
(* The invariant.                                                          *)

Dialed == {"Trying", "Ok", "Failed", "TimedOut"}

(* The variables on which the data does not depend.                        *)
PlainInv ==
  /\ dial \in Dialed /\ dialAge \in 0 .. MaxDial
  /\ backlog \in BOOLEAN /\ checked \in BOOLEAN /\ cut \in BOOLEAN
  /\ broken \in [Ends -> BOOLEAN]
  /\ shut \subseteq Ends /\ closed \subseteq Ends /\ eof \subseteq Ends /\ dropped \subseteq Ends
  /\ faults \in 0 .. MaxFaults /\ sends \in 0 .. MaxSends
  /\ sinceProcess \in [Ends -> 0 .. MaxIdle]

BoxesInv ==
  /\ inbox \in [Ends -> Seq(Message)]
  /\ accepted \in [Ends -> Seq(Nums)]
  /\ got \in [Ends -> Seq(Datas(Event))]

(* The listener's socket is made once, when the backlog is accepted.       *)
LifeInv ==
  /\ backlog => dial = "Ok" /\ ~ Exists("server") /\ "server" \notin closed
  /\ dial # "Ok" => ~ Exists("server") /\ closed = {}
  /\ dial # "Ok" \/ backlog =>
       got["server"] = <<>> /\ accepted["server"] = <<>> /\ ~ broken["server"]

(* What holds of the socket s of an end.                                   *)
Held(e, s) ==
  /\ SocketOK(s) /\ s.nextSeq <= sends
  /\ e \notin closed
  /\ e = "server" => s.status # "Connecting"
  /\ got[e] = DataOf(s.events)
  /\ \A i \in 1 .. Len(accepted[e]) : accepted[e][i] < s.nextSeq
  /\ ~ broken[e] => s.lastOk \subseteq ToSet(Ids(Other(e)))
  /\ s.status = "RemoteEnded" /\ closed = {} /\ ~ cut => e \in eof /\ inbox[e] = <<>>

SocketsInv ==
  /\ socks \in [Ends -> SocketRecord \cup {NoSocket}]
  /\ \A e \in Ends : Exists(e) => Held(e, socks[e])

(* What is queued at an end, and then what it has not read, is what the    *)
(* other end sent.                                                         *)
FlowInv ==
  \A e \in Ends : ~ broken[e] =>
    /\ Flows(Ids(e), inbox[e], accepted[Other(e)])
    /\ ~ cut /\ closed = {} => Whole(Ids(e), inbox[e], accepted[Other(e)])

(* Receipts under way are for data that is queued.                         *)
ReceiptsInv == \A e \in Ends : OnlyReceipts(inbox[e], Ids(Other(e)))

(* Ids are given out in order.                                             *)
Increasing(ids) == \A i, j \in 1 .. Len(ids) : i < j => ids[i] < ids[j]
OrderInv == \A e \in Ends : Increasing(accepted[e])

(* A stream that is not reset ends when it is shut down.                   *)
EofInv == ~ cut /\ closed = {} => \A e \in eof : Other(e) \in shut

StreamInv == FlowInv /\ ReceiptsInv /\ OrderInv /\ EofInv

ConnectionInv == PlainInv /\ BoxesInv /\ LifeInv /\ SocketsInv /\ StreamInv

(* The two ends.                                                           *)
LEMMA TwoEnds ==
  ASSUME NEW e \in Ends
  PROVE  /\ Other(e) \in Ends /\ Other(Other(e)) = e /\ Other(e) # e
         /\ \A d \in Ends : d = e \/ d = Other(e)
         /\ \A S \in SUBSET Ends : e \notin S /\ Other(e) \notin S => S = {}
BY DEF Ends, Other

(* No socket is none that exists.                                          *)
LEMMA SocketsExist ==
  /\ NoSocket \notin SocketRecord
  /\ \A s : SocketOK(s) => s \in SocketRecord /\ s # NoSocket
<1>1. NoSocket.status = "None" /\ "None" \notin Statuses
  BY DEF NoSocket, Statuses
<1>2. \A s \in SocketRecord : s.status \in Statuses
  BY DEF SocketRecord
<1>3. NoSocket \notin SocketRecord
  BY <1>1, <1>2
<1> QED
  BY <1>3 DEF SocketOK

(* What the types give.                                                    *)
LEMMA TypesAt ==
  ASSUME PlainInv, BoxesInv, NEW e \in Ends
  PROVE  /\ inbox[e] \in Seq(Message) /\ accepted[e] \in Seq(Nums)
         /\ got[e] \in Seq(Datas(Event))
         /\ accepted[e] \in Seq(Nat) /\ Ids(e) \in Seq(Nat)
         /\ broken[e] \in BOOLEAN /\ Len(inbox[e]) \in Nat /\ Len(accepted[e]) \in Nat
<1>1. /\ inbox[e] \in Seq(Message) /\ accepted[e] \in Seq(Nums)
      /\ got[e] \in Seq(Datas(Event)) /\ broken[e] \in BOOLEAN
  BY DEF PlainInv, BoxesInv
<1>2. accepted[e] \in Seq(Nat)
  <2> DEFINE s == accepted[e]
  <2>1. s \in Seq(Nums) /\ \A q \in Nums : q \in Nat
    BY <1>1, NumbersOnly DEF Nums
  <2> HIDE DEF s
  <2>2. s \in [1 .. Len(s) -> Nums] /\ Len(s) \in Nat
    BY <2>1
  <2>3. s \in [1 .. Len(s) -> Nat]
    BY <2>1, <2>2
  <2>4. s \in Seq(Nat)
    BY <2>2, <2>3
  <2> QED
    BY <2>4 DEF s
<1>3. Ids(e) \in Seq(Nat)
  <2> DEFINE g == got[e]
  <2>1. \A i \in DOMAIN g : g[i].seq \in Nat
    <3>1. \A i \in DOMAIN g : g[i] \in Datas(Event)
      BY <1>1
    <3> QED
      BY <3>1, AllHaveIds DEF HasIds
  <2>2. DOMAIN g = 1 .. Len(g) /\ Len(g) \in Nat
    BY <1>1
  <2>3. Ids(e) = [i \in DOMAIN g |-> g[i].seq]
    BY DEF Ids
  <2> HIDE DEF g
  <2> QED
    BY <2>1, <2>2, <2>3
<1> QED
  BY <1>1, <1>2, <1>3

-----------------------------------------------------------------------------
(* Steps that send nothing and read nothing.                               *)

SocketKept(e) ==
  \/ socks'[e] = NoSocket
  \/ /\ Exists(e) /\ SocketOK(socks'[e]) /\ e \notin closed'
     /\ socks'[e].nextSeq = socks[e].nextSeq /\ socks'[e].lastOk = socks[e].lastOk
     /\ DataOf(socks'[e].events) = DataOf(socks[e].events)
     /\ socks'[e].status = "RemoteEnded" => socks[e].status = "RemoteEnded"
     /\ e = "server" => socks'[e].status # "Connecting"

Quiet ==
  /\ accepted' = accepted /\ got' = got /\ broken' = broken /\ sends' = sends
  /\ inbox' \in [Ends -> Seq(Message)]
  /\ \A e \in Ends : \E n \in 0 .. Len(inbox[e]) : inbox'[e] = SubSeq(inbox[e], 1, n)
  /\ cut' \/ closed' # {} \/ inbox' = inbox
  /\ cut => cut'
  /\ closed \subseteq closed'
  /\ cut' \/ closed' # {} \/ eof \subseteq eof'
  /\ socks' \in [Ends -> SocketRecord \cup {NoSocket}]
  /\ \A e \in Ends : SocketKept(e)

LEMMA QuietSockets ==
  ASSUME ConnectionInv, Quiet
  PROVE  SocketsInv'
<1> SUFFICES ASSUME NEW e \in Ends, socks'[e] # NoSocket
             PROVE  Held(e, socks[e])'
  BY DEF SocketsInv, Exists, Quiet
<1>1. Exists(e) /\ SocketKept(e) /\ socks'[e] # NoSocket
  BY DEF Quiet, SocketKept
<1>2. Held(e, socks[e])
  BY <1>1 DEF ConnectionInv, SocketsInv
<1>3. accepted' = accepted /\ got' = got /\ broken' = broken /\ sends' = sends
  BY DEF Quiet
<1>4. Ids(Other(e))' = Ids(Other(e))
  BY <1>3 DEF Ids
<1>5. ASSUME socks'[e].status = "RemoteEnded", closed' = {}, ~ cut'
      PROVE  e \in eof' /\ inbox'[e] = <<>>
  <2>1. closed = {} /\ ~ cut /\ inbox' = inbox /\ eof \subseteq eof'
    BY <1>5 DEF Quiet
  <2>2. socks[e].status = "RemoteEnded"
    BY <1>1, <1>5 DEF SocketKept
  <2> QED
    BY <1>2, <2>1, <2>2 DEF Held
<1> QED
  BY <1>1, <1>2, <1>3, <1>4, <1>5 DEF Held, SocketKept

LEMMA QuietStream ==
  ASSUME ConnectionInv, Quiet
  PROVE  BoxesInv' /\ FlowInv' /\ ReceiptsInv' /\ OrderInv'
<1>1. accepted' = accepted /\ got' = got /\ broken' = broken
  BY DEF Quiet
<1>2. \A e \in Ends : Ids(e)' = Ids(e)
  BY <1>1 DEF Ids
<1>3. BoxesInv'
  BY <1>1 DEF ConnectionInv, BoxesInv, Quiet
<1>4. FlowInv'
  <2> SUFFICES ASSUME NEW e \in Ends, ~ broken[e]
               PROVE  /\ Flows(Ids(e), inbox'[e], accepted[Other(e)])
                      /\ ~ cut' /\ closed' = {} =>
                           Whole(Ids(e), inbox'[e], accepted[Other(e)])
    BY <1>1, <1>2 DEF FlowInv
  <2>1. /\ Flows(Ids(e), inbox[e], accepted[Other(e)])
        /\ ~ cut /\ closed = {} => Whole(Ids(e), inbox[e], accepted[Other(e)])
    BY DEF ConnectionInv, StreamInv, FlowInv
  <2>2. PICK n \in 0 .. Len(inbox[e]) : inbox'[e] = SubSeq(inbox[e], 1, n)
    BY DEF Quiet
  <2>3. inbox[e] \in Seq(Message)
    BY TypesAt DEF ConnectionInv
  <2>4. Flows(Ids(e), inbox'[e], accepted[Other(e)])
    BY <2>1, <2>2, <2>3, FlowsShorter
  <2>5. ~ cut' /\ closed' = {} => inbox' = inbox /\ ~ cut /\ closed = {}
    BY DEF Quiet
  <2> QED
    BY <2>1, <2>4, <2>5
<1>5. ReceiptsInv'
  <2> SUFFICES ASSUME NEW e \in Ends PROVE OnlyReceipts(inbox'[e], Ids(Other(e)))
    BY <1>2, TwoEnds DEF ReceiptsInv
  <2>1. OnlyReceipts(inbox[e], Ids(Other(e)))
    BY DEF ConnectionInv, StreamInv, ReceiptsInv
  <2>2. PICK n \in 0 .. Len(inbox[e]) : inbox'[e] = SubSeq(inbox[e], 1, n)
    BY DEF Quiet
  <2>3. inbox[e] \in Seq(Message) /\ Len(inbox[e]) \in Nat
    BY TypesAt DEF ConnectionInv
  <2>4. Len(inbox'[e]) = n /\ \A i \in 1 .. n : inbox'[e][i] = inbox[e][i] /\ i \in 1 .. Len(inbox[e])
    BY <2>2, <2>3
  <2> QED
    BY <2>1, <2>4 DEF OnlyReceipts
<1>6. OrderInv'
  BY <1>1 DEF ConnectionInv, StreamInv, OrderInv
<1> QED
  BY <1>3, <1>4, <1>5, <1>6

-----------------------------------------------------------------------------
(* What is written to the stream.                                          *)

CarriedTo(e, box, taken, b) ==
  /\ b \in [Ends -> Seq(Message)]
  /\ \/ b = box /\ (cut \/ e \in shut \/ taken = <<>>)
     \/ /\ closed # {} /\ b[Other(e)] = box[Other(e)]
        /\ \E n \in 0 .. Len(box[e]) : b[e] = SubSeq(box[e], 1, n)
     \/ /\ ~ cut /\ e \notin shut /\ Other(e) \notin closed
        /\ b[e] = box[e] /\ b[Other(e)] = box[Other(e)] \o taken

LEMMA CarriedIs ==
  ASSUME NEW e \in Ends, NEW box \in [Ends -> Seq(Message)], NEW taken \in Seq(Message),
         NEW b \in Carried(e, box, taken)
  PROVE  CarriedTo(e, box, taken, b)
<1>1. Other(e) \in Ends /\ Other(e) # e /\ box[e] \in Seq(Message) /\ box[Other(e)] \in Seq(Message)
  BY TwoEnds
<1>2. CASE cut \/ e \in shut \/ taken = <<>>
  BY <1>2 DEF Carried, CarriedTo
<1>3. CASE ~ (cut \/ e \in shut \/ taken = <<>>) /\ Other(e) \in closed
  <2>1. b \in {[box EXCEPT ![e] = SubSeq(@, 1, n)] : n \in 0 .. Len(box[e])}
    BY <1>3 DEF Carried
  <2>2. PICK n \in 0 .. Len(box[e]) : b = [box EXCEPT ![e] = SubSeq(@, 1, n)]
    BY <2>1
  <2>3. SubSeq(box[e], 1, n) \in Seq(Message)
    BY <1>1
  <2>4. b[e] = SubSeq(box[e], 1, n) /\ b[Other(e)] = box[Other(e)]
    BY <1>1, <2>2
  <2>5. b \in [Ends -> Seq(Message)]
    BY <2>2, <2>3
  <2> QED
    BY <1>3, <2>4, <2>5 DEF CarriedTo
<1>4. CASE ~ (cut \/ e \in shut \/ taken = <<>>) /\ Other(e) \notin closed
  <2>1. b = [box EXCEPT ![Other(e)] = @ \o taken]
    BY <1>4 DEF Carried
  <2>2. box[Other(e)] \o taken \in Seq(Message)
    BY <1>1
  <2>3. b[e] = box[e] /\ b[Other(e)] = box[Other(e)] \o taken /\ b \in [Ends -> Seq(Message)]
    BY <1>1, <2>1, <2>2
  <2> QED
    BY <1>4, <2>3 DEF CarriedTo
<1> QED
  BY <1>2, <1>3, <1>4

(* The elements of a concatenation, as a set.                              *)
LEMMA ConcatHas ==
  ASSUME NEW a \in Seq(Nat), NEW b \in Seq(Nat)
  PROVE  ToSet(a) \subseteq ToSet(a \o b) /\ ToSet(b) \subseteq ToSet(a \o b)
<1> DEFINE c == a \o b
<1>1. /\ c \in Seq(Nat) /\ Len(c) = Len(a) + Len(b) /\ Len(a) \in Nat /\ Len(b) \in Nat
      /\ \A i \in 1 .. Len(a) : c[i] = a[i]
      /\ \A i \in 1 .. Len(b) : c[Len(a) + i] = b[i]
  OBVIOUS
<1>2. DOMAIN a = 1 .. Len(a) /\ DOMAIN b = 1 .. Len(b)
  OBVIOUS
<1> HIDE DEF c
<1>3. DOMAIN c = 1 .. Len(c)
  BY <1>1
<1>4. ASSUME NEW x \in ToSet(a) PROVE x \in ToSet(c)
  <2>1. PICK i \in 1 .. Len(a) : x = a[i]
    BY <1>2 DEF ToSet
  <2>2. i \in DOMAIN c /\ c[i] = x
    BY <1>1, <1>3, <2>1
  <2> QED
    BY <2>2 DEF ToSet
<1>5. ASSUME NEW x \in ToSet(b) PROVE x \in ToSet(c)
  <2>1. PICK i \in 1 .. Len(b) : x = b[i]
    BY <1>2 DEF ToSet
  <2>2. Len(a) + i \in DOMAIN c /\ c[Len(a) + i] = x
    BY <1>1, <1>3, <2>1
  <2> QED
    BY <2>2 DEF ToSet
<1> QED
  BY <1>4, <1>5 DEF c

(* Receipts after others.                                                  *)
LEMMA ReceiptsConcat ==
  ASSUME NEW x \in Seq(Message), NEW y \in Seq(Message), NEW ids, NEW more,
         OnlyReceipts(x, ids), OnlyReceipts(y, more),
         NEW all, ToSet(ids) \subseteq ToSet(all), ToSet(more) \subseteq ToSet(all)
  PROVE  OnlyReceipts(x \o y, all)
<1> DEFINE z == x \o y
<1>1. /\ Len(z) = Len(x) + Len(y) /\ Len(x) \in Nat /\ Len(y) \in Nat
      /\ \A i \in 1 .. Len(x) + Len(y) : z[i] = IF i <= Len(x) THEN x[i] ELSE y[i - Len(x)]
  BY ConcatAt
<1> HIDE DEF z
<1>2. ASSUME NEW i \in 1 .. Len(z), z[i].kind = "Receipt" PROVE z[i].seq \in ToSet(all)
  <2>1. CASE i <= Len(x)
    <3>1. i \in 1 .. Len(x) /\ z[i] = x[i]
      BY <1>1, <2>1
    <3> QED
      BY <1>2, <3>1 DEF OnlyReceipts
  <2>2. CASE ~ (i <= Len(x))
    <3>1. i - Len(x) \in 1 .. Len(y) /\ z[i] = y[i - Len(x)]
      BY <1>1, <2>2
    <3> QED
      BY <1>2, <3>1 DEF OnlyReceipts
  <2> QED
    BY <2>1, <2>2
<1> QED
  BY <1>2 DEF OnlyReceipts, z

(* Receipts of a part.                                                     *)
LEMMA ReceiptsPart ==
  ASSUME NEW x \in Seq(Message), NEW ids, OnlyReceipts(x, ids),
         NEW m \in Nat, NEW n \in 0 .. Len(x)
  PROVE  OnlyReceipts(SubSeq(x, m + 1, n), ids)
<1> DEFINE p == SubSeq(x, m + 1, n)
<1>1. \A i \in 1 .. Len(p) : p[i] = x[m + i] /\ m + i \in 1 .. Len(x)
  OBVIOUS
<1> HIDE DEF p
<1>2. OnlyReceipts(p, ids)
  BY <1>1 DEF OnlyReceipts
<1> QED
  BY <1>2 DEF p

-----------------------------------------------------------------------------
(* process() of the socket s of an end.                                    *)

(* What it reads, takes for its results, finds of the stream, and has      *)
(* written.                                                                *)
ProcessesTo(e, s, n, results, end, taken) ==
  LET ms   == SubSeq(inbox[e], 1, n)
      left == [inbox EXCEPT ![e] = SubSeq(@, n + 1, Len(@))]
  IN  /\ n \in 0 .. Len(inbox[e]) /\ results \in Readings(e, ms)
      /\ end \in ReadEnds(e, n) /\ taken \in Taken(Written(s, results))
      /\ socks' = [socks EXCEPT ![e] = Processed(s, results, end)]
      /\ got' = [got EXCEPT ![e] = DataOf(socks'[e].events)]
      /\ broken' = [broken EXCEPT ![e] = Breaks(e, ms)]
      /\ inbox' \in Carried(e, left, taken)
      /\ Counts(Written(s, results), taken)
      /\ sinceProcess' = [sinceProcess EXCEPT ![e] = 0]
      /\ UNCHANGED <<shut, closed, eof, cut, dial, dialAge, sends, ends, accepted, dropped>>

LEMMA ProcessesIs ==
  ASSUME NEW e \in Ends, NEW s, Processes(e, s), Len(inbox[e]) \in Nat
  PROVE  \E n, results, end, taken : ProcessesTo(e, s, n, results, end, taken)
<1>1. PICK n \in 0 .. IF HasStream(e) THEN Len(inbox[e]) ELSE 0 :
        \E results \in Readings(e, SubSeq(inbox[e], 1, n)), end \in ReadEnds(e, n) :
          \E taken \in Taken(Written(s, results)) :
            /\ socks' = [socks EXCEPT ![e] = Processed(s, results, end)]
            /\ got' = [got EXCEPT ![e] = DataOf(socks'[e].events)]
            /\ broken' = [broken EXCEPT ![e] = Breaks(e, SubSeq(inbox[e], 1, n))]
            /\ inbox' \in Carried(e, [inbox EXCEPT ![e] = SubSeq(@, n + 1, Len(@))], taken)
            /\ Counts(Written(s, results), taken)
            /\ sinceProcess' = [sinceProcess EXCEPT ![e] = 0]
            /\ UNCHANGED <<shut, closed, eof, cut, dial, dialAge, sends, ends, accepted,
                           dropped>>
  BY Zenon DEF Processes
<1>2. n \in 0 .. Len(inbox[e])
  BY <1>1
<1> QED
  BY <1>1, <1>2, Zenon DEF ProcessesTo

LEMMA ProcessesKeep ==
  ASSUME ConnectionInv, NEW e \in Ends, NEW s, Held(e, s),
         NEW n, NEW results, NEW end, NEW taken, ProcessesTo(e, s, n, results, end, taken)
  PROVE  BoxesInv' /\ SocketsInv' /\ StreamInv'
<1> DEFINE d == Other(e)
           ms == SubSeq(inbox[e], 1, n)
           rest == SubSeq(inbox[e], n + 1, Len(inbox[e]))
           left == [inbox EXCEPT ![e] = SubSeq(@, n + 1, Len(@))]
           t == socks'[e]
           w == Written(s, results)
           ids == Ids(e) \o IdsOf(results)
<1>1. /\ n \in 0 .. Len(inbox[e]) /\ results \in Readings(e, ms)
      /\ end \in ReadEnds(e, n) /\ taken \in Taken(w)
      /\ socks' = [socks EXCEPT ![e] = Processed(s, results, end)]
      /\ got' = [got EXCEPT ![e] = DataOf(socks'[e].events)]
      /\ broken' = [broken EXCEPT ![e] = Breaks(e, ms)]
      /\ inbox' \in Carried(e, left, taken)
      /\ shut' = shut /\ closed' = closed /\ eof' = eof /\ cut' = cut
      /\ sends' = sends /\ accepted' = accepted
  BY DEF ProcessesTo
<1>2. /\ d \in Ends /\ d # e /\ Other(d) = e /\ \A f \in Ends : f = e \/ f = d
      /\ inbox[e] \in Seq(Message) /\ inbox[d] \in Seq(Message)
      /\ Len(inbox[e]) \in Nat /\ broken[e] \in BOOLEAN
      /\ accepted[e] \in Seq(Nat) /\ accepted[d] \in Seq(Nat)
      /\ Ids(e) \in Seq(Nat) /\ Ids(d) \in Seq(Nat)
  BY TwoEnds, TypesAt DEF ConnectionInv
<1>3. /\ inbox \in [Ends -> Seq(Message)] /\ got \in [Ends -> Seq(Datas(Event))]
      /\ broken \in [Ends -> BOOLEAN] /\ faults \in 0 .. MaxFaults
      /\ socks \in [Ends -> SocketRecord \cup {NoSocket}]
  BY DEF ConnectionInv, PlainInv, BoxesInv, SocketsInv
<1>4. ms \in Seq(Message) /\ rest \in Seq(Message) /\ n \in Nat
  BY <1>1, <1>2
<1>5. /\ results \in Seq(Result) /\ Breaks(e, ms) \in BOOLEAN
      /\ ~ Breaks(e, ms) => /\ ~ broken[e] /\ Sound(ms, Len(ms))
                            /\ ms \in Seq(SoundMessage) /\ results = ResultsOf(ms)
  <2> HIDE DEF ms
  <2> QED
    BY <1>1, <1>2, <1>4, ReadingsAre
<1>6. end \in StreamEnds /\ (end = "RemoteEnded" => e \in eof /\ n = Len(inbox[e]))
  BY <1>1 DEF ReadEnds, StreamEnds
<1>7. t = Processed(s, results, end) /\ socks'[d] = socks[d]
  BY <1>1, <1>2, <1>3
<1>8. ProcessedTo(s, results, end, t)
  BY <1>5, <1>6, <1>7, SocketProcessed DEF Held
<1>9. SocketOK(t) /\ t.events \in Seq(Event)
  BY <1>8, EventIds DEF ProcessedTo, SameSocket
<1>10. Ids(e)' = ids /\ Ids(d)' = Ids(d) /\ got'[e] = DataOf(t.events)
  <2>1. got'[e] = DataOf(t.events) /\ got'[d] = got[d]
    BY <1>1, <1>2, <1>3
  <2>2. Ids(e)' = IdsOf(t.events) /\ Ids(d)' = Ids(d)
    BY <2>1 DEF Ids, IdsOf
  <2>3. Ids(e) = IdsOf(s.events)
    BY DEF Ids, IdsOf, Held
  <2>4. IdsOf(t.events) = IdsOf(s.events) \o IdsOf(results)
    BY <1>8 DEF ProcessedTo
  <2> QED
    BY <2>1, <2>2, <2>3, <2>4
<1>11. /\ w \in Seq(Message) /\ NoData(w) /\ OnlyReceipts(w, IdsOf(results))
  BY <1>5, WrittenIs
<1>12. taken \in Seq(Message) /\ NoData(taken) /\ OnlyReceipts(taken, IdsOf(results))
  <2> HIDE DEF w
  <2> QED
    BY <1>1, <1>3, <1>11, TakenIs, TakenReplies
<1>13. left \in [Ends -> Seq(Message)] /\ left[e] = rest /\ left[d] = inbox[d]
  BY <1>2, <1>3, <1>4
<1>14. /\ inbox' \in [Ends -> Seq(Message)]
       /\ \/ inbox'[e] = rest /\ inbox'[d] = inbox[d]
          \/ /\ closed # {} /\ inbox'[d] = inbox[d]
             /\ \E m \in 0 .. Len(rest) : inbox'[e] = SubSeq(rest, 1, m)
          \/ /\ ~ cut /\ e \notin shut
             /\ inbox'[e] = rest /\ inbox'[d] = inbox[d] \o taken
  <2>1. inbox' \in Carried(e, left, taken) /\ left \in [Ends -> Seq(Message)]
        /\ taken \in Seq(Message)
    BY <1>1, <1>12, <1>13
  <2> HIDE DEF left, d, ms, rest, t, w, ids
  <2>2. CarriedTo(e, left, taken, inbox')
    BY <2>1, CarriedIs, Zenon
  <2> QED
    BY <1>13, <2>2 DEF CarriedTo, d
<1>15. IdsOf(results) \in Seq(Nat)
  <2>1. [kind |-> "Error"] \in Result
    BY DEF Result
  <2> QED
    BY <1>5, <2>1, AllHaveIds, IdsOfAppend
<1>16. ToSet(Ids(e)) \subseteq ToSet(ids) /\ ToSet(IdsOf(results)) \subseteq ToSet(ids)
  BY <1>2, <1>15, ConcatHas
<1>17. ~ broken'[e] => ~ Breaks(e, ms)
  BY <1>1, <1>3
<1>18. ~ broken'[d] => ~ broken[d]
  BY <1>1, <1>2, <1>3
<1> HIDE DEF d, ms, rest, left, t, w, ids
<1>19. BoxesInv'
  <2>1. got'[e] \in Seq(Datas(Event))
    BY <1>9, <1>10, DataOfType
  <2>2. got' \in [Ends -> Seq(Datas(Event))]
    BY <1>1, <1>3, <2>1
  <2> QED
    BY <1>1, <1>14, <2>2 DEF BoxesInv, ConnectionInv
<1>20. Held(e, socks[e])'
  <2>1. t.nextSeq = s.nextSeq /\ t.status \in {s.status, "Error", "Timeout", end} \ {"Ok"}
    BY <1>8 DEF ProcessedTo, SameSocket
  <2>2. e = "server" => t.status # "Connecting"
    BY <1>6, <2>1 DEF Held, StreamEnds
  <2>3. ASSUME ~ broken'[e] PROVE t.lastOk \subseteq ToSet(Ids(d))
    <3>1. ~ broken[e] /\ ms \in Seq(SoundMessage) /\ results = ResultsOf(ms)
      BY <1>5, <1>17, <2>3
    <3>2. CASE t.lastOk = s.lastOk
      BY <3>1, <3>2 DEF Held, d
    <3>3. ASSUME NEW i \in 1 .. Len(results), results[i].kind = "SeqIdOk",
                 t.lastOk = {results[i].seq}
          PROVE  t.lastOk \subseteq ToSet(Ids(d))
      <4>1. Len(ms) \in Nat /\ Len(results) = Len(ms) /\ results[i] = ResultOf(ms[i])
            /\ ms[i] \in SoundMessage
        BY <3>1, <3>3 DEF ResultsOf
      <4>2. ms[i].kind = "Receipt" /\ results[i].seq = ms[i].seq
        BY <3>3, <4>1, ResultOfSound DEF SoundMessage
      <4>3. i \in 1 .. Len(inbox[e]) /\ inbox[e][i] = ms[i]
        BY <1>1, <1>2, <3>3, <4>1 DEF ms
      <4>4. OnlyReceipts(inbox[e], Ids(d))
        BY DEF ConnectionInv, StreamInv, ReceiptsInv, d
      <4> QED
        BY <3>3, <4>2, <4>3, <4>4 DEF OnlyReceipts
    <3> QED
      BY <1>8, <3>2, <3>3 DEF ProcessedTo
  <2>4. ASSUME t.status = "RemoteEnded", closed = {}, ~ cut
        PROVE  e \in eof /\ inbox'[e] = <<>>
    <3>1. inbox'[e] = rest
      BY <1>14, <2>4
    <3>2. CASE s.status = "RemoteEnded"
      <4>1. e \in eof /\ inbox[e] = <<>>
        BY <2>4, <3>2 DEF Held
      <4>2. rest = <<>>
        BY <1>1, <4>1 DEF rest
      <4> QED
        BY <3>1, <4>1, <4>2
    <3>3. CASE s.status # "RemoteEnded"
      <4>1. end = "RemoteEnded"
        BY <2>1, <2>4, <3>3
      <4>2. rest = <<>>
        BY <1>2, <1>6, <4>1 DEF rest
      <4> QED
        BY <1>6, <3>1, <4>1, <4>2
    <3> QED
      BY <3>2, <3>3
  <2>5. Ids(Other(e))' = Ids(d)
    BY <1>10 DEF d
  <2> QED
    BY <1>1, <1>9, <1>10, <2>1, <2>2, <2>3, <2>4, <2>5 DEF Held, t
<1>21. ASSUME Exists(d) PROVE Held(d, socks[d])'
  <2>1. Held(d, socks[d])
    BY <1>2, <1>21 DEF ConnectionInv, SocketsInv
  <2>2. ASSUME ~ broken'[d] PROVE socks[d].lastOk \subseteq ToSet(ids)
    BY <1>2, <1>16, <1>18, <2>1, <2>2 DEF Held
  <2>3. ASSUME socks[d].status = "RemoteEnded", closed = {}, ~ cut
        PROVE  d \in eof /\ inbox'[d] = <<>>
    <3>1. d \in eof /\ inbox[d] = <<>>
      BY <2>1, <2>3 DEF Held
    <3>2. e \in shut
      BY <1>2, <2>3, <3>1 DEF ConnectionInv, StreamInv, EofInv
    <3> QED
      BY <1>14, <2>3, <3>1, <3>2
  <2>4. Ids(Other(d))' = ids
    BY <1>2, <1>10
  <2>5. got'[d] = got[d]
    BY <1>1, <1>2, <1>3
  <2> QED
    BY <1>1, <1>7, <2>1, <2>2, <2>3, <2>4, <2>5 DEF Held
<1>22. SocketsInv'
  <2>1. socks' \in [Ends -> SocketRecord \cup {NoSocket}]
    <3>1. t \in SocketRecord
      BY <1>9 DEF SocketOK
    <3> QED
      BY <1>1, <1>3, <3>1 DEF t
  <2>2. ASSUME NEW f \in Ends, socks'[f] # NoSocket PROVE Held(f, socks[f])'
    <3>1. CASE f = e
      BY <1>20, <3>1
    <3>2. CASE f = d
      <4>1. Exists(d)
        BY <1>7, <2>2, <3>2 DEF Exists
      <4> QED
        BY <1>21, <3>2, <4>1
    <3> QED
      BY <1>2, <3>1, <3>2
  <2> QED
    BY <2>1, <2>2 DEF SocketsInv, Exists

<1>23. FlowInv'
  <2>1. ASSUME ~ broken'[e]
        PROVE  /\ Flows(ids, inbox'[e], accepted[d])
               /\ ~ cut /\ closed = {} => Whole(ids, inbox'[e], accepted[d])
    <3>1. ~ broken[e] /\ Sound(ms, Len(ms)) /\ ms \in Seq(SoundMessage) /\ results = ResultsOf(ms)
      BY <1>5, <1>17, <2>1
    <3>2. /\ Flows(Ids(e), inbox[e], accepted[d])
          /\ ~ cut /\ closed = {} => Whole(Ids(e), inbox[e], accepted[d])
      BY <3>1 DEF ConnectionInv, StreamInv, FlowInv, d
    <3>3. ids = Ids(e) \o IdsOf(ms)
      BY <3>1, IdsOfResults DEF ids
    <3>4. Sound(inbox[e], n)
      <4>1. Len(ms) = n /\ \A i \in 1 .. n : ms[i] = inbox[e][i]
        BY <1>1, <1>2 DEF ms
      <4> QED
        BY <3>1, <4>1 DEF Sound
    <3>5. /\ Flows(ids, rest, accepted[d])
          /\ Whole(Ids(e), inbox[e], accepted[d]) => Whole(ids, rest, accepted[d])
      <4>1. /\ Flows(Ids(e) \o IdsOf(ms), rest, accepted[d])
            /\ Whole(Ids(e), inbox[e], accepted[d])
                 => Whole(Ids(e) \o IdsOf(ms), rest, accepted[d])
        BY <1>1, <1>2, <3>2, <3>4, FlowsRead DEF ms, rest
      <4> QED
        BY <3>3, <4>1
    <3>6. CASE inbox'[e] = rest
      BY <3>2, <3>5, <3>6
    <3>7. ASSUME closed # {}, NEW m \in 0 .. Len(rest), inbox'[e] = SubSeq(rest, 1, m)
          PROVE  Flows(ids, inbox'[e], accepted[d])
      BY <1>4, <3>5, <3>7, FlowsShorter
    <3> QED
      BY <1>14, <3>6, <3>7
  <2>2. ASSUME ~ broken'[d]
        PROVE  /\ Flows(Ids(d), inbox'[d], accepted[e])
               /\ ~ cut /\ closed = {} => Whole(Ids(d), inbox'[d], accepted[e])
    <3>1. /\ Flows(Ids(d), inbox[d], accepted[e])
          /\ ~ cut /\ closed = {} => Whole(Ids(d), inbox[d], accepted[e])
      BY <1>2, <1>18, <2>2 DEF ConnectionInv, StreamInv, FlowInv
    <3>2. /\ Flows(Ids(d), inbox[d] \o taken, accepted[e])
          /\ Whole(Ids(d), inbox[d], accepted[e]) => Whole(Ids(d), inbox[d] \o taken, accepted[e])
      BY <1>2, <1>12, <3>1, FlowsWritten
    <3> QED
      BY <1>14, <3>1, <3>2
  <2>3. ASSUME NEW f \in Ends, ~ broken'[f]
        PROVE  /\ Flows(Ids(f)', inbox'[f], accepted[Other(f)])
               /\ ~ cut /\ closed = {} => Whole(Ids(f)', inbox'[f], accepted[Other(f)])
    <3>1. CASE f = e
      BY <1>10, <2>1, <2>3, <3>1 DEF d
    <3>2. CASE f = d
      BY <1>2, <1>10, <2>2, <2>3, <3>2
    <3> QED
      BY <1>2, <3>1, <3>2
  <2> QED
    BY <1>1, <2>3 DEF FlowInv
<1>24. ReceiptsInv'
  <2>1. OnlyReceipts(inbox[e], Ids(d)) /\ OnlyReceipts(inbox[d], Ids(e))
    BY <1>2 DEF ConnectionInv, StreamInv, ReceiptsInv, d
  <2>2. OnlyReceipts(rest, Ids(d))
    <3>1. Len(inbox[e]) \in 0 .. Len(inbox[e])
      BY <1>2
    <3> QED
      BY <1>2, <1>4, <2>1, <3>1, ReceiptsPart DEF rest
  <2>3. OnlyReceipts(inbox'[e], Ids(d))
    <3>1. CASE inbox'[e] = rest
      BY <2>2, <3>1
    <3>2. ASSUME NEW m \in 0 .. Len(rest), inbox'[e] = SubSeq(rest, 1, m)
          PROVE  OnlyReceipts(inbox'[e], Ids(d))
      <4>1. OnlyReceipts(SubSeq(rest, 0 + 1, m), Ids(d)) /\ 0 + 1 = 1
        BY <1>4, <2>2, ReceiptsPart
      <4> QED
        BY <3>2, <4>1
    <3> QED
      BY <1>14, <3>1, <3>2
  <2>4. OnlyReceipts(inbox[d] \o taken, ids)
    BY <1>2, <1>12, <1>16, <2>1, ReceiptsConcat
  <2>5. OnlyReceipts(inbox[d], ids)
    BY <1>16, <2>1 DEF OnlyReceipts
  <2>6. OnlyReceipts(inbox'[d], ids)
    BY <1>14, <2>4, <2>5
  <2>7. ASSUME NEW f \in Ends PROVE OnlyReceipts(inbox'[f], Ids(Other(f))')
    <3>1. CASE f = e
      BY <1>10, <2>3, <3>1 DEF d
    <3>2. CASE f = d
      BY <1>2, <1>10, <2>6, <3>2
    <3> QED
      BY <1>2, <3>1, <3>2
  <2> QED
    BY <2>7 DEF ReceiptsInv
<1>25. OrderInv' /\ EofInv'
  BY <1>1 DEF ConnectionInv, StreamInv, OrderInv, EofInv
<1> QED
  BY <1>19, <1>22, <1>23, <1>24, <1>25 DEF StreamInv

-----------------------------------------------------------------------------
(* send_data.                                                              *)

(* The next id is used up.                                                 *)
WithNextSeq(s) == [s EXCEPT !.nextSeq = @ + 1]

LEMMA NextSeqUsed ==
  ASSUME NEW s, SocketOK(s), s.nextSeq + 1 \in Nums
  PROVE  /\ SocketOK(WithNextSeq(s)) /\ WithNextSeq(s).nextSeq = s.nextSeq + 1
         /\ WithNextSeq(s).status = s.status /\ WithNextSeq(s).lastOk = s.lastOk
         /\ WithNextSeq(s).events = s.events
<1> DEFINE t == WithNextSeq(s)
           q == s.nextSeq + 1
<1>1. s \in SocketRecord
  BY DEF SocketOK
<1>2. t = [status |-> s.status, recvAge |-> s.recvAge, sentAge |-> s.sentAge,
           nextSeq |-> q, lastOk |-> s.lastOk, events |-> s.events, drained |-> s.drained]
  <2>1. t = [s EXCEPT !.nextSeq = q]
    BY DEF WithNextSeq
  <2> HIDE DEF q
  <2> QED
    BY <1>1, <2>1 DEF SocketRecord
<1> HIDE DEF t, q
<1>3. q \in Nums
  BY DEF q
<1>4. t \in SocketRecord
  BY <1>1, <1>2, <1>3 DEF SocketRecord, Nums
<1>5. SocketOK(t)
  BY <1>2, <1>4 DEF SocketOK, Announced
<1> QED
  BY <1>2, <1>5 DEF t, q

(* What becomes of a message that is sent: nothing; it is accepted, and    *)
(* lost; or it arrives, whole or not.                                      *)
Shortened(e) ==
  \/ inbox'[e] = inbox[e]
  \/ closed # {} /\ \E k \in 0 .. Len(inbox[e]) : inbox'[e] = SubSeq(inbox[e], 1, k)

Accepts(e) == accepted' = [accepted EXCEPT ![e] = Append(@, socks[e].nextSeq)]

Arrives(e, m) ==
  /\ m \in Message /\ m.kind # "Receipt"
  /\ (m.kind = "Data" /\ m.seq = socks[e].nextSeq) \/ ~ IsSound(m)
  /\ inbox'[Other(e)] = Append(inbox[Other(e)], m)

SendsTo(e) ==
  /\ inbox' \in [Ends -> Seq(Message)] /\ faults' \in 0 .. MaxFaults
  /\ \/ accepted' = accepted /\ inbox'[Other(e)] = inbox[Other(e)] /\ Shortened(e)
     \/ /\ Accepts(e) /\ inbox'[Other(e)] = inbox[Other(e)] /\ Shortened(e)
        /\ cut \/ closed # {}
     \/ /\ Accepts(e) /\ inbox'[e] = inbox[e]
        /\ ~ cut /\ closed = {} /\ e \notin shut /\ \E m : Arrives(e, m)

LEMMA SendsIs ==
  ASSUME ConnectionInv, NEW e \in Ends, AppSends(e)
  PROVE  /\ Exists(e) /\ socks[e].nextSeq + 1 \in Nums
         /\ SendsTo(e)
<1> DEFINE q == socks[e].nextSeq
           d == Other(e)
<1>1. Exists(e) /\ Held(e, socks[e])
  BY DEF AppSends, AppCalls, ConnectionInv, SocketsInv
<1>2. q \in Nums /\ q + 1 \in Nums
  <2>1. q \in 0 .. MaxSends /\ q <= sends /\ sends < MaxSends /\ sends \in 0 .. MaxSends
    BY <1>1 DEF Held, SocketOK, SocketRecord, AppSends, ConnectionInv, PlainInv
  <2> HIDE DEF q
  <2> QED
    BY <2>1, NumbersOnly DEF Nums
<1>3. /\ inbox \in [Ends -> Seq(Message)] /\ faults \in 0 .. MaxFaults
      /\ closed \subseteq Ends /\ e \notin closed
  BY <1>1 DEF ConnectionInv, PlainInv, BoxesInv, Held
<1>4. d \in Ends /\ d # e /\ \A S \in SUBSET Ends : e \notin S /\ d \notin S => S = {}
  BY TwoEnds
<1>5. CASE UNCHANGED <<inbox, faults, accepted>>
  BY <1>1, <1>2, <1>3, <1>5 DEF SendsTo, Shortened
<1>6. ASSUME e \notin shut,
             NEW taken \in Taken(<<Data(q)>>) \cup
                             (IF MayFail THEN {<<Oversize(q)>>} ELSE {}),
             inbox' \in Carried(e, inbox, taken), Counts(<<Data(q)>>, taken),
             accepted' = IF taken = <<>> THEN accepted
                           ELSE [accepted EXCEPT ![e] = Append(@, q)]
      PROVE  SendsTo(e)
  <2>1. Data(q) \in Message /\ Oversize(q) \in Message /\ Torn \in Message
    BY <1>2 DEF Data, Oversize, Torn, Message
  <2>2. <<Data(q)>> \in Seq(Message) /\ <<Oversize(q)>> \in Seq(Message)
    BY <2>1
  <2>3. /\ taken = <<>> \/ \E m \in {Data(q), Oversize(q), Torn} : taken = <<m>>
        /\ taken # <<Data(q)>> => faults < MaxFaults
    <3>1. CASE faults < MaxFaults /\ taken = <<Oversize(q)>>
      BY <3>1
    <3>2. CASE taken \in Taken(<<Data(q)>>)
      <4> DEFINE ms == <<Data(q)>>
      <4>1. taken = ms \/ (faults < MaxFaults /\ \E n \in 0 .. Len(ms) - 1 :
                             taken \in {SubSeq(ms, 1, n), Append(SubSeq(ms, 1, n), Torn)})
        BY <3>2 DEF Taken, MayFail
      <4>2. Len(ms) = 1 /\ \A n \in 0 .. Len(ms) - 1 : n = 0
        OBVIOUS
      <4>3. SubSeq(ms, 1, 0) = <<>> /\ Append(<<>>, Torn) = <<Torn>>
        BY <2>2
      <4> HIDE DEF ms
      <4>4. taken = ms \/ (faults < MaxFaults /\ (taken = <<>> \/ taken = <<Torn>>))
        BY <4>1, <4>2, <4>3
      <4> QED
        BY <4>4 DEF ms
    <3> QED
      BY <1>6, <3>1, <3>2 DEF MayFail
  <2>4. faults' \in 0 .. MaxFaults
    <3>1. faults' = IF taken = <<Data(q)>> THEN faults ELSE faults + 1
      BY <1>6 DEF Counts
    <3> QED
      BY <1>3, <2>3, <3>1, NumbersOnly
  <2>5. taken \in Seq(Message)
    <3>1. <<>> \in Seq(Message) /\ \A m \in Message : <<m>> \in Seq(Message)
      OBVIOUS
    <3> QED
      BY <2>1, <2>3, <3>1
  <2>6. CarriedTo(e, inbox, taken, inbox')
    BY <1>3, <1>6, <2>5, CarriedIs, Zenon
  <2>7. inbox' \in [Ends -> Seq(Message)]
    BY <2>6 DEF CarriedTo
  <2>8. CASE taken = <<>>
    <3>1. accepted' = accepted
      BY <1>6, <2>8
    <3>2. inbox' = inbox
      BY <1>6, <2>8 DEF Carried
    <3> QED
      BY <2>4, <2>7, <3>1, <3>2 DEF SendsTo, Shortened
  <2>9. ASSUME NEW m \in {Data(q), Oversize(q), Torn}, taken = <<m>> PROVE SendsTo(e)
    <3>1. taken # <<>>
      BY <2>9
    <3>2. Accepts(e)
      BY <1>6, <3>1 DEF Accepts
    <3>3. /\ m \in Message /\ m.kind # "Receipt"
          /\ (m.kind = "Data" /\ m.seq = q) \/ ~ IsSound(m)
      BY <2>1, <2>9 DEF Data, Oversize, Torn, IsSound
    <3>4. CASE inbox' = inbox /\ (cut \/ e \in shut \/ taken = <<>>)
      BY <1>6, <2>4, <2>7, <3>1, <3>2, <3>4 DEF SendsTo, Shortened
    <3>5. CASE /\ closed # {} /\ inbox'[d] = inbox[d]
               /\ \E n \in 0 .. Len(inbox[e]) : inbox'[e] = SubSeq(inbox[e], 1, n)
      BY <2>4, <2>7, <3>2, <3>5 DEF SendsTo, Shortened
    <3>6. CASE /\ ~ cut /\ e \notin shut /\ d \notin closed
               /\ inbox'[e] = inbox[e] /\ inbox'[d] = inbox[d] \o taken
      <4>1. closed = {}
        BY <1>3, <1>4, <3>6
      <4>2. inbox[d] \o taken = Append(inbox[d], m)
        <5>1. inbox[d] \in Seq(Message)
          BY <1>3, <1>4
        <5> HIDE DEF d
        <5> QED
          BY <2>9, <3>3, <5>1
      <4>3. Arrives(e, m)
        BY <3>3, <3>6, <4>2 DEF Arrives
      <4> QED
        BY <2>4, <2>7, <3>2, <3>6, <4>1, <4>3 DEF SendsTo
    <3> QED
      BY <2>6, <3>4, <3>5, <3>6 DEF CarriedTo
  <2> QED
    BY <2>3, <2>8, <2>9
<1> QED
  BY <1>1, <1>2, <1>5, <1>6 DEF AppSends

(* Ids that are larger come last.                                          *)
LEMMA IncreasingAppend ==
  ASSUME NEW ids \in Seq(Nat), NEW q \in Nat, Increasing(ids),
         \A i \in 1 .. Len(ids) : ids[i] < q
  PROVE  /\ Increasing(Append(ids, q))
         /\ \A i \in 1 .. Len(Append(ids, q)) : Append(ids, q)[i] < q + 1
<1> DEFINE a == Append(ids, q)
<1>1. /\ Len(a) = Len(ids) + 1 /\ Len(ids) \in Nat /\ a[Len(ids) + 1] = q
      /\ \A i \in 1 .. Len(ids) : a[i] = ids[i] /\ ids[i] \in Nat
  OBVIOUS
<1> HIDE DEF a
<1>2. ASSUME NEW i \in 1 .. Len(a) PROVE a[i] < q + 1
  BY <1>1
<1>3. ASSUME NEW i \in 1 .. Len(a), NEW j \in 1 .. Len(a), i < j PROVE a[i] < a[j]
  <2>1. i \in 1 .. Len(ids) /\ a[i] = ids[i]
    BY <1>1, <1>3
  <2>2. CASE j = Len(ids) + 1
    BY <1>1, <2>1, <2>2
  <2>3. CASE j # Len(ids) + 1
    <3>1. j \in 1 .. Len(ids) /\ a[j] = ids[j]
      BY <1>1, <2>3
    <3> QED
      BY <1>3, <2>1, <3>1 DEF Increasing
  <2> QED
    BY <2>2, <2>3
<1> QED
  BY <1>2, <1>3 DEF Increasing, a

LEMMA SendsKeep ==
  ASSUME ConnectionInv, NEW e \in Ends, AppSends(e)
  PROVE  ConnectionInv'
<1> DEFINE d == Other(e)
           s == socks[e]
           q == socks[e].nextSeq
<1>1. /\ d \in Ends /\ d # e /\ Other(d) = e /\ \A f \in Ends : f = e \/ f = d
      /\ inbox[e] \in Seq(Message) /\ inbox[d] \in Seq(Message)
      /\ accepted[e] \in Seq(Nat) /\ accepted[d] \in Seq(Nat)
      /\ Ids(e) \in Seq(Nat) /\ Ids(d) \in Seq(Nat)
      /\ broken[e] \in BOOLEAN /\ broken[d] \in BOOLEAN
  BY TwoEnds, TypesAt DEF ConnectionInv
<1>2. /\ inbox \in [Ends -> Seq(Message)] /\ accepted \in [Ends -> Seq(Nums)]
      /\ socks \in [Ends -> SocketRecord \cup {NoSocket}]
      /\ sends \in 0 .. MaxSends
  BY DEF ConnectionInv, PlainInv, BoxesInv, SocketsInv
<1>3. Exists(e) /\ q + 1 \in Nums /\ SendsTo(e)
  BY SendsIs
<1>4. /\ sends < MaxSends /\ sends' = sends + 1
      /\ socks' = [socks EXCEPT ![e].nextSeq = @ + 1]
      /\ dial' = dial /\ dialAge' = dialAge /\ backlog' = backlog /\ checked' = checked
      /\ shut' = shut /\ closed' = closed /\ eof' = eof /\ cut' = cut
      /\ got' = got /\ broken' = broken /\ sinceProcess' = sinceProcess /\ dropped' = dropped
  BY DEF AppSends, dialVars
<1>5. Held(e, s) /\ s \in SocketRecord
  BY <1>3 DEF ConnectionInv, SocketsInv, Held, SocketOK
<1>6. q \in Nat /\ q \in Nums
  BY <1>5, NumbersOnly DEF SocketRecord, Nums
<1>7. socks'[e] = WithNextSeq(s) /\ socks'[d] = socks[d]
  BY <1>1, <1>2, <1>4 DEF WithNextSeq
<1>8. /\ SocketOK(WithNextSeq(s)) /\ WithNextSeq(s).nextSeq = q + 1
      /\ WithNextSeq(s).status = s.status /\ WithNextSeq(s).lastOk = s.lastOk
      /\ WithNextSeq(s).events = s.events
  BY <1>3, <1>5, NextSeqUsed DEF Held
<1>9. Ids(e)' = Ids(e) /\ Ids(d)' = Ids(d) /\ \A f \in Ends : Ids(f)' = Ids(f)
  BY <1>4 DEF Ids
<1>10. /\ inbox' \in [Ends -> Seq(Message)] /\ faults' \in 0 .. MaxFaults
       /\ \/ accepted' = accepted
          \/ accepted' = [accepted EXCEPT ![e] = Append(accepted[e], q)]
  BY <1>3 DEF SendsTo, Accepts
<1>11. /\ accepted'[d] = accepted[d]
       /\ accepted'[e] = accepted[e] \/ accepted'[e] = Append(accepted[e], q)
  BY <1>1, <1>2, <1>10
<1>12. PlainInv'
  <2>1. sends' \in 0 .. MaxSends
    BY <1>2, <1>4, NumbersOnly
  <2> QED
    BY <1>4, <1>10, <2>1 DEF ConnectionInv, PlainInv
<1>13. BoxesInv'
  <2>1. Append(accepted[e], q) \in Seq(Nums)
    BY <1>2, <1>6
  <2>2. accepted' \in [Ends -> Seq(Nums)]
    BY <1>2, <1>10, <2>1
  <2> QED
    BY <1>4, <1>10, <2>2 DEF ConnectionInv, BoxesInv
<1>14. LifeInv'
  <2>1. e = "server" => dial = "Ok" /\ ~ backlog
    BY <1>3 DEF ConnectionInv, LifeInv
  <2>2. Exists("server")' <=> Exists("server")
    <3>1. CASE e = "server"
      <4>1. socks'["server"] # NoSocket
        BY <1>7, <1>8, <3>1, SocketsExist
      <4> QED
        BY <1>3, <3>1, <4>1 DEF Exists
    <3>2. CASE e # "server"
      <4>1. d = "server"
        BY <3>2 DEF Ends, Other
      <4> QED
        BY <1>7, <4>1 DEF Exists
    <3> QED
      BY <3>1, <3>2
  <2>3. e # "server" => accepted'["server"] = accepted["server"]
    <3>1. e # "server" => d = "server"
      BY DEF Ends, Other
    <3> QED
      BY <1>11, <3>1
  <2> QED
    BY <1>4, <2>1, <2>2, <2>3 DEF ConnectionInv, LifeInv
<1>15. Shortened(e)
  BY <1>3 DEF SendsTo, Shortened
<1> HIDE DEF d, s, q
<1>16. Held(e, socks[e])'
  <2>1. \A i \in 1 .. Len(accepted'[e]) : accepted'[e][i] < q + 1
    <3>1. \A i \in 1 .. Len(accepted[e]) : accepted[e][i] < q
      BY <1>5 DEF Held, q, s
    <3>2. CASE accepted'[e] = accepted[e]
      <4>1. \A i \in 1 .. Len(accepted[e]) : accepted[e][i] \in Nat
        BY <1>1
      <4> QED
        BY <1>6, <3>1, <3>2, <4>1
    <3>3. CASE accepted'[e] = Append(accepted[e], q)
      <4>1. Increasing(accepted[e])
        BY DEF ConnectionInv, StreamInv, OrderInv
      <4>2. \A i \in 1 .. Len(Append(accepted[e], q)) : Append(accepted[e], q)[i] < q + 1
        BY <1>1, <1>6, <3>1, <4>1, IncreasingAppend
      <4> QED
        BY <3>3, <4>2
    <3> QED
      BY <1>11, <3>2, <3>3
  <2>2. ASSUME s.status = "RemoteEnded", closed = {}, ~ cut
        PROVE  e \in eof /\ inbox'[e] = <<>>
    BY <1>5, <1>15, <2>2 DEF Held, Shortened
  <2>3. q + 1 <= sends + 1
    <3>1. q <= sends
      BY <1>5 DEF Held, q, s
    <3> QED
      BY <1>2, <1>6, <3>1
  <2>4. Ids(Other(e))' = Ids(Other(e))
    BY <1>9 DEF d
  <2> QED
    BY <1>4, <1>5, <1>7, <1>8, <2>1, <2>2, <2>3, <2>4 DEF Held
<1>17. ASSUME Exists(d) PROVE Held(d, socks[d])'
  <2>1. Held(d, socks[d])
    BY <1>1, <1>17 DEF ConnectionInv, SocketsInv
  <2>2. ASSUME socks[d].status = "RemoteEnded", closed = {}, ~ cut
        PROVE  d \in eof /\ inbox'[d] = <<>>
    <3>1. d \in eof /\ inbox[d] = <<>>
      BY <2>1, <2>2 DEF Held
    <3>2. e \in shut
      BY <1>1, <2>2, <3>1 DEF ConnectionInv, StreamInv, EofInv
    <3> QED
      BY <1>3, <2>2, <3>1, <3>2 DEF SendsTo, d
  <2>3. socks[d].nextSeq <= sends + 1
    <3>1. socks[d].nextSeq <= sends /\ socks[d].nextSeq \in Nat
      BY <2>1 DEF Held, SocketOK, SocketRecord
    <3> QED
      BY <1>2, <3>1
  <2>4. Ids(Other(d))' = Ids(Other(d))
    BY <1>1, <1>9
  <2> QED
    BY <1>4, <1>7, <1>11, <2>1, <2>2, <2>3, <2>4 DEF Held
<1>18. SocketsInv'
  <2>1. socks' \in [Ends -> SocketRecord \cup {NoSocket}]
    <3>1. WithNextSeq(s) \in SocketRecord
      BY <1>8 DEF SocketOK
    <3>2. socks' = [socks EXCEPT ![e] = WithNextSeq(s)]
      BY <1>4 DEF WithNextSeq, s
    <3> QED
      BY <1>2, <3>1, <3>2
  <2>2. ASSUME NEW f \in Ends, socks'[f] # NoSocket PROVE Held(f, socks[f])'
    <3>1. CASE f = e
      BY <1>16, <3>1
    <3>2. CASE f = d
      <4>1. Exists(d)
        BY <1>7, <2>2, <3>2 DEF Exists
      <4> QED
        BY <1>17, <3>2, <4>1
    <3> QED
      BY <1>1, <3>1, <3>2
  <2> QED
    BY <2>1, <2>2 DEF SocketsInv, Exists

<1>19. FlowInv'
  <2>1. ASSUME ~ broken[e]
        PROVE  /\ Flows(Ids(e), inbox'[e], accepted[d])
               /\ ~ cut /\ closed = {} => Whole(Ids(e), inbox'[e], accepted[d])
    <3>1. /\ Flows(Ids(e), inbox[e], accepted[d])
          /\ ~ cut /\ closed = {} => Whole(Ids(e), inbox[e], accepted[d])
      BY <2>1 DEF ConnectionInv, StreamInv, FlowInv, d
    <3>2. CASE inbox'[e] = inbox[e]
      BY <3>1, <3>2
    <3>3. ASSUME closed # {}, NEW k \in 0 .. Len(inbox[e]), inbox'[e] = SubSeq(inbox[e], 1, k)
          PROVE  Flows(Ids(e), inbox'[e], accepted[d])
      BY <1>1, <3>1, <3>3, FlowsShorter
    <3> QED
      BY <1>15, <3>2, <3>3 DEF Shortened
  <2>2. ASSUME ~ broken[d]
        PROVE  /\ Flows(Ids(d), inbox'[d], accepted'[e])
               /\ ~ cut /\ closed = {} => Whole(Ids(d), inbox'[d], accepted'[e])
    <3>1. /\ Flows(Ids(d), inbox[d], accepted[e])
          /\ ~ cut /\ closed = {} => Whole(Ids(d), inbox[d], accepted[e])
      BY <1>1, <2>2 DEF ConnectionInv, StreamInv, FlowInv
    <3>2. Flows(Ids(d), inbox[d], Append(accepted[e], q))
      BY <1>1, <1>6, <3>1, FlowsLater
    <3>3. Accepts(e) => accepted'[e] = Append(accepted[e], q)
      BY <1>2 DEF Accepts, q
    <3>4. CASE accepted' = accepted /\ inbox'[d] = inbox[d]
      BY <3>1, <3>4
    <3>5. CASE Accepts(e) /\ inbox'[d] = inbox[d] /\ (cut \/ closed # {})
      BY <3>2, <3>3, <3>5
    <3>6. ASSUME Accepts(e), ~ cut, closed = {}, NEW m, Arrives(e, m)
          PROVE  /\ Flows(Ids(d), inbox'[d], accepted'[e])
                 /\ Whole(Ids(d), inbox'[d], accepted'[e])
      <4>1. /\ m \in Message /\ ((m.kind = "Data" /\ m.seq = q) \/ ~ IsSound(m))
            /\ inbox'[d] = Append(inbox[d], m)
        BY <3>6 DEF Arrives, d, q
      <4>2. Whole(Ids(d), inbox[d], accepted[e])
        BY <3>1, <3>6
      <4>3. /\ Flows(Ids(d), Append(inbox[d], m), Append(accepted[e], q))
            /\ Whole(Ids(d), Append(inbox[d], m), Append(accepted[e], q))
        BY <1>1, <1>6, <3>1, <4>1, <4>2, FlowsSent
      <4> QED
        BY <3>3, <3>6, <4>1, <4>3
    <3> QED
      BY <1>3, <3>4, <3>5, <3>6 DEF SendsTo, d
  <2>3. ASSUME NEW f \in Ends, ~ broken[f]
        PROVE  /\ Flows(Ids(f), inbox'[f], accepted'[Other(f)])
               /\ ~ cut /\ closed = {} => Whole(Ids(f), inbox'[f], accepted'[Other(f)])
    <3>1. CASE f = e
      BY <1>11, <2>1, <2>3, <3>1 DEF d
    <3>2. CASE f = d
      BY <1>1, <2>2, <2>3, <3>2
    <3> QED
      BY <1>1, <3>1, <3>2
  <2> QED
    BY <1>4, <1>9, <2>3 DEF FlowInv
<1>20. ReceiptsInv'
  <2>1. OnlyReceipts(inbox[e], Ids(d)) /\ OnlyReceipts(inbox[d], Ids(e))
    BY <1>1 DEF ConnectionInv, StreamInv, ReceiptsInv, d
  <2>2. OnlyReceipts(inbox'[e], Ids(d))
    <3>1. CASE inbox'[e] = inbox[e]
      BY <2>1, <3>1
    <3>2. ASSUME NEW k \in 0 .. Len(inbox[e]), inbox'[e] = SubSeq(inbox[e], 1, k)
          PROVE  OnlyReceipts(inbox'[e], Ids(d))
      <4>1. 0 \in Nat /\ 0 + 1 = 1
        OBVIOUS
      <4>2. OnlyReceipts(SubSeq(inbox[e], 0 + 1, k), Ids(d))
        BY <1>1, <2>1, <3>2, <4>1, ReceiptsPart, Zenon
      <4> QED
        BY <3>2, <4>2
    <3> QED
      BY <1>15, <3>1, <3>2 DEF Shortened
  <2>3. OnlyReceipts(inbox'[d], Ids(e))
    <3>1. CASE inbox'[d] = inbox[d]
      BY <2>1, <3>1
    <3>2. ASSUME NEW m, Arrives(e, m) PROVE OnlyReceipts(inbox'[d], Ids(e))
      <4>1. m \in Message /\ m.kind # "Receipt" /\ inbox'[d] = Append(inbox[d], m)
        BY <3>2 DEF Arrives, d
      <4> DEFINE b == inbox'[d]
      <4>2. /\ Len(b) = Len(inbox[d]) + 1 /\ Len(inbox[d]) \in Nat
            /\ b[Len(inbox[d]) + 1] = m
            /\ \A i \in 1 .. Len(inbox[d]) : b[i] = inbox[d][i]
        BY <1>1, <4>1
      <4> HIDE DEF b
      <4>3. OnlyReceipts(b, Ids(e))
        BY <2>1, <4>1, <4>2 DEF OnlyReceipts
      <4> QED
        BY <4>3 DEF b
    <3> QED
      BY <1>3, <3>1, <3>2 DEF SendsTo, d
  <2>4. ASSUME NEW f \in Ends PROVE OnlyReceipts(inbox'[f], Ids(Other(f)))
    <3>1. CASE f = e
      BY <2>2, <3>1 DEF d
    <3>2. CASE f = d
      BY <1>1, <2>3, <3>2
    <3> QED
      BY <1>1, <3>1, <3>2
  <2> QED
    BY <1>9, <2>4, TwoEnds DEF ReceiptsInv
<1>21. OrderInv'
  <2>1. Increasing(accepted[e]) /\ Increasing(accepted[d])
    BY <1>1 DEF ConnectionInv, StreamInv, OrderInv
  <2>2. \A i \in 1 .. Len(accepted[e]) : accepted[e][i] < q
    BY <1>5 DEF Held, q, s
  <2>3. Increasing(Append(accepted[e], q))
    BY <1>1, <1>6, <2>1, <2>2, IncreasingAppend
  <2>4. \A f \in Ends : Increasing(accepted'[f])
    BY <1>1, <1>11, <2>1, <2>3
  <2> QED
    BY <2>4 DEF OrderInv
<1>22. EofInv'
  BY <1>4 DEF ConnectionInv, StreamInv, EofInv
<1> QED
  BY <1>12, <1>13, <1>14, <1>18, <1>19, <1>20, <1>21, <1>22 DEF ConnectionInv, StreamInv

-----------------------------------------------------------------------------
(* The actions.                                                            *)

(* What process() does not depend on, and leaves of the other end.         *)
LEMMA ProcessesPlain ==
  ASSUME ConnectionInv, NEW e \in Ends, NEW s, Processes(e, s)
  PROVE  /\ broken' \in [Ends -> BOOLEAN] /\ faults' \in 0 .. MaxFaults
         /\ sinceProcess' \in [Ends -> 0 .. MaxIdle]
         /\ UNCHANGED <<shut, closed, eof, cut, dial, dialAge, sends, ends, accepted, dropped>>
         /\ \A d \in Ends : d # e =>
              got'[d] = got[d] /\ broken'[d] = broken[d] /\ socks'[d] = socks[d]
<1>1. inbox[e] \in Seq(Message) /\ Len(inbox[e]) \in Nat /\ broken[e] \in BOOLEAN
  BY TypesAt DEF ConnectionInv
<1>2. PICK n, results, end, taken : ProcessesTo(e, s, n, results, end, taken)
  BY <1>1, ProcessesIs
<1> DEFINE ms == SubSeq(inbox[e], 1, n)
           w == Written(s, results)
<1>3. /\ n \in 0 .. Len(inbox[e]) /\ results \in Readings(e, ms) /\ taken \in Taken(w)
      /\ socks' = [socks EXCEPT ![e] = Processed(s, results, end)]
      /\ got' = [got EXCEPT ![e] = DataOf(socks'[e].events)]
      /\ broken' = [broken EXCEPT ![e] = Breaks(e, ms)]
      /\ Counts(w, taken)
      /\ sinceProcess' = [sinceProcess EXCEPT ![e] = 0]
      /\ UNCHANGED <<shut, closed, eof, cut, dial, dialAge, sends, ends, accepted, dropped>>
  BY <1>2 DEF ProcessesTo
<1>4. /\ broken \in [Ends -> BOOLEAN] /\ faults \in 0 .. MaxFaults
      /\ sinceProcess \in [Ends -> 0 .. MaxIdle] /\ got \in [Ends -> Seq(Datas(Event))]
      /\ socks \in [Ends -> SocketRecord \cup {NoSocket}]
  BY DEF ConnectionInv, PlainInv, BoxesInv, SocketsInv
<1>5. ms \in Seq(Message)
  BY <1>1, <1>3
<1> HIDE DEF ms
<1>6. results \in Seq(Result) /\ Breaks(e, ms) \in BOOLEAN
  BY <1>1, <1>3, <1>5, ReadingsAre
<1>7. broken' \in [Ends -> BOOLEAN]
  BY <1>3, <1>4, <1>6
<1>8. faults' \in 0 .. MaxFaults
  <2>1. w \in Seq(Message)
    BY <1>6, WrittenIs
  <2> HIDE DEF w
  <2>2. taken # w => faults < MaxFaults
    BY <1>3, <1>4, <2>1, TakenIs
  <2> QED
    BY <1>3, <1>4, <2>2, NumbersOnly DEF Counts
<1>9. sinceProcess' \in [Ends -> 0 .. MaxIdle]
  BY <1>3, <1>4, NumbersOnly
<1>10. \A d \in Ends : d # e =>
         got'[d] = got[d] /\ broken'[d] = broken[d] /\ socks'[d] = socks[d]
  BY <1>3, <1>4
<1> QED
  BY <1>3, <1>7, <1>8, <1>9, <1>10

(* process(), in whichever action.                                         *)
LEMMA ProcessKeepsAll ==
  ASSUME ConnectionInv, NEW e \in Ends, NEW s, Held(e, s), Processes(e, s),
         checked' \in BOOLEAN,
         \/ e = "client" /\ backlog' = backlog
         \/ e = "server" /\ backlog' = FALSE /\ dial = "Ok"
  PROVE  ConnectionInv'
<1>1. Len(inbox[e]) \in Nat
  BY TypesAt DEF ConnectionInv
<1>2. BoxesInv' /\ SocketsInv' /\ StreamInv'
  <2>1. PICK n, results, end, taken : ProcessesTo(e, s, n, results, end, taken)
    BY <1>1, ProcessesIs
  <2> QED
    BY <2>1, ProcessesKeep
<1>3. /\ broken' \in [Ends -> BOOLEAN] /\ faults' \in 0 .. MaxFaults
      /\ sinceProcess' \in [Ends -> 0 .. MaxIdle]
      /\ UNCHANGED <<shut, closed, eof, cut, dial, dialAge, sends, ends, accepted, dropped>>
      /\ \A d \in Ends : d # e =>
           got'[d] = got[d] /\ broken'[d] = broken[d] /\ socks'[d] = socks[d]
  BY ProcessesPlain
<1>4. PlainInv'
  <2>1. backlog' \in BOOLEAN
    BY DEF ConnectionInv, PlainInv
  <2> QED
    BY <1>3, <2>1 DEF ConnectionInv, PlainInv
<1>5. LifeInv'
  <2>1. CASE e = "client" /\ backlog' = backlog
    <3>1. /\ got'["server"] = got["server"] /\ broken'["server"] = broken["server"]
          /\ socks'["server"] = socks["server"]
      BY <1>3, <2>1 DEF Ends
    <3> QED
      BY <1>3, <2>1, <3>1 DEF ConnectionInv, LifeInv, Exists
  <2>2. CASE e = "server" /\ backlog' = FALSE /\ dial = "Ok"
    BY <1>3, <2>2 DEF LifeInv
  <2> QED
    BY <2>1, <2>2
<1> QED
  BY <1>2, <1>4, <1>5 DEF ConnectionInv

(* The listener's new socket.                                              *)
LEMMA AcceptedIsHeld ==
  ASSUME ConnectionInv, backlog
  PROVE  Held("server", NewSocket("Connected", <<StatusEvent("Connected")>>))
<1> DEFINE v == StatusEvent("Connected")
           evs == <<v>>
           s == NewSocket("Connected", evs)
<1>1. v \in Event /\ v.kind = "Status"
  BY DEF StatusEvent, Event, Statuses
<1>2. evs \in Seq(Event) /\ Len(evs) = 1 /\ evs[1] = v
  BY <1>1
<1>3. DataOf(evs) = <<>>
  <2>1. <<>> \in Seq(Event) /\ evs = Append(<<>>, v)
    BY <1>1
  <2>2. v.kind # "Data"
    BY <1>1
  <2> HIDE DEF v, evs
  <2> QED
    BY <1>1, <2>1, <2>2, DataOfAppend, IdsOfNone
<1> HIDE DEF evs
<1>4. s = [status |-> "Connected", recvAge |-> 0, sentAge |-> 0, nextSeq |-> 0, lastOk |-> {},
           events |-> evs, drained |-> 0]
  BY DEF NewSocket
<1> HIDE DEF s
<1>5. s \in SocketRecord
  BY <1>2, <1>4, NumbersOnly DEF SocketRecord, Statuses
<1>6. Announced(s)
  <2>1. \A j \in 1 + 1 .. Len(evs) : evs[j].kind # "Status"
    BY <1>2
  <2>2. 1 \in 1 .. Len(evs) /\ s.events = evs /\ evs[1] = StatusEvent(s.status)
    BY <1>2, <1>4
  <2> QED
    BY <2>1, <2>2 DEF Announced
<1>7. SocketOK(s)
  BY <1>2, <1>4, <1>5, <1>6 DEF SocketOK
<1>8. /\ "server" \in Ends /\ "server" \notin closed
      /\ got["server"] = <<>> /\ accepted["server"] = <<>> /\ ~ broken["server"] /\ sends \in Nat
  BY DEF ConnectionInv, LifeInv, PlainInv, Ends
<1>9. Held("server", s)
  BY <1>3, <1>4, <1>7, <1>8 DEF Held
<1> QED
  BY <1>9 DEF s, evs

(* The three calls of process().                                           *)
LEMMA ProcessStepsKeep ==
  ASSUME ConnectionInv, ClientProcesses \/ ListenerAccepts \/ ListenerProcesses
  PROVE  ConnectionInv'
<1>1. "client" \in Ends /\ "server" \in Ends
  BY DEF Ends
<1>2. CASE ClientProcesses
  <2>1. /\ Held("client", socks["client"]) /\ Processes("client", socks["client"])
        /\ checked' = FALSE /\ backlog' = backlog
    BY <1>1, <1>2 DEF ClientProcesses, ConnectionInv, SocketsInv
  <2> QED
    BY <1>1, <2>1, ProcessKeepsAll
<1>3. CASE ListenerAccepts
  <2> DEFINE s == NewSocket("Connected", <<StatusEvent("Connected")>>)
  <2>1. backlog /\ backlog' = FALSE /\ Processes("server", s) /\ checked' = checked
    BY <1>3 DEF ListenerAccepts
  <2>2. Held("server", s) /\ dial = "Ok" /\ checked \in BOOLEAN
    BY <2>1, AcceptedIsHeld DEF ConnectionInv, LifeInv, PlainInv
  <2> HIDE DEF s
  <2> QED
    BY <1>1, <2>1, <2>2, ProcessKeepsAll
<1>4. CASE ListenerProcesses
  <2>1. /\ Held("server", socks["server"]) /\ Processes("server", socks["server"])
        /\ checked' = checked /\ backlog' = backlog /\ Exists("server")
    BY <1>1, <1>4 DEF ListenerProcesses, ConnectionInv, SocketsInv
  <2>2. dial = "Ok" /\ backlog = FALSE /\ checked \in BOOLEAN
    BY <2>1 DEF ConnectionInv, LifeInv, PlainInv
  <2> QED
    BY <1>1, <2>1, <2>2, ProcessKeepsAll
<1> QED
  BY <1>2, <1>3, <1>4

(* A stream is closed.                                                     *)
LEMMA ClosesIs ==
  ASSUME ConnectionInv, NEW e \in Ends, Closes(e)
  PROVE  /\ inbox' \in [Ends -> Seq(Message)]
         /\ \A d \in Ends : \E n \in 0 .. Len(inbox[d]) : inbox'[d] = SubSeq(inbox[d], 1, n)
         /\ closed' = closed \cup {e} /\ closed' \subseteq Ends /\ eof' \subseteq Ends
<1>1. closed' = closed \cup {e} /\ closed \subseteq Ends /\ eof \subseteq Ends
  BY DEF Closes, ConnectionInv, PlainInv
<1>2. eof' \subseteq Ends
  BY <1>1, TwoEnds DEF Closes, EndsStreamOf
<1>3. PICK n \in 0 .. Len(inbox[Other(e)]) :
        inbox' = [d \in Ends |-> IF d = e THEN <<>> ELSE SubSeq(inbox[Other(e)], 1, n)]
  BY DEF Closes
<1>4. inbox[e] \in Seq(Message) /\ inbox[Other(e)] \in Seq(Message)
  BY TwoEnds, TypesAt DEF ConnectionInv
<1>5. SubSeq(inbox[Other(e)], 1, n) \in Seq(Message) /\ <<>> \in Seq(Message)
  BY <1>3, <1>4
<1>6. 0 \in 0 .. Len(inbox[e]) /\ SubSeq(inbox[e], 1, 0) = <<>>
  BY <1>4
<1>7. inbox' \in [Ends -> Seq(Message)]
  BY <1>3, <1>5
<1>8. inbox'[e] = SubSeq(inbox[e], 1, 0) /\ inbox'[Other(e)] = SubSeq(inbox[Other(e)], 1, n)
  BY <1>3, <1>6, TwoEnds
<1> QED
  BY <1>1, <1>2, <1>3, <1>6, <1>7, <1>8, TwoEnds

(* A socket that does not change.                                          *)
LEMMA SameKept ==
  ASSUME ConnectionInv, NEW e \in Ends, socks'[e] = socks[e], Exists(e) => e \notin closed'
  PROVE  SocketKept(e)
BY DEF SocketKept, Exists, ConnectionInv, SocketsInv, Held

(* A status that is set.                                                   *)
LEMMA StatusKept ==
  ASSUME ConnectionInv, NEW e \in Ends, Exists(e), e \notin closed',
         NEW status \in Statuses \ {"Connecting", "RemoteEnded"},
         socks'[e] = SetStatus(socks[e], status)
  PROVE  SocketKept(e)
<1>1. Held(e, socks[e])
  BY DEF ConnectionInv, SocketsInv
<1>2. /\ SameSocket(socks[e], socks'[e]) /\ socks'[e].lastOk = socks[e].lastOk
      /\ socks'[e].status \in {socks[e].status, status}
      /\ DataOf(socks'[e].events) = DataOf(socks[e].events)
  BY <1>1, StatusSet DEF Held
<1> QED
  BY <1>1, <1>2 DEF SocketKept, SameSocket, Held

(* Events that are taken.                                                  *)
WithDrained(s, n) == [s EXCEPT !.drained = n]

LEMMA DrainedIs ==
  ASSUME NEW s, SocketOK(s)
  PROVE  LET t == WithDrained(s, Len(s.events))
         IN  /\ SocketOK(t) /\ t.nextSeq = s.nextSeq /\ t.lastOk = s.lastOk
             /\ t.events = s.events /\ t.status = s.status
<1> DEFINE n == Len(s.events)
           t == WithDrained(s, n)
<1>1. s \in SocketRecord /\ n \in Nat
  BY DEF SocketOK, SocketRecord
<1>2. t = [status |-> s.status, recvAge |-> s.recvAge, sentAge |-> s.sentAge,
           nextSeq |-> s.nextSeq, lastOk |-> s.lastOk, events |-> s.events, drained |-> n]
  <2>1. t = [s EXCEPT !.drained = n]
    BY DEF WithDrained
  <2> HIDE DEF n
  <2> QED
    BY <1>1, <2>1 DEF SocketRecord
<1> HIDE DEF t
<1>3. t \in SocketRecord
  <2> HIDE DEF n
  <2> QED
    BY <1>1, <1>2 DEF SocketRecord
<1>4. SocketOK(t)
  BY <1>1, <1>2, <1>3 DEF SocketOK, Announced
<1>5. t.nextSeq = s.nextSeq /\ t.lastOk = s.lastOk /\ t.events = s.events /\ t.status = s.status
  BY <1>2
<1> QED
  BY <1>4, <1>5 DEF t, n

(* The listener's socket is not made by a quiet step.                      *)
LEMMA QuietLife ==
  ASSUME ConnectionInv, Quiet, dial' = dial, backlog' = backlog, closed' = closed
  PROVE  LifeInv'
<1>1. SocketKept("server")
  BY DEF Quiet, Ends
<1>2. Exists("server")' => Exists("server")
  BY <1>1 DEF SocketKept, Exists
<1> QED
  BY <1>2 DEF ConnectionInv, LifeInv, Quiet

(* The network fails.                                                      *)
LEMMA CutKeeps ==
  ASSUME ConnectionInv, Cut
  PROVE  ConnectionInv'
<1>1. /\ cut' = TRUE /\ socks' = socks /\ accepted' = accepted /\ got' = got
      /\ broken' = broken /\ sends' = sends /\ dial' = dial /\ dialAge' = dialAge
      /\ backlog' = backlog /\ checked' = checked /\ shut' = shut /\ closed' = closed
      /\ faults' = faults /\ sinceProcess' = sinceProcess /\ dropped' = dropped
  BY DEF Cut, dialVars, history
<1>2. PICK lost \in SUBSET Ends :
        /\ inbox' = [e \in Ends |-> IF e \in lost THEN <<>> ELSE inbox[e]]
        /\ eof' = eof \ lost
  BY DEF Cut
<1>3. inbox \in [Ends -> Seq(Message)] /\ socks \in [Ends -> SocketRecord \cup {NoSocket}]
  BY DEF ConnectionInv, BoxesInv, SocketsInv
<1>4. inbox' \in [Ends -> Seq(Message)]
  <2>1. <<>> \in Seq(Message)
    OBVIOUS
  <2> QED
    BY <1>2, <1>3, <2>1
<1>5. ASSUME NEW e \in Ends
      PROVE  \E n \in 0 .. Len(inbox[e]) : inbox'[e] = SubSeq(inbox[e], 1, n)
  <2> DEFINE b == inbox[e]
  <2>1. b \in Seq(Message)
    BY <1>3
  <2>2. inbox'[e] = <<>> \/ inbox'[e] = b
    BY <1>2
  <2> HIDE DEF b
  <2>3. 0 \in 0 .. Len(b) /\ SubSeq(b, 1, 0) = <<>>
    BY <2>1
  <2>4. Len(b) \in 0 .. Len(b) /\ SubSeq(b, 1, Len(b)) = b
    BY <2>1
  <2> QED
    BY <2>2, <2>3, <2>4 DEF b
<1>6. \A e \in Ends : SocketKept(e)
  <2>1. \A e \in Ends : Exists(e) => e \notin closed'
    BY <1>1 DEF ConnectionInv, SocketsInv, Held
  <2> QED
    BY <1>1, <2>1, SameKept
<1>7. Quiet
  BY <1>1, <1>3, <1>4, <1>5, <1>6 DEF Quiet
<1>8. PlainInv' /\ EofInv'
  BY <1>1, <1>2 DEF ConnectionInv, PlainInv, EofInv
<1> QED
  BY <1>1, <1>7, <1>8, QuietLife, QuietSockets, QuietStream DEF ConnectionInv, StreamInv

(* A step that leaves the data and the streams alone.                      *)
LEMMA SocketsOnly ==
  ASSUME ConnectionInv, UNCHANGED <<accepted, got, broken, sends, inbox, cut, closed, dial, backlog>>,
         eof \subseteq eof', \A e \in Ends : SocketKept(e),
         socks' \in [Ends -> SocketRecord \cup {NoSocket}],
         PlainInv', EofInv'
  PROVE  ConnectionInv'
<1>1. inbox \in [Ends -> Seq(Message)]
  BY DEF ConnectionInv, BoxesInv
<1>2. ASSUME NEW e \in Ends
      PROVE  \E n \in 0 .. Len(inbox[e]) : inbox'[e] = SubSeq(inbox[e], 1, n)
  <2> DEFINE b == inbox[e]
  <2>1. b \in Seq(Message)
    BY <1>1
  <2> HIDE DEF b
  <2>2. Len(b) \in 0 .. Len(b) /\ SubSeq(b, 1, Len(b)) = b
    BY <2>1
  <2> QED
    BY <2>2 DEF b
<1>3. Quiet
  BY <1>1, <1>2 DEF Quiet
<1> QED
  BY <1>3, QuietLife, QuietSockets, QuietStream DEF ConnectionInv, StreamInv

(* A step that changes one socket only.                                    *)
LEMMA OneSocketOnly ==
  ASSUME ConnectionInv, NEW e \in Ends, NEW s, socks' = [socks EXCEPT ![e] = s],
         Exists(e), SocketKept(e), closed' = closed
  PROVE  /\ \A d \in Ends : SocketKept(d)
         /\ socks' \in [Ends -> SocketRecord \cup {NoSocket}]
<1>1. socks \in [Ends -> SocketRecord \cup {NoSocket}]
  BY DEF ConnectionInv, SocketsInv
<1>2. socks'[e] = s /\ \A d \in Ends : d # e => socks'[d] = socks[d]
  BY <1>1
<1>3. s \in SocketRecord \cup {NoSocket}
  BY <1>2 DEF SocketKept, SocketOK
<1>4. \A d \in Ends : d # e => SocketKept(d)
  BY <1>2, SameKept DEF ConnectionInv, SocketsInv, Held
<1> QED
  BY <1>1, <1>3, <1>4

(* The client looks at dial.                                               *)
LEMMA ChecksKeeps ==
  ASSUME ConnectionInv, ClientChecksDial
  PROVE  ConnectionInv'
<1> DEFINE e == "client"
<1>1. /\ checked' = TRUE /\ accepted' = accepted /\ got' = got
      /\ broken' = broken /\ sends' = sends /\ dial' = dial /\ dialAge' = dialAge
      /\ backlog' = backlog /\ shut' = shut /\ closed' = closed /\ eof' = eof /\ cut' = cut
      /\ inbox' = inbox
      /\ faults' = faults /\ sinceProcess' = sinceProcess /\ dropped' = dropped
  BY DEF ClientChecksDial, dialVars, tcpVars, history
<1>2. e \in Ends /\ Exists(e) /\ socks' = [socks EXCEPT ![e] = UpdatedConnecting(socks[e])]
  BY DEF ClientChecksDial, Ends
<1>3. socks'[e] = UpdatedConnecting(socks[e]) /\ e \notin closed'
  BY <1>1, <1>2 DEF ConnectionInv, SocketsInv, Held
<1> HIDE DEF e
<1>4. SocketKept(e)
  <2>1. CASE dial = "Trying"
    BY <1>2, <1>3, <2>1, SameKept DEF UpdatedConnecting
  <2>2. ASSUME NEW status \in {"Connected", "Timeout", "Error"},
               UpdatedConnecting(socks[e]) = SetStatus(socks[e], status)
        PROVE  SocketKept(e)
    BY <1>2, <1>3, <2>2, StatusKept DEF Statuses
  <2>3. CASE dial = "Ok"
    BY <2>2, <2>3 DEF UpdatedConnecting
  <2>4. CASE dial = "TimedOut"
    BY <2>2, <2>4 DEF UpdatedConnecting
  <2>5. CASE dial = "Failed"
    BY <2>2, <2>5 DEF UpdatedConnecting
  <2> QED
    BY <2>1, <2>3, <2>4, <2>5 DEF ConnectionInv, PlainInv, Dialed
<1>5. PlainInv' /\ EofInv'
  BY <1>1 DEF ConnectionInv, StreamInv, PlainInv, EofInv
<1> QED
  BY <1>1, <1>2, <1>4, <1>5, OneSocketOnly, SocketsOnly

(* send_end.                                                               *)
LEMMA EndsKeeps ==
  ASSUME ConnectionInv, NEW e \in Ends, AppEnds(e)
  PROVE  ConnectionInv'
<1>1. /\ checked' = checked /\ accepted' = accepted /\ got' = got
      /\ broken' = broken /\ sends' = sends /\ dial' = dial /\ dialAge' = dialAge
      /\ backlog' = backlog /\ closed' = closed /\ cut' = cut
      /\ inbox' = inbox
      /\ faults' = faults /\ sinceProcess' = sinceProcess /\ dropped' = dropped
      /\ \/ shut' = shut \cup {e} /\ EndsStreamOf(e)
         \/ shut' = shut /\ eof' = eof
  BY DEF AppEnds, dialVars, history
<1>2. Exists(e) /\ socks' = [socks EXCEPT ![e] = SetStatus(socks[e], "LocalEnded")]
  BY DEF AppEnds, AppCalls
<1>3. socks'[e] = SetStatus(socks[e], "LocalEnded") /\ e \notin closed'
  BY <1>1, <1>2 DEF ConnectionInv, SocketsInv, Held
<1>4. SocketKept(e)
  <2>1. "LocalEnded" \in Statuses \ {"Connecting", "RemoteEnded"}
    BY DEF Statuses
  <2> QED
    BY <1>2, <1>3, <2>1, StatusKept
<1>5. eof \subseteq eof' /\ eof' \subseteq eof \cup {Other(e)} /\ shut \subseteq shut'
      /\ (eof' = eof \/ e \in shut') /\ shut' \subseteq shut \cup {e}
  BY <1>1 DEF EndsStreamOf
<1>6. PlainInv'
  BY <1>1, <1>5, TwoEnds DEF ConnectionInv, PlainInv
<1>7. EofInv'
  BY <1>1, <1>5, TwoEnds DEF ConnectionInv, StreamInv, EofInv
<1> QED
  BY <1>1, <1>2, <1>4, <1>5, <1>6, <1>7, OneSocketOnly, SocketsOnly

(* The listener's application takes the events.                            *)
LEMMA DrainsKeeps ==
  ASSUME ConnectionInv, AppDrains
  PROVE  ConnectionInv'
<1> DEFINE e == "server"
<1>1. /\ checked' = checked /\ accepted' = accepted /\ got' = got
      /\ broken' = broken /\ sends' = sends /\ dial' = dial /\ dialAge' = dialAge
      /\ backlog' = backlog /\ shut' = shut /\ closed' = closed /\ eof' = eof /\ cut' = cut
      /\ inbox' = inbox
      /\ faults' = faults /\ sinceProcess' = sinceProcess /\ dropped' = dropped
  BY DEF AppDrains, dialVars, tcpVars, history
<1>2. /\ e \in Ends /\ Exists(e)
      /\ socks' = [socks EXCEPT ![e] = WithDrained(socks[e], Len(socks[e].events))]
  BY DEF AppDrains, Ends, WithDrained
<1> HIDE DEF e
<1>3. Held(e, socks[e])
  BY <1>2 DEF ConnectionInv, SocketsInv
<1>4. socks'[e] = WithDrained(socks[e], Len(socks[e].events))
  BY <1>2 DEF ConnectionInv, SocketsInv
<1>5. SocketKept(e)
  BY <1>1, <1>2, <1>3, <1>4, DrainedIs DEF SocketKept, Held
<1>6. PlainInv' /\ EofInv'
  BY <1>1 DEF ConnectionInv, StreamInv, PlainInv, EofInv
<1> QED
  BY <1>1, <1>2, <1>5, <1>6, OneSocketOnly, SocketsOnly

(* Time passes.                                                            *)
LEMMA TimeKeeps ==
  ASSUME ConnectionInv, TimePasses
  PROVE  ConnectionInv'
<1>1. /\ checked' = checked /\ accepted' = accepted /\ got' = got
      /\ broken' = broken /\ sends' = sends /\ dial' = dial
      /\ backlog' = backlog /\ shut' = shut /\ closed' = closed /\ eof' = eof /\ cut' = cut
      /\ inbox' = inbox /\ faults' = faults /\ dropped' = dropped
  BY DEF TimePasses, tcpVars, history
<1>2. \A e \in Ends : socks'[e] = IF Exists(e) THEN AgedSocket(socks[e]) ELSE NoSocket
  BY DEF TimePasses
<1>3. ASSUME NEW e \in Ends
      PROVE  SocketKept(e) /\ socks'[e] \in SocketRecord \cup {NoSocket}
  <2>1. CASE ~ Exists(e)
    BY <1>2, <2>1 DEF SocketKept
  <2>2. CASE Exists(e)
    <3>1. Held(e, socks[e]) /\ socks'[e] = AgedSocket(socks[e])
      BY <1>2, <2>2 DEF ConnectionInv, SocketsInv
    <3>2. OnlyAges(socks[e], socks'[e])
      BY <3>1, SocketAged DEF Held
    <3> QED
      BY <1>1, <2>2, <3>1, <3>2 DEF SocketKept, OnlyAges, SameSocket, Held, SocketOK
  <2> QED
    BY <2>1, <2>2
<1>4. socks' \in [Ends -> SocketRecord \cup {NoSocket}]
  <2>1. socks' = [e \in Ends |-> IF Exists(e) THEN AgedSocket(socks[e]) ELSE NoSocket]
    BY DEF TimePasses
  <2> QED
    BY <1>3, <2>1
<1>5. dialAge' \in 0 .. MaxDial
  BY NumbersOnly DEF TimePasses, ConnectionInv, PlainInv
<1>6. sinceProcess' \in [Ends -> 0 .. MaxIdle]
  BY NumbersOnly DEF TimePasses, ConnectionInv, PlainInv
<1>7. PlainInv' /\ EofInv'
  BY <1>1, <1>5, <1>6 DEF ConnectionInv, StreamInv, PlainInv, EofInv
<1> QED
  BY <1>1, <1>3, <1>4, <1>7, SocketsOnly

(* A step that closes a stream, of a socket that is not there or goes.     *)
LEMMA ClosesKeeps ==
  ASSUME ConnectionInv, NEW e \in Ends, Closes(e), cut' = cut,
         UNCHANGED <<accepted, got, broken, sends>>,
         \A d \in Ends : socks'[d] = IF d = e THEN NoSocket ELSE socks[d],
         socks' \in [Ends -> SocketRecord \cup {NoSocket}],
         PlainInv', LifeInv'
  PROVE  ConnectionInv'
<1>1. /\ inbox' \in [Ends -> Seq(Message)]
      /\ \A d \in Ends : \E n \in 0 .. Len(inbox[d]) : inbox'[d] = SubSeq(inbox[d], 1, n)
      /\ closed' = closed \cup {e}
  BY ClosesIs
<1>2. ASSUME NEW d \in Ends PROVE SocketKept(d)
  <2>1. CASE d = e
    BY <2>1 DEF SocketKept
  <2>2. CASE d # e
    BY <1>1, <2>2, SameKept DEF ConnectionInv, SocketsInv, Held
  <2> QED
    BY <2>1, <2>2
<1>3. Quiet
  BY <1>1, <1>2 DEF Quiet
<1>4. EofInv'
  BY <1>1 DEF EofInv
<1> QED
  BY <1>3, <1>4, QuietSockets, QuietStream DEF ConnectionInv, StreamInv

(* connect comes to its end.                                               *)
LEMMA DialsKeeps ==
  ASSUME ConnectionInv, Dials
  PROVE  ConnectionInv'
<1>1. /\ socks' = socks /\ checked' = checked /\ accepted' = accepted /\ got' = got
      /\ broken' = broken /\ sends' = sends /\ dialAge' = dialAge /\ dial = "Trying"
      /\ shut' = shut /\ cut' = cut
      /\ faults' = faults /\ sinceProcess' = sinceProcess /\ dropped' = dropped
  BY DEF Dials, history
<1>2. /\ socks \in [Ends -> SocketRecord \cup {NoSocket}]
      /\ inbox \in [Ends -> Seq(Message)]
      /\ ~ Exists("server") /\ closed = {} /\ ~ backlog
      /\ got["server"] = <<>> /\ accepted["server"] = <<>> /\ ~ broken["server"]
      /\ "client" \in Ends /\ "server" \in Ends /\ "client" # "server"
      /\ \A d \in Ends : d # "client" => d = "server"
  BY <1>1 DEF ConnectionInv, LifeInv, BoxesInv, SocketsInv, Ends
<1>3. CASE dial' = "Ok" /\ backlog' = TRUE
           /\ IF Exists("client") THEN UNCHANGED <<inbox, closed, eof>> ELSE Closes("client")
  <2>1. CASE Exists("client")
    <3>1. inbox' = inbox /\ closed' = closed /\ eof' = eof
      BY <1>3, <2>1
    <3>2. \A d \in Ends : SocketKept(d)
      BY <1>1, <1>2, <3>1, SameKept
    <3>3. \A d \in Ends : \E n \in 0 .. Len(inbox[d]) : inbox'[d] = SubSeq(inbox[d], 1, n)
      <4> SUFFICES ASSUME NEW d \in Ends
                   PROVE  \E n \in 0 .. Len(inbox[d]) : inbox'[d] = SubSeq(inbox[d], 1, n)
        OBVIOUS
      <4> DEFINE b == inbox[d]
      <4>1. b \in Seq(Message) /\ inbox'[d] = b
        BY <1>2, <3>1
      <4> HIDE DEF b
      <4>2. Len(b) \in 0 .. Len(b) /\ SubSeq(b, 1, Len(b)) = b
        BY <4>1
      <4> QED
        BY <4>1, <4>2 DEF b
    <3>4. Quiet
      BY <1>1, <1>2, <3>1, <3>2, <3>3 DEF Quiet
    <3>5. PlainInv' /\ EofInv'
      BY <1>1, <1>3, <3>1 DEF ConnectionInv, StreamInv, PlainInv, EofInv, Dialed
    <3>6. LifeInv'
      BY <1>1, <1>2, <1>3, <3>1 DEF LifeInv, Exists
    <3> QED
      BY <3>4, <3>5, <3>6, QuietSockets, QuietStream DEF ConnectionInv, StreamInv
  <2>2. CASE ~ Exists("client")
    <3>1. Closes("client")
      BY <1>3, <2>2
    <3>2. closed' = closed \cup {"client"} /\ closed' \subseteq Ends /\ eof' \subseteq Ends
      BY <1>2, <3>1, ClosesIs
    <3>3. \A d \in Ends : socks'[d] = IF d = "client" THEN NoSocket ELSE socks[d]
      BY <1>1, <2>2 DEF Exists
    <3>4. PlainInv'
      BY <1>1, <1>3, <3>2 DEF ConnectionInv, PlainInv, Dialed
    <3>5. LifeInv'
      BY <1>1, <1>2, <1>3, <3>2 DEF LifeInv, Exists
    <3> QED
      BY <1>1, <1>2, <3>1, <3>3, <3>4, <3>5, ClosesKeeps
  <2> QED
    BY <2>1, <2>2
<1>4. CASE dial' \in {"Failed", "TimedOut"} /\ UNCHANGED <<backlog, inbox, closed, eof>>
  <2>1. \A d \in Ends : SocketKept(d)
    BY <1>1, <1>2, <1>4, SameKept
  <2>2. \A d \in Ends : \E n \in 0 .. Len(inbox[d]) : inbox'[d] = SubSeq(inbox[d], 1, n)
    <3> SUFFICES ASSUME NEW d \in Ends
                 PROVE  \E n \in 0 .. Len(inbox[d]) : inbox'[d] = SubSeq(inbox[d], 1, n)
      OBVIOUS
    <3> DEFINE b == inbox[d]
    <3>1. b \in Seq(Message) /\ inbox'[d] = b
      BY <1>2, <1>4
    <3> HIDE DEF b
    <3>2. Len(b) \in 0 .. Len(b) /\ SubSeq(b, 1, Len(b)) = b
      BY <3>1
    <3> QED
      BY <3>1, <3>2 DEF b
  <2>3. Quiet
    BY <1>1, <1>2, <1>4, <2>1, <2>2 DEF Quiet
  <2>4. PlainInv' /\ EofInv'
    BY <1>1, <1>4 DEF ConnectionInv, StreamInv, PlainInv, EofInv, Dialed
  <2>5. LifeInv'
    BY <1>1, <1>2, <1>4 DEF LifeInv, Exists
  <2> QED
    BY <2>3, <2>4, <2>5, QuietSockets, QuietStream DEF ConnectionInv, StreamInv
<1>5. \/ dial' = "Ok" /\ backlog' = TRUE
         /\ IF Exists("client") THEN UNCHANGED <<inbox, closed, eof>> ELSE Closes("client")
      \/ dial' \in {"Failed", "TimedOut"} /\ UNCHANGED <<backlog, inbox, closed, eof>>
  BY DEF Dials
<1> QED
  BY <1>3, <1>4, <1>5

(* The listener removes a remote.                                          *)
LEMMA RemovesKeeps ==
  ASSUME ConnectionInv, ListenerRemoves
  PROVE  ConnectionInv'
<1>1. /\ Exists("server") /\ socks' = [socks EXCEPT !["server"] = NoSocket] /\ Closes("server")
      /\ sinceProcess' = [sinceProcess EXCEPT !["server"] = 0]
      /\ checked' = checked /\ accepted' = accepted /\ got' = got
      /\ broken' = broken /\ sends' = sends /\ dial' = dial /\ dialAge' = dialAge
      /\ backlog' = backlog /\ shut' = shut /\ cut' = cut
      /\ faults' = faults /\ dropped' = dropped
  BY DEF ListenerRemoves, dialVars, history
<1>2. /\ socks \in [Ends -> SocketRecord \cup {NoSocket}] /\ "server" \in Ends
      /\ sinceProcess \in [Ends -> 0 .. MaxIdle]
      /\ dial = "Ok" /\ ~ backlog
  BY <1>1 DEF ConnectionInv, LifeInv, PlainInv, SocketsInv, Ends
<1>3. closed' \subseteq Ends /\ eof' \subseteq Ends
  BY <1>1, <1>2, ClosesIs
<1>4. /\ \A d \in Ends : socks'[d] = IF d = "server" THEN NoSocket ELSE socks[d]
      /\ socks' \in [Ends -> SocketRecord \cup {NoSocket}]
  BY <1>1, <1>2
<1>5. sinceProcess' \in [Ends -> 0 .. MaxIdle]
  BY <1>1, <1>2, NumbersOnly
<1>6. PlainInv' /\ LifeInv'
  BY <1>1, <1>2, <1>3, <1>5 DEF ConnectionInv, PlainInv, LifeInv
<1> QED
  BY <1>1, <1>2, <1>4, <1>6, ClosesKeeps

(* A socket, or the listener, is dropped.                                  *)
LEMMA DropsKeeps ==
  ASSUME ConnectionInv, NEW e \in Ends, AppDrops(e)
  PROVE  ConnectionInv'
<1>1. /\ socks' = [socks EXCEPT ![e] = NoSocket] /\ dropped' = dropped \cup {e}
      /\ backlog' = (backlog /\ e = "client")
      /\ sinceProcess' = [sinceProcess EXCEPT ![e] = 0]
      /\ checked' = checked /\ accepted' = accepted /\ got' = got
      /\ broken' = broken /\ sends' = sends /\ dial' = dial /\ dialAge' = dialAge
      /\ shut' = shut /\ cut' = cut
      /\ faults' = faults
  BY DEF AppDrops, history
<1>2. /\ socks \in [Ends -> SocketRecord \cup {NoSocket}]
      /\ sinceProcess \in [Ends -> 0 .. MaxIdle]
      /\ e = "client" \/ e = "server"
      /\ "server" \in Ends /\ backlog \in BOOLEAN
  BY DEF ConnectionInv, PlainInv, SocketsInv, Ends
<1>3. /\ \A d \in Ends : socks'[d] = IF d = e THEN NoSocket ELSE socks[d]
      /\ socks' \in [Ends -> SocketRecord \cup {NoSocket}]
  BY <1>1, <1>2
<1>4. sinceProcess' \in [Ends -> 0 .. MaxIdle]
  BY <1>1, <1>2, NumbersOnly
<1>5. Exists("server")' => Exists("server") /\ e = "client"
  BY <1>2, <1>3 DEF Exists
<1>6. CASE Closes(e) /\ dial = "Ok"
  <2>1. closed' = closed \cup {e} /\ closed' \subseteq Ends /\ eof' \subseteq Ends
    BY <1>6, ClosesIs
  <2>2. PlainInv'
    BY <1>1, <1>2, <1>4, <2>1 DEF ConnectionInv, PlainInv
  <2>3. LifeInv'
    BY <1>1, <1>2, <1>5, <1>6, <2>1 DEF ConnectionInv, LifeInv
  <2> QED
    BY <1>1, <1>3, <1>6, <2>2, <2>3, ClosesKeeps
<1>7. CASE UNCHANGED <<closed, eof, inbox>> /\ ~ (e = "server" /\ backlog)
  <2>1. backlog' = backlog
    BY <1>1, <1>2, <1>7
  <2>2. \A d \in Ends : SocketKept(d)
    <3>1. \A d \in Ends : d = e => SocketKept(d)
      BY <1>3 DEF SocketKept
    <3>2. \A d \in Ends : d # e => SocketKept(d)
      BY <1>3, <1>7, SameKept DEF ConnectionInv, SocketsInv, Held
    <3> QED
      BY <3>1, <3>2
  <2>3. PlainInv' /\ EofInv'
    BY <1>1, <1>2, <1>4, <1>7 DEF ConnectionInv, StreamInv, PlainInv, EofInv
  <2> QED
    BY <1>1, <1>3, <1>7, <2>1, <2>2, <2>3, SocketsOnly
<1>8. \/ Closes(e) /\ dial = "Ok"
      \/ UNCHANGED <<closed, eof, inbox>> /\ ~ (e = "server" /\ backlog)
  <2>1. IF (Exists(e) /\ HasStream(e)) \/ (e = "server" /\ backlog)
          THEN Closes(e) ELSE UNCHANGED <<closed, eof, inbox>>
    BY DEF AppDrops
  <2>2. (Exists(e) /\ HasStream(e)) \/ (e = "server" /\ backlog) => dial = "Ok"
    BY <1>2 DEF HasStream, ConnectionInv, LifeInv
  <2> QED
    BY <2>1, <2>2
<1> QED
  BY <1>6, <1>7, <1>8

-----------------------------------------------------------------------------
(* The invariant holds.                                                    *)

LEMMA ConnectionStarts == Init => ConnectionInv
<1> SUFFICES ASSUME Init PROVE ConnectionInv
  OBVIOUS
<1>1. PlainInv
  <2>1. /\ 0 \in 0 .. MaxDial /\ 0 \in 0 .. MaxFaults
        /\ 0 \in 0 .. MaxSends /\ 0 \in 0 .. MaxIdle
    BY NumbersOnly
  <2>2. broken \in [Ends -> BOOLEAN] /\ sinceProcess \in [Ends -> 0 .. MaxIdle]
    BY <2>1 DEF Init
  <2> QED
    BY <2>1, <2>2 DEF Init, PlainInv, Dialed
<1>2. BoxesInv
  <2>1. <<>> \in Seq(Message) /\ <<>> \in Seq(Nums) /\ <<>> \in Seq(Datas(Event))
    OBVIOUS
  <2> QED
    BY <2>1 DEF Init, BoxesInv
<1> DEFINE evs == <<>>
           s == NewSocket("Connecting", evs)
<1>3. evs \in Seq(Event) /\ Len(evs) = 0 /\ DataOf(evs) = <<>>
  BY IdsOfNone
<1> HIDE DEF evs
<1>4. s = [status |-> "Connecting", recvAge |-> 0, sentAge |-> 0, nextSeq |-> 0, lastOk |-> {},
           events |-> evs, drained |-> 0]
  BY DEF NewSocket
<1>5. socks = [e \in Ends |-> IF e = "client" THEN s ELSE NoSocket]
  BY DEF Init, evs
<1> HIDE DEF s
<1>6. s \in SocketRecord
  BY <1>3, <1>4, NumbersOnly DEF SocketRecord, Statuses
<1>7. SocketOK(s)
  BY <1>3, <1>4, <1>6 DEF SocketOK, Announced
<1>8. Held("client", s)
  <2>1. "client" \in Ends /\ got["client"] = <<>> /\ accepted["client"] = <<>>
        /\ sends = 0 /\ closed = {}
    BY DEF Init, Ends
  <2> QED
    BY <1>3, <1>4, <1>7, <2>1 DEF Held
<1>9. SocketsInv
  BY <1>5, <1>6, <1>8 DEF SocketsInv, Exists
<1>10. LifeInv
  <2>1. "server" \in Ends /\ "server" # "client"
    BY DEF Ends
  <2> QED
    BY <1>5, <2>1 DEF Init, LifeInv, Exists
<1>11. StreamInv
  <2>1. \A e \in Ends : /\ inbox[e] = <<>> /\ accepted[e] = <<>> /\ got[e] = <<>>
                        /\ Ids(e) = <<>> /\ Other(e) \in Ends
    BY TwoEnds DEF Init, Ids
  <2>2. Flows(<<>>, <<>>, <<>>) /\ Whole(<<>>, <<>>, <<>>)
    <3>1. IdsOf(<<>>) = <<>>
      BY IdsOfNone
    <3>2. <<>> \o <<>> = <<>> /\ SubSeq(<<>>, 1, 0) = <<>>
      OBVIOUS
    <3>3. IsPrefix(<<>>, <<>>)
      <4> DEFINE none == <<>>
      <4>1. none \in Seq(Nat) /\ Len(none) = 0
        OBVIOUS
      <4> HIDE DEF none
      <4>2. Len(none) <= Len(none) /\ \A i \in 1 .. Len(none) : none[i] = none[i]
        BY <4>1
      <4>3. IsPrefix(none, none)
        BY <4>1, <4>2, PrefixIs, Zenon
      <4> QED
        BY <4>3 DEF none
    <3>4. \A n \in 0 .. Len(<<>>) : n = 0
      OBVIOUS
    <3> QED
      BY <3>1, <3>2, <3>3, <3>4 DEF Flows, Whole
  <2>3. OnlyReceipts(<<>>, <<>>) /\ Increasing(<<>>)
    BY DEF OnlyReceipts, Increasing
  <2>4. FlowInv /\ ReceiptsInv /\ OrderInv
    BY <2>1, <2>2, <2>3 DEF FlowInv, ReceiptsInv, OrderInv
  <2>5. EofInv
    BY DEF Init, EofInv
  <2> QED
    BY <2>4, <2>5 DEF StreamInv
<1> QED
  BY <1>1, <1>2, <1>9, <1>10, <1>11 DEF ConnectionInv

LEMMA ConnectionStutters ==
  ASSUME ConnectionInv, UNCHANGED vars
  PROVE  ConnectionInv'
<1>1. /\ socks' = socks /\ checked' = checked /\ accepted' = accepted /\ got' = got
      /\ broken' = broken /\ sends' = sends /\ dial' = dial /\ dialAge' = dialAge
      /\ backlog' = backlog /\ shut' = shut /\ closed' = closed /\ eof' = eof /\ cut' = cut
      /\ inbox' = inbox /\ faults' = faults /\ sinceProcess' = sinceProcess
      /\ dropped' = dropped
  BY DEF vars, dialVars, tcpVars, history
<1>2. PlainInv' /\ EofInv' /\ socks' \in [Ends -> SocketRecord \cup {NoSocket}]
  BY <1>1 DEF ConnectionInv, StreamInv, PlainInv, EofInv, SocketsInv
<1>3. \A e \in Ends : SocketKept(e)
  BY <1>1, SameKept DEF ConnectionInv, SocketsInv, Held
<1> QED
  BY <1>1, <1>2, <1>3, SocketsOnly

(* The invariant of a connection holds in every state, for any constants.  *)
THEOREM TcpInvariance == Spec => []ConnectionInv
<1>1. Init => ConnectionInv
  BY ConnectionStarts
<1>2. ConnectionInv /\ [Next]_vars => ConnectionInv'
  <2> SUFFICES ASSUME ConnectionInv, [Next]_vars PROVE ConnectionInv'
    OBVIOUS
  <2>1. CASE UNCHANGED vars
    BY <2>1, ConnectionStutters
  <2>2. CASE Cut
    BY <2>2, CutKeeps
  <2>3. CASE Dials
    BY <2>3, DialsKeeps
  <2>4. CASE ClientChecksDial
    BY <2>4, ChecksKeeps
  <2>5. CASE ClientProcesses \/ ListenerAccepts \/ ListenerProcesses
    BY <2>5, ProcessStepsKeep
  <2>6. CASE ListenerRemoves
    BY <2>6, RemovesKeeps
  <2>7. ASSUME NEW e \in Ends, AppSends(e) PROVE ConnectionInv'
    BY <2>7, SendsKeep
  <2>8. ASSUME NEW e \in Ends, AppEnds(e) PROVE ConnectionInv'
    BY <2>8, EndsKeeps
  <2>9. ASSUME NEW e \in Ends, AppDrops(e) PROVE ConnectionInv'
    BY <2>9, DropsKeeps
  <2>10. CASE AppDrains
    BY <2>10, DrainsKeeps
  <2>11. CASE TimePasses
    BY <2>11, TimeKeeps
  <2> QED
    BY <2>1, <2>2, <2>3, <2>4, <2>5, <2>6, <2>7, <2>8, <2>9, <2>10, <2>11 DEF Next
<1> QED
  BY <1>1, <1>2, PTL DEF Spec

-----------------------------------------------------------------------------
(* What follows from it.                                                   *)

(* What Max is, of a set of numbers with a largest one.                    *)
LEMMA LargestIs ==
  ASSUME NEW S \in SUBSET Nat, NEW m \in S, \A n \in S : n <= m
  PROVE  Max(S) = m
<1>1. \A n \in S : m >= n
  BY SMT
<1>2. Max(S) \in S /\ \A n \in S : Max(S) >= n
  BY <1>1, Zenon DEF Max
<1> DEFINE l == Max(S)
<1> HIDE DEF l
<1>3. l \in S /\ l >= m /\ l <= m
  BY <1>2 DEF l
<1>4. l = m
  BY <1>3
<1> QED
  BY <1>4 DEF l

(* The variables keep their types, and a socket has the status that its    *)
(* application was told last, or will be: no status goes unannounced.      *)
THEOREM TcpTypes == Spec => []TypeOK
<1>1. ASSUME ConnectionInv, NEW e \in Ends, Exists(e)
      PROVE  LET s == socks[e]
                 told == {i \in DOMAIN s.events : s.events[i].kind = "Status"}
             IN  /\ s \in SocketRecord
                 /\ s.drained <= Len(s.events)
                 /\ Cardinality(s.lastOk) <= 1
                 /\ IF told = {} THEN s.status = "Connecting"
                                 ELSE s.events[Max(told)].status = s.status
  <2> DEFINE s == socks[e]
             told == {i \in DOMAIN s.events : s.events[i].kind = "Status"}
  <2>1. SocketOK(s)
    BY <1>1 DEF ConnectionInv, SocketsInv, Held
  <2>2. s \in SocketRecord /\ s.drained <= Len(s.events)
    BY <2>1 DEF SocketOK
  <2>3. Cardinality(s.lastOk) <= 1
    <3>1. s.lastOk = {} \/ \E q \in Nums : s.lastOk = {q}
      BY <2>1 DEF SocketOK
    <3>2. CASE s.lastOk = {}
      BY <3>2, FS_EmptySet
    <3>3. ASSUME NEW q \in Nums, s.lastOk = {q} PROVE Cardinality(s.lastOk) <= 1
      <4>1. Cardinality({q}) = 1
        BY FS_Singleton
      <4> QED
        BY <3>3, <4>1
    <3> QED
      BY <3>1, <3>2, <3>3
  <2>4. DOMAIN s.events = 1 .. Len(s.events) /\ Len(s.events) \in Nat
    BY <2>2 DEF SocketRecord
  <2> HIDE DEF s
  <2>5. CASE s.status = "Connecting" /\ told = {}
    BY <2>2, <2>3, <2>5 DEF s
  <2>6. ASSUME NEW i \in 1 .. Len(s.events), s.events[i] = StatusEvent(s.status),
               \A j \in i + 1 .. Len(s.events) : s.events[j].kind # "Status"
        PROVE  told # {} /\ s.events[Max(told)].status = s.status
    <3>1. s.events[i].kind = "Status" /\ s.events[i].status = s.status
      BY <2>6 DEF StatusEvent
    <3>2. i \in told
      BY <2>4, <3>1
    <3>3. \A j \in told : j \in Nat /\ j <= i
      BY <2>4, <2>6
    <3>4. Max(told) = i
      <4> HIDE DEF told
      <4> QED
        BY <3>2, <3>3, LargestIs
    <3> QED
      BY <3>1, <3>2, <3>4
  <2>7. (s.status = "Connecting" /\ told = {})
          \/ (told # {} /\ s.events[Max(told)].status = s.status)
    <3>1. CASE s.status = "Connecting" /\ \A i \in 1 .. Len(s.events) : s.events[i].kind # "Status"
      BY <2>4, <3>1
    <3>2. CASE \E i \in 1 .. Len(s.events) :
                 /\ s.events[i] = StatusEvent(s.status)
                 /\ \A j \in i + 1 .. Len(s.events) : s.events[j].kind # "Status"
      BY <2>6, <3>2
    <3> QED
      BY <2>1, <3>1, <3>2 DEF SocketOK, Announced
  <2> HIDE DEF told
  <2>8. IF told = {} THEN s.status = "Connecting" ELSE s.events[Max(told)].status = s.status
    BY <2>7
  <2> QED
    BY <2>2, <2>3, <2>8 DEF s, told
<1>2. ConnectionInv => TypeOK
  <2> SUFFICES ASSUME ConnectionInv PROVE TypeOK
    OBVIOUS
  <2>1. {backlog, checked, cut} \cup {broken[e] : e \in Ends} \subseteq BOOLEAN
    BY DEF ConnectionInv, PlainInv
  <2>2. shut \cup closed \cup eof \cup dropped \subseteq Ends
    BY DEF ConnectionInv, PlainInv
  <2>3. /\ dial \in {"Trying", "Ok", "Failed", "TimedOut"} /\ dialAge \in 0 .. MaxDial
        /\ faults \in 0 .. MaxFaults /\ sends \in 0 .. MaxSends
        /\ sinceProcess \in [Ends -> 0 .. MaxIdle]
    BY DEF ConnectionInv, PlainInv, Dialed
  <2> QED
    BY <1>1, <2>1, <2>2, <2>3, Zenon DEF TypeOK
<1> QED
  BY <1>2, TcpInvariance, PTL

(* A socket that reports an end by the remote has queued all the data the  *)
(* remote sent before: the end does not hide data read with it, however    *)
(* the reads were cut.                                                     *)
THEOREM EndHidesNothing == Spec => []EndComesLast
<1>1. ConnectionInv => EndComesLast
  <2> SUFFICES ASSUME ConnectionInv, NEW e \in Ends, Exists(e),
                      socks[e].status = "RemoteEnded", closed = {}, ~ cut, ~ broken[e]
               PROVE  Ids(e) = accepted[Other(e)]
    BY DEF EndComesLast
  <2>1. inbox[e] = <<>>
    BY DEF ConnectionInv, SocketsInv, Held
  <2>2. Whole(Ids(e), <<>>, accepted[Other(e)])
    BY <2>1 DEF ConnectionInv, StreamInv, FlowInv
  <2>3. Sound(<<>>, Len(<<>>)) /\ IdsOf(<<>>) = <<>>
    BY IdsOfNone DEF Sound
  <2>4. Ids(e) \o <<>> = accepted[Other(e)]
    BY <2>2, <2>3 DEF Whole
  <2>5. Ids(e) \in Seq(Nat)
    BY TypesAt DEF ConnectionInv
  <2> QED
    BY <2>4, <2>5
<1> QED
  BY <1>1, TcpInvariance, PTL

(* What is queued is a prefix of what was sent.                            *)
LEMMA QueuedIsPrefix ==
  ASSUME ConnectionInv, NEW e \in Ends, ~ broken[e]
  PROVE  IsPrefix(Ids(e), accepted[Other(e)])
<1>1. Ids(e) \in Seq(Nat) /\ inbox[e] \in Seq(Message)
  BY TypesAt DEF ConnectionInv
<1> DEFINE b == inbox[e]
<1>2. Flows(Ids(e), b, accepted[Other(e)])
  BY DEF ConnectionInv, StreamInv, FlowInv
<1> HIDE DEF b
<1>3. 0 \in 0 .. Len(b) /\ SubSeq(b, 1, 0) = <<>>
  BY <1>1 DEF b
<1>4. Sound(b, 0) /\ IdsOf(<<>>) = <<>>
  BY IdsOfNone DEF Sound
<1>5. IsPrefix(Ids(e) \o <<>>, accepted[Other(e)])
  BY <1>2, <1>3, <1>4 DEF Flows
<1>6. Ids(e) \o <<>> = Ids(e)
  BY <1>1
<1> QED
  BY <1>5, <1>6

(* What an end queues for its application is what the other one sent, in   *)
(* order and once, as long as the framing holds: however reads are cut,    *)
(* writes fail or the stream is closed, and for any number of messages.    *)
THEOREM DataComesInOrder ==
  Spec => [](\A e \in Ends : ~ broken[e] => IsPrefix(Ids(e), accepted[Other(e)]))
<1>1. ConnectionInv => \A e \in Ends : ~ broken[e] => IsPrefix(Ids(e), accepted[Other(e)])
  BY QueuedIsPrefix
<1> QED
  BY <1>1, TcpInvariance, PTL

-----------------------------------------------------------------------------
(* Sequence ids, for the 2^32 of the code.                                 *)

(* Two numbers that are close to each other have sequence ids whose        *)
(* wrapped difference tells which one is larger, wherever the ids start    *)
(* over between them.                                                      *)
LEMMA WrappedDifference ==
  ASSUME NEW m \in Nat, NEW n \in Nat,
         m - n < 2147483647, n - m <= 2147483649
  PROVE  ((m % 4294967296) - (n % 4294967296)) % 4294967296 < 2147483647 <=> n <= m
<1> DEFINE a == m % 4294967296
           b == n % 4294967296
           i == m \div 4294967296
           j == n \div 4294967296
<1>1. /\ a \in Nat /\ b \in Nat /\ i \in Nat /\ j \in Nat
      /\ a < 4294967296 /\ b < 4294967296
      /\ m = (4294967296 * i) + a /\ n = (4294967296 * j) + b
  BY SMT
<1> HIDE DEF a, b, i, j
<1>2. (a - b) % 4294967296 = IF a >= b THEN a - b ELSE a - b + 4294967296
  BY <1>1, SMT
<1>3. m - n = (4294967296 * (i - j)) + (a - b)
  BY <1>1, SMT
<1>4. (a - b) % 4294967296 < 2147483647 <=> n <= m
  BY <1>1, <1>2, <1>3, SMT
<1> QED
  BY <1>4 DEF a, b

(* is_seq_id_received tells a message that was sent before the one of the  *)
(* last receipt, or is that one, from a later one, also once out_seq_id    *)
(* has started over: for a message with fewer than 2^31 - 1 others sent    *)
(* from it to that of the last receipt.  One that is further back is taken *)
(* for one that was not received.                                          *)
THEOREM ReceivedIsSentBefore ==
  ASSUME SeqIdBound = 4294967296, NEW m \in Nat, NEW n \in Nat,
         m - n < 2147483647, n - m <= 2147483649
  PROVE  IsNotAfter(SeqIdOf(n), SeqIdOf(m)) <=> n <= m
<1>1. (4294967296 - 1) \div 2 = 2147483647
  BY SMT
<1>2. IsNotAfter(SeqIdOf(n), SeqIdOf(m)) <=>
        ((m % 4294967296) - (n % 4294967296)) % 4294967296 < 2147483647
  BY <1>1, SMT DEF IsNotAfter, SeqIdOf, WrappingSub
<1> QED
  BY <1>2, WrappedDifference

(* A receipt is for data that is queued at the other end, and for all the  *)
(* data sent before it, however often out_seq_id starts over; a message    *)
(* that follows it by at most 2^31 ids is not taken for one of these.      *)
LEMMA ReceivedIsQueued ==
  ASSUME SeqIdBound = 4294967296, ConnectionInv,
         NEW e \in Ends, ~ broken[e], ~ broken[Other(e)], Exists(Other(e)),
         NEW q \in ToSet(accepted[Other(e)]), IsSeqIdReceived(socks[Other(e)], q),
         \A ok \in socks[Other(e)].lastOk : 2 * (q - ok) <= SeqIdBound
  PROVE  q \in ToSet(Ids(e))
<1> DEFINE d == Other(e)
           acc == accepted[d]
           ids == Ids(e)
<1>1. /\ d \in Ends /\ Other(d) = e /\ acc \in Seq(Nums) /\ acc \in Seq(Nat) /\ ids \in Seq(Nat)
  BY TwoEnds, TypesAt DEF ConnectionInv
<1>2. socks[d].lastOk \subseteq ToSet(ids)
  BY <1>1 DEF ConnectionInv, SocketsInv, Held
<1>3. PICK ok \in socks[d].lastOk : IsNotAfter(SeqIdOf(q), SeqIdOf(ok))
  BY DEF IsSeqIdReceived
<1>4. 2 * (q - ok) <= 4294967296
  BY <1>3
<1>5. Increasing(acc) /\ IsPrefix(ids, acc)
  BY <1>1, QueuedIsPrefix DEF ConnectionInv, StreamInv, OrderInv
<1>6. q \in ToSet(acc)
  OBVIOUS
<1> HIDE DEF d, acc, ids
<1>7. /\ DOMAIN acc = 1 .. Len(acc) /\ Len(acc) \in Nat
      /\ DOMAIN ids = 1 .. Len(ids) /\ Len(ids) \in Nat
  BY <1>1
<1>8. PICK i \in 1 .. Len(ids) : ids[i] = ok
  BY <1>2, <1>3, <1>7 DEF ToSet
<1>9. PICK j \in 1 .. Len(acc) : acc[j] = q
  BY <1>6, <1>7 DEF ToSet
<1>10. Len(ids) <= Len(acc) /\ \A k \in 1 .. Len(ids) : ids[k] = acc[k]
  BY <1>1, <1>5, PrefixIs
<1>11. i \in 1 .. Len(acc) /\ acc[i] = ok
  BY <1>7, <1>8, <1>10
<1>12. ok \in Nums /\ q \in Nums
  BY <1>1, <1>7, <1>9, <1>11
<1>13. ok \in Nat /\ q \in Nat /\ q - ok <= 2147483649
  BY <1>12, <1>4, NumbersOnly DEF Nums
<1>14. q <= ok
  <2>1. CASE ok - q < 2147483647
    BY <1>3, <1>13, <2>1, ReceivedIsSentBefore
  <2>2. CASE ~ (ok - q < 2147483647)
    BY <1>13, <2>2
  <2> QED
    BY <2>1, <2>2
<1>15. j <= i
  <2>1. CASE i < j
    <3>1. acc[i] < acc[j]
      BY <1>5, <1>9, <1>11, <2>1 DEF Increasing
    <3> QED
      BY <1>9, <1>11, <1>13, <1>14, <3>1
  <2> QED
    BY <1>7, <1>8, <1>9, <2>1
<1>16. j \in 1 .. Len(ids) /\ ids[j] = q
  BY <1>7, <1>8, <1>9, <1>10, <1>15
<1> QED
  BY <1>7, <1>16 DEF ToSet, ids

(* So the data is what was sent, and is_seq_id_received says of nothing    *)
(* that it is received before it is queued at the other end, with the 2^32 *)
(* sequence ids of the code and any number of messages, as long as the     *)
(* last receipt is no more than 2^31 ids behind.                           *)
THEOREM DataIsAsSent ==
  ASSUME SeqIdBound = 4294967296
  PROVE  Spec => []DataIsWhatWasSent
<1>1. ConnectionInv => DataIsWhatWasSent
  <2> SUFFICES ASSUME ConnectionInv, NEW e \in Ends, ~ broken[e]
               PROVE  /\ IsPrefix(Ids(e), accepted[Other(e)])
                      /\ ~ broken[Other(e)] /\ Exists(Other(e)) =>
                           \A q \in ToSet(accepted[Other(e)]) :
                             /\ IsSeqIdReceived(socks[Other(e)], q)
                             /\ \A ok \in socks[Other(e)].lastOk :
                                  2 * (q - ok) <= SeqIdBound
                             => q \in ToSet(Ids(e))
    BY DEF DataIsWhatWasSent
  <2>1. IsPrefix(Ids(e), accepted[Other(e)])
    BY QueuedIsPrefix
  <2>2. ASSUME ~ broken[Other(e)], Exists(Other(e)),
               NEW q \in ToSet(accepted[Other(e)]), IsSeqIdReceived(socks[Other(e)], q),
               \A ok \in socks[Other(e)].lastOk : 2 * (q - ok) <= SeqIdBound
        PROVE  q \in ToSet(Ids(e))
    BY <2>2, ReceivedIsQueued
  <2> QED
    BY <2>1, <2>2
<1> QED
  BY <1>1, TcpInvariance, PTL

-----------------------------------------------------------------------------
(* What a step may do to a socket that exists.                             *)

StaysOver(e) ==
  IsOver(socks[e].status) => socks'[e].status \in {socks[e].status, "Error"}

(* It is removed by the listener, or goes with its Socket or Listener;     *)
(* otherwise it lives on, and if it is over it stays so.                   *)
LEMMA SocketGoes ==
  ASSUME ConnectionInv, Next, NEW e \in Ends, Exists(e)
  PROVE  \/ e = "server" /\ ListenerRemoves /\ socks'[e] = NoSocket
         \/ e \in dropped' /\ socks'[e] = NoSocket
         \/ socks'[e] # NoSocket /\ StaysOver(e)
<1> DEFINE s == socks[e]
           Lives == socks'[e] # NoSocket /\ StaysOver(e)
<1>1. Held(e, s) /\ SocketOK(s)
  BY DEF ConnectionInv, SocketsInv, Held
<1>2. socks \in [Ends -> SocketRecord \cup {NoSocket}]
  BY DEF ConnectionInv, SocketsInv
<1>3. ASSUME socks'[e] = s PROVE Lives
  BY <1>3 DEF StaysOver, Exists
<1>4. ASSUME SocketOK(socks'[e]), StaysOver(e) PROVE Lives
  BY <1>4, SocketsExist
<1>5. ASSUME NEW d \in Ends, Processes(d, socks[d]) PROVE Lives
  <2>1. CASE d # e
    <3>1. socks'[e] = s
      BY <1>5, <2>1, ProcessesPlain
    <3> QED
      BY <1>3, <3>1
  <2>2. CASE d = e
    <3>1. inbox[e] \in Seq(Message) /\ Len(inbox[e]) \in Nat /\ broken[e] \in BOOLEAN
      BY TypesAt DEF ConnectionInv
    <3>2. PICK n, results, end, taken : ProcessesTo(e, s, n, results, end, taken)
      BY <1>5, <2>2, <3>1, ProcessesIs
    <3>3. /\ n \in 0 .. Len(inbox[e]) /\ results \in Readings(e, SubSeq(inbox[e], 1, n))
          /\ end \in ReadEnds(e, n)
          /\ socks' = [socks EXCEPT ![e] = Processed(s, results, end)]
      BY <3>2 DEF ProcessesTo
    <3>4. socks'[e] = Processed(s, results, end)
      BY <1>2, <3>3
    <3>5. results \in Seq(Result)
      <4> DEFINE ms == SubSeq(inbox[e], 1, n)
      <4>1. ms \in Seq(Message)
        BY <3>1, <3>3
      <4> HIDE DEF ms
      <4>2. results \in Readings(e, ms)
        BY <3>3 DEF ms
      <4> QED
        BY <3>1, <4>1, <4>2, ReadingsAre
    <3>6. end \in StreamEnds
      BY <3>3 DEF ReadEnds, StreamEnds
    <3>7. ProcessedTo(s, results, end, socks'[e])
      BY <1>1, <3>4, <3>5, <3>6, SocketProcessed
    <3> QED
      BY <1>4, <3>7 DEF ProcessedTo, SameSocket, StaysOver
  <2> QED
    BY <2>1, <2>2
<1>6. CASE Cut \/ Dials
  BY <1>3, <1>6 DEF Cut, Dials
<1>7. CASE ClientChecksDial
  <2>1. "client" \in Ends /\ socks["client"].status = "Connecting"
        /\ socks' = [socks EXCEPT !["client"] = UpdatedConnecting(@)]
    BY <1>7 DEF ClientChecksDial, Ends
  <2>2. CASE e # "client"
    BY <1>2, <1>3, <2>1, <2>2
  <2>3. CASE e = "client"
    <3>1. StaysOver(e)
      BY <2>1, <2>3 DEF StaysOver, IsOver
    <3>2. socks'[e] = UpdatedConnecting(s)
      BY <1>2, <2>1, <2>3
    <3>3. SocketOK(socks'[e])
      <4>1. CASE dial = "Trying"
        BY <1>1, <3>2, <4>1 DEF UpdatedConnecting
      <4>2. ASSUME NEW status \in {"Connected", "Timeout", "Error"},
                   UpdatedConnecting(s) = SetStatus(s, status)
            PROVE  SocketOK(socks'[e])
        <5>1. status \in Statuses
          BY DEF Statuses
        <5> QED
          BY <1>1, <3>2, <4>2, <5>1, StatusSet DEF SameSocket
      <4>3. CASE dial = "Ok"
        BY <4>2, <4>3 DEF UpdatedConnecting
      <4>4. CASE dial = "TimedOut"
        BY <4>2, <4>4 DEF UpdatedConnecting
      <4>5. CASE dial = "Failed"
        BY <4>2, <4>5 DEF UpdatedConnecting
      <4> QED
        BY <4>1, <4>3, <4>4, <4>5 DEF ConnectionInv, PlainInv, Dialed
    <3> QED
      BY <1>4, <3>1, <3>3
  <2> QED
    BY <2>2, <2>3
<1>8. CASE ClientProcesses \/ ListenerProcesses
  BY <1>5, <1>8 DEF ClientProcesses, ListenerProcesses, Ends
<1>9. CASE ListenerAccepts
  <2>1. backlog /\ "server" \in Ends
        /\ Processes("server", NewSocket("Connected", <<StatusEvent("Connected")>>))
    BY <1>9 DEF ListenerAccepts, Ends
  <2>2. e # "server"
    BY <2>1 DEF ConnectionInv, LifeInv
  <2>3. socks'[e] = s
    BY <2>1, <2>2, ProcessesPlain
  <2> QED
    BY <1>3, <2>3
<1>10. CASE ListenerRemoves
  <2>1. socks' = [socks EXCEPT !["server"] = NoSocket]
    BY <1>10 DEF ListenerRemoves
  <2>2. CASE e = "server"
    BY <1>2, <1>10, <2>1, <2>2
  <2>3. CASE e # "server"
    BY <1>2, <1>3, <2>1, <2>3
  <2> QED
    BY <2>2, <2>3
<1>11. ASSUME NEW d \in Ends, AppSends(d) PROVE Lives
  <2>1. socks' = [socks EXCEPT ![d] = WithNextSeq(socks[d])]
    BY <1>11 DEF AppSends, WithNextSeq
  <2>2. CASE e # d
    BY <1>2, <1>3, <2>1, <2>2
  <2>3. CASE e = d
    <3>1. socks'[e] = WithNextSeq(s) /\ s.nextSeq + 1 \in Nums
      BY <1>2, <1>11, <2>1, <2>3, SendsIs
    <3>2. SocketOK(socks'[e]) /\ socks'[e].status = s.status
      BY <1>1, <3>1, NextSeqUsed
    <3> QED
      BY <1>4, <3>2 DEF StaysOver
  <2> QED
    BY <2>2, <2>3
<1>12. ASSUME NEW d \in Ends, AppEnds(d) PROVE Lives
  <2>1. socks' = [socks EXCEPT ![d] = SetStatus(socks[d], "LocalEnded")]
    BY <1>12 DEF AppEnds
  <2>2. CASE e # d
    BY <1>2, <1>3, <2>1, <2>2
  <2>3. CASE e = d
    <3>1. socks'[e] = SetStatus(s, "LocalEnded") /\ "LocalEnded" \in Statuses
      BY <1>2, <2>1, <2>3 DEF Statuses
    <3>2. SocketOK(socks'[e]) /\ (IsOver(s.status) => socks'[e].status = s.status)
      <4>1. IsOver("LocalEnded")
        BY DEF IsOver
      <4> QED
        BY <1>1, <3>1, <4>1, StatusSet DEF SameSocket
    <3> QED
      BY <1>4, <3>2 DEF StaysOver
  <2> QED
    BY <2>2, <2>3
<1>13. ASSUME NEW d \in Ends, AppDrops(d)
       PROVE  Lives \/ (e \in dropped' /\ socks'[e] = NoSocket)
  <2>1. socks' = [socks EXCEPT ![d] = NoSocket] /\ dropped' = dropped \cup {d}
    BY <1>13 DEF AppDrops
  <2>2. CASE e = d
    BY <1>2, <2>1, <2>2
  <2>3. CASE e # d
    BY <1>2, <1>3, <2>1, <2>3
  <2> QED
    BY <2>2, <2>3
<1>14. CASE AppDrains
  <2>1. socks' = [socks EXCEPT !["server"] = WithDrained(socks["server"], Len(socks["server"].events))]
    BY <1>14 DEF AppDrains, WithDrained
  <2>2. CASE e # "server"
    BY <1>2, <1>3, <2>1, <2>2
  <2>3. CASE e = "server"
    <3>1. socks'[e] = WithDrained(s, Len(s.events))
      BY <1>2, <2>1, <2>3
    <3>2. SocketOK(socks'[e]) /\ socks'[e].status = s.status
      BY <1>1, <3>1, DrainedIs
    <3> QED
      BY <1>4, <3>2 DEF StaysOver
  <2> QED
    BY <2>2, <2>3
<1>15. CASE TimePasses
  <2>1. socks'[e] = AgedSocket(s)
    BY <1>15 DEF TimePasses
  <2>2. OnlyAges(s, socks'[e])
    BY <1>1, <2>1, SocketAged
  <2> QED
    BY <1>4, <2>2 DEF OnlyAges, SameSocket, StaysOver
<1> QED
  BY <1>6, <1>7, <1>8, <1>9, <1>10, <1>11, <1>12, <1>13, <1>14, <1>15 DEF Next

(* A socket that is over stays so, and the reason its application is given *)
(* does not change, but to an error of the framing.                        *)
THEOREM OverForGood == Spec => OverIsFinal
<1>1. ConnectionInv /\ [Next]_vars =>
        [\A e \in Ends : Exists(e) /\ IsOver(socks[e].status) =>
           \/ socks'[e] = NoSocket
           \/ socks'[e].status \in {socks[e].status, "Error"}]_vars
  BY SocketGoes DEF StaysOver
<1> QED
  BY <1>1, TcpInvariance, PTL DEF Spec, OverIsFinal

(* The listener removes a remote only when its application has taken every *)
(* event of it, and one of them says how the connection ended.             *)
THEOREM RemovedWhenTold == Spec => RemovalIsAnnounced
<1>1. ASSUME ConnectionInv, Next, Exists("server"), socks'["server"] = NoSocket,
             "server" \notin dropped'
      PROVE  LET s == socks["server"]
             IN  /\ s.drained = Len(s.events)
                 /\ \E i \in DOMAIN s.events :
                      s.events[i].kind = "Status" /\ IsOver(s.events[i].status)
  <2> DEFINE s == socks["server"]
  <2>1. "server" \in Ends
    BY DEF Ends
  <2>2. ListenerRemoves
    BY <1>1, <2>1, SocketGoes
  <2>3. s.status # "Connected" /\ ~ HasEvents(s)
    BY <2>2 DEF ListenerRemoves, ShouldRetain
  <2>4. SocketOK(s) /\ s.status # "Connecting"
    BY <1>1, <2>1 DEF ConnectionInv, SocketsInv, Held
  <2> HIDE DEF s
  <2>5. s.drained = Len(s.events) /\ DOMAIN s.events = 1 .. Len(s.events)
    BY <2>3, <2>4 DEF SocketOK, SocketRecord, HasEvents
  <2>6. PICK i \in DOMAIN s.events : s.events[i] = StatusEvent(s.status)
    BY <2>4, <2>5 DEF SocketOK, Announced
  <2>7. IsOver(s.status)
    BY <2>3, <2>4 DEF IsOver
  <2>8. s.events[i].kind = "Status" /\ IsOver(s.events[i].status)
    BY <2>6, <2>7 DEF StatusEvent
  <2> QED
    BY <2>5, <2>8 DEF s
<1>2. ConnectionInv /\ [Next]_vars =>
        [Exists("server") /\ socks'["server"] = NoSocket /\ "server" \notin dropped' =>
           LET s == socks["server"]
           IN  /\ s.drained = Len(s.events)
               /\ \E i \in DOMAIN s.events :
                    s.events[i].kind = "Status" /\ IsOver(s.events[i].status)]_vars
  BY <1>1
<1> QED
  BY <1>2, TcpInvariance, PTL DEF Spec, RemovalIsAnnounced

-----------------------------------------------------------------------------
(* What a socket tells its owner.                                          *)

(* An event, as Client names it.                                           *)
Told(event) == IF event.kind = "Data" THEN "Data" ELSE event.status

(* A path of statuses from that of s, after its events, to that of t,      *)
(* after its own, each with the event that TcpMoves gives it.              *)
IsPath(s, t, path) ==
  LET first == Len(s.events)
      last  == Len(t.events)
  IN  /\ path \in [first .. last -> Statuses]
      /\ path[first] = s.status /\ path[last] = t.status
      /\ \A i \in first + 1 .. last :
           <<path[i], Told(t.events[i])>> \in TcpMoves(path[i - 1])

(* t has the events of s, and its others came by such moves.               *)
MovesOn(s, t) ==
  /\ Len(s.events) <= Len(t.events)
  /\ \A i \in 1 .. Len(s.events) : t.events[i] = s.events[i]
  /\ \E path : IsPath(s, t, path)

(* A socket that does nothing.                                             *)
LEMMA MovesNowhere ==
  ASSUME NEW s \in SocketRecord, NEW t, t.events = s.events, t.status = s.status
  PROVE  MovesOn(s, t)
<1> DEFINE n == Len(s.events)
           path == [i \in n .. n |-> s.status]
<1>1. n \in Nat /\ s.status \in Statuses
  BY DEF SocketRecord
<1> HIDE DEF n
<1>2. path \in [n .. n -> Statuses] /\ path[n] = s.status /\ n + 1 .. n = {}
  BY <1>1
<1> HIDE DEF path
<1>3. IsPath(s, t, path)
  BY <1>2 DEF IsPath, n
<1>4. n <= n
  BY <1>1
<1> QED
  BY <1>3, <1>4 DEF MovesOn, n

(* One that goes on, and then queues nothing.                              *)
LEMMA MovesNoFurther ==
  ASSUME NEW r, NEW s, MovesOn(r, s), NEW t, t.events = s.events, t.status = s.status
  PROVE  MovesOn(r, t)
BY DEF MovesOn, IsPath

(* One that goes on, and then makes a move.                                *)
LEMMA MovesFurther ==
  ASSUME NEW r \in SocketRecord, NEW s \in SocketRecord, MovesOn(r, s),
         NEW t, NEW event \in Event, t.events = Append(s.events, event),
         t.status \in Statuses, <<t.status, Told(event)>> \in TcpMoves(s.status)
  PROVE  MovesOn(r, t)
<1> DEFINE first == Len(r.events)
           last  == Len(s.events)
<1>1. first \in Nat /\ last \in Nat /\ first <= last
  BY DEF SocketRecord, MovesOn
<1>2. /\ Len(t.events) = last + 1 /\ t.events[last + 1] = event
      /\ \A i \in 1 .. last : t.events[i] = s.events[i]
  BY DEF SocketRecord
<1>3. PICK path : IsPath(r, s, path)
  BY DEF MovesOn
<1>4. /\ path \in [first .. last -> Statuses]
      /\ path[first] = r.status /\ path[last] = s.status
      /\ \A i \in first + 1 .. last :
           <<path[i], Told(s.events[i])>> \in TcpMoves(path[i - 1])
  BY <1>3 DEF IsPath
<1>5. \A i \in 1 .. first : t.events[i] = r.events[i]
  <2>1. \A i \in 1 .. first : i \in 1 .. last /\ s.events[i] = r.events[i]
    BY <1>1 DEF MovesOn
  <2> QED
    BY <1>2, <2>1
<1> HIDE DEF first, last
<1> DEFINE longer == [i \in first .. last + 1 |-> IF i = last + 1 THEN t.status ELSE path[i]]
<1>6. \A i \in first .. last : i \in first .. last + 1 /\ i # last + 1
  BY <1>1
<1>7. \A i \in first .. last + 1 : i = last + 1 \/ i \in first .. last
  BY <1>1
<1>8. last + 1 \in first .. last + 1 /\ first \in first .. last /\ last \in first .. last
  BY <1>1
<1>9. longer \in [first .. last + 1 -> Statuses]
  BY <1>4, <1>7
<1>10. longer[last + 1] = t.status /\ \A i \in first .. last : longer[i] = path[i]
  BY <1>6, <1>8
<1> HIDE DEF longer
<1>11. ASSUME NEW i \in first + 1 .. last + 1
       PROVE  <<longer[i], Told(t.events[i])>> \in TcpMoves(longer[i - 1])
  <2>1. CASE i = last + 1
    <3>1. i - 1 = last /\ longer[last] = s.status
      BY <1>1, <1>4, <1>8, <1>10, <2>1
    <3> QED
      BY <1>2, <1>10, <2>1, <3>1
  <2>2. CASE i # last + 1
    <3>1. i \in first + 1 .. last /\ i \in first .. last /\ i - 1 \in first .. last
          /\ i \in 1 .. last
      BY <1>1, <2>2
    <3>2. longer[i] = path[i] /\ longer[i - 1] = path[i - 1] /\ t.events[i] = s.events[i]
      BY <1>2, <1>10, <3>1
    <3> QED
      BY <1>4, <3>1, <3>2
  <2> QED
    BY <2>1, <2>2
<1>12. longer[first] = r.status
  BY <1>4, <1>8, <1>10
<1>13. IsPath(r, t, longer)
  BY <1>2, <1>9, <1>10, <1>11, <1>12 DEF IsPath, first
<1>14. first <= last + 1
  BY <1>1
<1> QED
  BY <1>2, <1>5, <1>13, <1>14 DEF MovesOn, first

(* A status is set and announced.                                          *)
LEMMA MovesToStatus ==
  ASSUME NEW r \in SocketRecord, NEW s, SocketOK(s), MovesOn(r, s),
         NEW status \in Statuses, <<status, status>> \in TcpMoves(s.status)
  PROVE  MovesOn(r, WithStatus(s, status))
<1> DEFINE v == StatusEvent(status)
           t == WithStatus(s, status)
<1>1. s \in SocketRecord /\ v \in Event /\ Told(v) = status
  BY DEF SocketOK, Event, StatusEvent, Told
<1>2. t.status = status
  BY StatusPushed
<1>3. t.events = Append(s.events, v)
  <2> DEFINE p == Pushed(s, v)
  <2>1. p = [status |-> s.status, recvAge |-> s.recvAge, sentAge |-> s.sentAge,
             nextSeq |-> s.nextSeq, lastOk |-> s.lastOk, events |-> Append(s.events, v),
             drained |-> s.drained]
    BY <1>1, PushedIs
  <2>2. t = [p EXCEPT !.status = status]
    BY DEF WithStatus
  <2> HIDE DEF p, t, v
  <2> QED
    BY <2>1, <2>2
<1> HIDE DEF v, t
<1>4. MovesOn(r, t)
  BY <1>1, <1>2, <1>3, MovesFurther
<1> QED
  BY <1>4 DEF t

(* set_status: a status that is not kept out is one of the moves.          *)
LEMMA MovesOrKeeps ==
  ASSUME NEW r \in SocketRecord, NEW s, SocketOK(s), MovesOn(r, s),
         NEW status \in {"Timeout", "RemoteEnded", "Error"}
  PROVE  MovesOn(r, SetStatus(s, status)) /\ SocketOK(SetStatus(s, status))
<1>1. status \in Statuses /\ IsOver(status) /\ s.status \in Statuses
  BY DEF Statuses, IsOver, SocketOK, SocketRecord
<1>2. SocketOK(SetStatus(s, status))
  BY <1>1, StatusSet DEF SameSocket
<1>3. CASE IsOver(s.status)
  BY <1>1, <1>2, <1>3 DEF SetStatus
<1>4. CASE ~ IsOver(s.status)
  <2>1. SetStatus(s, status) = WithStatus(s, status)
    BY <1>4 DEF SetStatus, WithStatus
  <2>2. <<status, status>> \in TcpMoves(s.status)
    BY <1>1, <1>4 DEF IsOver, TcpMoves
  <2> QED
    BY <1>1, <1>2, <2>1, <2>2, MovesToStatus
<1> QED
  BY <1>3, <1>4

(* One result: its data is queued, or its error takes the place of any     *)
(* status, or nothing is seen of it.                                       *)
LEMMA MovesByResult ==
  ASSUME NEW r \in SocketRecord, NEW s, SocketOK(s), MovesOn(r, s), NEW result \in Result
  PROVE  MovesOn(r, WithResult(s, result))
<1> DEFINE t == WithResult(s, result)
<1>1. s \in SocketRecord /\ s.status \in Statuses
  BY DEF SocketOK, SocketRecord
<1>2. CASE result.kind = "Data"
  <2> DEFINE v == DataEvent(result.seq)
  <2>1. v \in Event /\ Told(v) = "Data"
    BY <1>2 DEF Event, DataEvent, Result, Nums, Told
  <2>2. t = Pushed(s, v)
    BY <1>2 DEF WithResult
  <2> HIDE DEF v, t
  <2>3. t.events = Append(s.events, v) /\ t.status = s.status
    BY <1>1, <2>2, PushedIs
  <2>4. <<t.status, Told(v)>> \in TcpMoves(s.status)
    BY <2>1, <2>3 DEF TcpMoves
  <2>5. MovesOn(r, t)
    BY <1>1, <2>1, <2>3, <2>4, MovesFurther
  <2> QED
    BY <2>5 DEF t
<1>3. CASE result.kind = "Error"
  <2>1. t = WithStatus(s, "Error") /\ "Error" \in Statuses
    BY <1>3 DEF WithResult, WithStatus, Statuses
  <2>2. <<"Error", "Error">> \in TcpMoves(s.status)
    BY DEF TcpMoves
  <2> QED
    BY <2>1, <2>2, MovesToStatus
<1>4. CASE result.kind \in {"Heartbeat", "SeqIdOk"}
  <2>1. t = [s EXCEPT !.recvAge = 0] \/ t = [s EXCEPT !.lastOk = {result.seq}]
    BY <1>4 DEF WithResult
  <2> HIDE DEF t
  <2>2. t.events = s.events /\ t.status = s.status
    BY <1>1, <2>1 DEF SocketRecord
  <2>3. MovesOn(r, t)
    BY <2>2, MovesNoFurther
  <2> QED
    BY <2>3 DEF t
<1> QED
  BY <1>2, <1>3, <1>4 DEF Result

(* process_ingester_results.                                               *)
LEMMA MovesByResults ==
  ASSUME NEW s, SocketOK(s), NEW results \in Seq(Result)
  PROVE  MovesOn(s, Ingested(s, results)) /\ SocketOK(Ingested(s, results))
<1> DEFINE n == Len(results)
<1>1. n \in Nat /\ (\A i \in 1 .. n : results[i] \in Result) /\ s \in SocketRecord
  BY DEF SocketOK
<1>2. PICK h : /\ h[0] = s
               /\ \A i \in 1 .. n : h[i] = WithResult(h[i - 1], results[i])
               /\ Ingested(s, results) = h[n]
  BY IngestedStepwise
<1> HIDE DEF n
<1> DEFINE T == {k \in Nat : k <= n => MovesOn(s, h[k]) /\ SocketOK(h[k])}
<1>3. 0 \in T
  BY <1>1, <1>2, MovesNowhere
<1>4. ASSUME NEW k \in Nat, k \in T PROVE k + 1 \in T
  <2> SUFFICES ASSUME k + 1 <= n PROVE MovesOn(s, h[k + 1]) /\ SocketOK(h[k + 1])
    OBVIOUS
  <2>1. MovesOn(s, h[k]) /\ SocketOK(h[k]) /\ k + 1 \in 1 .. n /\ (k + 1) - 1 = k
    BY <1>1, <1>4
  <2>2. h[k + 1] = WithResult(h[k], results[k + 1]) /\ results[k + 1] \in Result
    BY <1>1, <1>2, <2>1
  <2>3. SocketOK(h[k + 1])
    BY <2>1, <2>2, ResultTaken DEF SameSocket
  <2> QED
    BY <1>1, <2>1, <2>2, <2>3, MovesByResult
<1> HIDE DEF T
<1>5. n \in T
  BY <1>1, <1>3, <1>4, AllNumbers
<1> QED
  BY <1>1, <1>2, <1>5 DEF T

(* process(), once it has looked at the connecting thread.                 *)
LEMMA MovesByProcess ==
  ASSUME NEW s, SocketOK(s), NEW results \in Seq(Result), NEW end \in StreamEnds
  PROVE  MovesOn(s, Processed(s, results, end))
<1> DEFINE i == Ingested(s, results)
           t == CheckedTimeout(i)
           u == IF IsHeartbeatDue(t) THEN [t EXCEPT !.sentAge = 0] ELSE t
<1>1. MovesOn(s, i) /\ SocketOK(i) /\ s \in SocketRecord
  BY MovesByResults DEF SocketOK
<1> HIDE DEF i
<1>2. MovesOn(s, t) /\ SocketOK(t)
  BY <1>1, MovesOrKeeps DEF CheckedTimeout
<1> HIDE DEF t
<1>3. MovesOn(s, u) /\ SocketOK(u)
  <2>1. CASE IsHeartbeatDue(t)
    <3>1. t \in SocketRecord /\ t.recvAge \in 0 .. TimeoutDelay /\ 0 \in 0 .. HeartbeatInterval
      BY <1>2, NumbersOnly DEF SocketOK, SocketRecord
    <3>2. u = WithAges(t, t.recvAge, 0)
      <4>1. t = [t EXCEPT !.recvAge = t.recvAge] /\ u = [t EXCEPT !.sentAge = 0]
        BY <2>1, <3>1 DEF SocketRecord
      <4> QED
        BY <4>1 DEF WithAges
    <3>3. OnlyAges(t, u)
      BY <1>2, <3>1, <3>2, AgesDoNotMatter
    <3> HIDE DEF u
    <3> QED
      BY <1>2, <3>3, MovesNoFurther DEF OnlyAges, SameSocket
  <2>2. CASE ~ IsHeartbeatDue(t)
    BY <1>2, <2>2
  <2> QED
    BY <2>1, <2>2
<1> HIDE DEF u
<1>4. Processed(s, results, end) = IF end = "Ok" THEN u ELSE SetStatus(u, end)
  BY DEF Processed, u, t, i
<1>5. CASE end = "Ok"
  BY <1>3, <1>4, <1>5
<1>6. CASE end # "Ok"
  <2>1. end \in {"Timeout", "RemoteEnded", "Error"}
    BY <1>6 DEF StreamEnds
  <2> QED
    BY <1>1, <1>3, <1>4, <1>6, <2>1, MovesOrKeeps
<1> QED
  BY <1>5, <1>6

(* From s to t, what a client may do inside process(), or the answer to a  *)
(* send_end.                                                               *)
ActsAsClient(s, t) ==
  \/ MovesOn(s, t)
  \/ /\ ends' = ends + 1 /\ ~ IsOver(s.status)
     /\ t.status = "LocalEnded" /\ t.events = Append(s.events, StatusEvent("LocalEnded"))

(* One socket, in one step.                                                *)
LEMMA SocketActs ==
  ASSUME ConnectionInv, Next, NEW e \in Ends, Exists(e), socks'[e] # NoSocket
  PROVE  ActsAsClient(socks[e], socks'[e])
<1> DEFINE s == socks[e]
           Acts == ActsAsClient(s, socks'[e])
<1>1. Held(e, s) /\ SocketOK(s) /\ s \in SocketRecord
  BY DEF ConnectionInv, SocketsInv, Held, SocketOK
<1>2. socks \in [Ends -> SocketRecord \cup {NoSocket}]
  BY DEF ConnectionInv, SocketsInv
<1>3. ASSUME socks'[e].status = s.status, socks'[e].events = s.events PROVE Acts
  BY <1>1, <1>3, MovesNowhere DEF ActsAsClient
<1>4. ASSUME NEW d \in Ends, Processes(d, socks[d]) PROVE Acts
  <2>1. CASE d # e
    <3>1. socks'[e] = s
      BY <1>4, <2>1, ProcessesPlain
    <3> QED
      BY <1>3, <3>1
  <2>2. CASE d = e
    <3>1. inbox[e] \in Seq(Message) /\ Len(inbox[e]) \in Nat /\ broken[e] \in BOOLEAN
      BY TypesAt DEF ConnectionInv
    <3>2. PICK n, results, end, taken : ProcessesTo(e, s, n, results, end, taken)
      BY <1>4, <2>2, <3>1, ProcessesIs
    <3>3. /\ n \in 0 .. Len(inbox[e]) /\ results \in Readings(e, SubSeq(inbox[e], 1, n))
          /\ end \in ReadEnds(e, n)
          /\ socks' = [socks EXCEPT ![e] = Processed(s, results, end)]
      BY <3>2 DEF ProcessesTo
    <3>4. socks'[e] = Processed(s, results, end)
      BY <1>2, <3>3
    <3>5. results \in Seq(Result)
      <4> DEFINE ms == SubSeq(inbox[e], 1, n)
      <4>1. ms \in Seq(Message)
        BY <3>1, <3>3
      <4> HIDE DEF ms
      <4>2. results \in Readings(e, ms)
        BY <3>3 DEF ms
      <4> QED
        BY <3>1, <4>1, <4>2, ReadingsAre
    <3>6. end \in StreamEnds
      BY <3>3 DEF ReadEnds, StreamEnds
    <3> QED
      BY <1>1, <3>4, <3>5, <3>6, MovesByProcess DEF ActsAsClient
  <2> QED
    BY <2>1, <2>2
<1>5. CASE Cut \/ Dials
  BY <1>3, <1>5 DEF Cut, Dials
<1>6. CASE ClientChecksDial
  <2>1. "client" \in Ends /\ socks["client"].status = "Connecting"
        /\ socks' = [socks EXCEPT !["client"] = UpdatedConnecting(@)]
    BY <1>6 DEF ClientChecksDial, Ends
  <2>2. CASE e # "client"
    BY <1>2, <1>3, <2>1, <2>2
  <2>3. CASE e = "client"
    <3>1. socks'[e] = UpdatedConnecting(s) /\ s.status = "Connecting"
      BY <1>2, <2>1, <2>3
    <3>2. ASSUME NEW status \in {"Connected", "Timeout", "Error"},
                 UpdatedConnecting(s) = SetStatus(s, status)
          PROVE  Acts
      <4>1. status \in Statuses /\ <<status, status>> \in TcpMoves(s.status)
        BY <3>1 DEF Statuses, TcpMoves
      <4>2. socks'[e] = WithStatus(s, status)
        BY <3>1, <3>2 DEF SetStatus, WithStatus, IsOver
      <4>3. MovesOn(s, s)
        BY <1>1, MovesNowhere
      <4> QED
        BY <1>1, <4>1, <4>2, <4>3, MovesToStatus DEF ActsAsClient
    <3>3. CASE dial = "Trying"
      BY <1>3, <3>1, <3>3 DEF UpdatedConnecting
    <3>4. CASE dial = "Ok"
      BY <3>2, <3>4 DEF UpdatedConnecting
    <3>5. CASE dial = "TimedOut"
      BY <3>2, <3>5 DEF UpdatedConnecting
    <3>6. CASE dial = "Failed"
      BY <3>2, <3>6 DEF UpdatedConnecting
    <3> QED
      BY <3>3, <3>4, <3>5, <3>6 DEF ConnectionInv, PlainInv, Dialed
  <2> QED
    BY <2>2, <2>3
<1>7. CASE ClientProcesses \/ ListenerProcesses
  BY <1>4, <1>7 DEF ClientProcesses, ListenerProcesses, Ends
<1>8. CASE ListenerAccepts
  <2>1. backlog /\ "server" \in Ends
        /\ Processes("server", NewSocket("Connected", <<StatusEvent("Connected")>>))
    BY <1>8 DEF ListenerAccepts, Ends
  <2>2. e # "server"
    BY <2>1 DEF ConnectionInv, LifeInv
  <2>3. socks'[e] = s
    BY <2>1, <2>2, ProcessesPlain
  <2> QED
    BY <1>3, <2>3
<1>9. CASE ListenerRemoves
  <2>1. socks' = [socks EXCEPT !["server"] = NoSocket]
    BY <1>9 DEF ListenerRemoves
  <2> QED
    BY <1>2, <1>3, <2>1
<1>10. ASSUME NEW d \in Ends, AppSends(d) PROVE Acts
  <2>1. socks' = [socks EXCEPT ![d] = WithNextSeq(socks[d])]
    BY <1>10 DEF AppSends, WithNextSeq
  <2>2. CASE e # d
    BY <1>2, <1>3, <2>1, <2>2
  <2>3. CASE e = d
    <3>1. socks'[e] = WithNextSeq(s) /\ s.nextSeq + 1 \in Nums
      BY <1>2, <1>10, <2>1, <2>3, SendsIs
    <3> QED
      BY <1>1, <1>3, <3>1, NextSeqUsed
  <2> QED
    BY <2>2, <2>3
<1>11. ASSUME NEW d \in Ends, AppEnds(d) PROVE Acts
  <2>1. socks' = [socks EXCEPT ![d] = SetStatus(socks[d], "LocalEnded")] /\ ends' = ends + 1
    BY <1>11 DEF AppEnds
  <2>2. CASE e # d
    BY <1>2, <1>3, <2>1, <2>2
  <2>3. CASE e = d
    <3>1. socks'[e] = SetStatus(s, "LocalEnded")
      BY <1>2, <2>1, <2>3
    <3>2. CASE IsOver(s.status)
      <4>1. IsOver("LocalEnded")
        BY DEF IsOver
      <4>2. socks'[e] = s
        BY <3>1, <3>2, <4>1 DEF SetStatus
      <4> QED
        BY <1>3, <4>2
    <3>3. CASE ~ IsOver(s.status)
      <4> DEFINE p == Pushed(s, StatusEvent("LocalEnded"))
      <4>1. socks'[e] = [p EXCEPT !.status = "LocalEnded"]
        BY <3>1, <3>3 DEF SetStatus
      <4>2. p = [status |-> s.status, recvAge |-> s.recvAge, sentAge |-> s.sentAge,
                 nextSeq |-> s.nextSeq, lastOk |-> s.lastOk,
                 events |-> Append(s.events, StatusEvent("LocalEnded")),
                 drained |-> s.drained]
        BY <1>1, PushedIs
      <4> HIDE DEF p
      <4>3. /\ socks'[e].status = "LocalEnded"
            /\ socks'[e].events = Append(s.events, StatusEvent("LocalEnded"))
        BY <4>1, <4>2
      <4> QED
        BY <2>1, <3>3, <4>3 DEF ActsAsClient
    <3> QED
      BY <3>2, <3>3
  <2> QED
    BY <2>2, <2>3
<1>12. ASSUME NEW d \in Ends, AppDrops(d) PROVE Acts
  <2>1. socks' = [socks EXCEPT ![d] = NoSocket]
    BY <1>12 DEF AppDrops
  <2> QED
    BY <1>2, <1>3, <2>1
<1>13. CASE AppDrains
  <2>1. socks' = [socks EXCEPT !["server"] = WithDrained(socks["server"], Len(socks["server"].events))]
    BY <1>13 DEF AppDrains, WithDrained
  <2>2. CASE e # "server"
    BY <1>2, <1>3, <2>1, <2>2
  <2>3. CASE e = "server"
    <3>1. socks'[e] = WithDrained(s, Len(s.events))
      BY <1>2, <2>1, <2>3
    <3> QED
      BY <1>1, <1>3, <3>1, DrainedIs
  <2> QED
    BY <2>2, <2>3
<1>14. CASE TimePasses
  <2>1. socks'[e] = AgedSocket(s)
    BY <1>14 DEF TimePasses
  <2> QED
    BY <1>1, <1>3, <2>1, SocketAged DEF OnlyAges
<1> QED
  BY <1>5, <1>6, <1>7, <1>8, <1>9, <1>10, <1>11, <1>12, <1>13, <1>14 DEF Next

(* What the owner of a socket sees of it, step by step, is what Client     *)
(* takes a client of rbtl-tcp for: each status it takes comes with its     *)
(* event, by TcpMoves, whatever was read; but for a send_end, which ends   *)
(* what is not over.                                                       *)
THEOREM TcpSocketsMoveAsClients ==
  Spec => [][\A e \in Ends : Exists(e) /\ socks'[e] # NoSocket =>
               ActsAsClient(socks[e], socks'[e])]_vars
<1>1. ConnectionInv /\ [Next]_vars =>
        [\A e \in Ends : Exists(e) /\ socks'[e] # NoSocket =>
           ActsAsClient(socks[e], socks'[e])]_vars
  BY SocketActs
<1> QED
  BY <1>1, TcpInvariance, PTL DEF Spec
=============================================================================
