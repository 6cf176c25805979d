---------------------------- MODULE ClientProofs ----------------------------
(***************************************************************************)
(* The client of rbtl_structs!, for any delays, any number of messages,    *)
(* receipts and events, any length of the tracker and any list of          *)
(* protocols: its pings are true; the connector gives every protocol its   *)
(* turn; no event is lost or reordered on its way from the socket through  *)
(* the worker's buffer to the owner; and the events tell the status.       *)
(*                                                                         *)
(* Four inductive invariants say why.  PingInv: a ping under way was taken *)
(* with a message that has no receipt yet and is as old as it, and the     *)
(* pings are recorded newest first.  ConnectorInv: the client in hand is   *)
(* one that is offered, everything before it is done, and what was offered *)
(* before it has failed in that order.  EventsInv: what was read, what is  *)
(* stored in reverse, what is in the buffer and what is in the client are, *)
(* one after the other, all the events there were.  StatusInv: the last    *)
(* event that tells a status tells the one the socket has, and a client    *)
(* the worker has let go of holds no event that is not excused.            *)
(***************************************************************************)
EXTENDS AsyncClient, SelectionsProofs, TLAPS

Message == [age : 0 .. PingClamp, underWay : BOOLEAN, took : SUBSET (0 .. PingClamp - 1)]

SentInv ==
  /\ nextSeqId \in Nat
  /\ DOMAIN sent \subseteq 0 .. nextSeqId - 1
  /\ \A q \in DOMAIN sent :
       /\ sent[q] \in Message
       /\ sent[q].took = {} => sent[q].underWay

WaitingInv ==
  \A w \in waitingPing :
    /\ w.seq < nextSeqId
    /\ w.seq \in DOMAIN sent =>
         /\ sent[w.seq].took = {}
         /\ sent[w.seq].age = IF w.age < PingClamp THEN w.age ELSE PingClamp

NewestFirst ==
  \A i, j \in DOMAIN recordedPings :
    i < j => recordedPings[i].age <= recordedPings[j].age

RecordedInv ==
  \A i \in DOMAIN recordedPings :
    LET r == recordedPings[i] IN r.seq \in DOMAIN sent /\ r.ping \in sent[r.seq].took

PingInv == PingTypeOK /\ SentInv /\ WaitingInv /\ NewestFirst /\ RecordedInv

pingState == <<sent, nextSeqId, pingVars>>

-----------------------------------------------------------------------------
(* Facts about the operators of the tracker.                               *)

(* What the assumptions say of the constants of the tracker.               *)
LEMMA PingConstants ==
  /\ PingsLen \in Nat \ {0} /\ PingPatience \in Nat /\ PingClamp \in Nat \ {0}
  /\ MaxWindow \in Nat
  /\ PingAgeLimit \in Nat /\ PingAgeLimit >= PingClamp
BY PingAssumption DEF PingAgeLimit

(* What the records are after another one.                                 *)
LEMMA RegisteredElements ==
  ASSUME PingTypeOK, NEW w \in waitingPing
  PROVE  LET all == Registered(w)
             n   == Len(recordedPings)
         IN  /\ all \in Seq([seq : Nat, ping : 0 .. PingClamp - 1, age : 0 .. MaxWindow + 1])
             /\ Len(all) <= PingsLen
             /\ Len(all) \in 1 .. n + 1
             /\ all[1] = [seq |-> w.seq, ping |-> RoundTrip(w.age), age |-> 0]
             /\ \A i \in 2 .. Len(all) : all[i] = recordedPings[i - 1]
<1> DEFINE R == [seq : Nat, ping : 0 .. PingClamp - 1, age : 0 .. MaxWindow + 1]
           new == [seq |-> w.seq, ping |-> RoundTrip(w.age), age |-> 0]
           n == Len(recordedPings)
           both == <<new>> \o recordedPings
           k == IF n < PingsLen THEN n + 1 ELSE PingsLen
<1>1. w.seq \in Nat /\ w.age \in 0 .. PingAgeLimit
  BY DEF PingTypeOK
<1>2. RoundTrip(w.age) \in 0 .. PingClamp - 1
  BY <1>1, PingConstants DEF RoundTrip
<1>3. new \in R
  BY <1>1, <1>2, PingConstants
<1>4. recordedPings \in Seq(R) /\ n \in Nat /\ n <= PingsLen
  BY DEF PingTypeOK
<1>5. both \in Seq(R) /\ Len(both) = n + 1
  BY <1>3, <1>4
<1>6. both[1] = new /\ \A i \in 2 .. n + 1 : both[i] = recordedPings[i - 1]
  BY <1>3, <1>4
<1>7. k \in 1 .. n + 1 /\ k <= PingsLen
  BY <1>4, PingConstants
<1>8. /\ SubSeq(both, 1, k) \in Seq(R)
      /\ Len(SubSeq(both, 1, k)) = k
      /\ \A i \in 1 .. k : SubSeq(both, 1, k)[i] = both[i]
  <2> HIDE DEF R, both, k, n, new
  <2> QED BY <1>5, <1>7, <1>4
<1>9. Registered(w) = SubSeq(both, 1, k)
  BY DEF Registered
<1> HIDE DEF R, both, k, n
<1> QED
  BY <1>4, <1>5, <1>6, <1>7, <1>8, <1>9 DEF R, n

(* The age of a record is a number.                                        *)
LEMMA PingAges ==
  ASSUME PingTypeOK, NEW i \in DOMAIN recordedPings
  PROVE  recordedPings[i].age \in 0 .. MaxWindow + 1 /\ recordedPings[i].age \in Nat
<1> DEFINE R == [seq : Nat, ping : 0 .. PingClamp - 1, age : 0 .. MaxWindow + 1]
<1>1. recordedPings \in Seq(R)
  BY DEF PingTypeOK
<1>2. recordedPings[i] \in R
  <2> HIDE DEF R
  <2> QED BY <1>1
<1> QED
  BY <1>2, PingConstants

(* Averages over the newest pings are over all recent ones.                *)
LEMMA NewestAreRecent ==
  ASSUME PingTypeOK, NewestFirst
  PROVE  AveragesAreComplete
<1> SUFFICES ASSUME NEW s \in 1 .. MaxWindow
    PROVE  LET recent == {i \in DOMAIN recordedPings : recordedPings[i].age <= s}
           IN  AveragedPings(s) = IF recent = {} THEN DOMAIN recordedPings \cap {1} ELSE recent
  BY DEF AveragesAreComplete
<1> DEFINE recent == {i \in DOMAIN recordedPings : recordedPings[i].age <= s}
           taken  == {i \in DOMAIN recordedPings :
                        \A j \in 1 .. i : recordedPings[j].age <= s}
<1>1. s # 0 /\ s \in Nat
  BY PingConstants
<1>2. DOMAIN recordedPings = 1 .. Len(recordedPings) /\ Len(recordedPings) \in Nat
  BY DEF PingTypeOK
<1>3. \A i \in DOMAIN recordedPings : recordedPings[i].age \in Nat
  BY PingAges
<1>4. taken \subseteq recent
  BY <1>2
<1>5. ASSUME NEW i \in recent PROVE i \in taken
  <2>1. ASSUME NEW j \in 1 .. i PROVE recordedPings[j].age <= s
    BY <1>1, <1>2, <1>3 DEF NewestFirst
  <2> QED
    BY <2>1
<1>6. taken = recent
  BY <1>4, <1>5
<1> QED
  BY <1>1, <1>6 DEF AveragedPings

-----------------------------------------------------------------------------
(* The steps of the client that touch what is measured.                    *)

(* A ping is taken with the message that is sent, if at all.               *)
LEMMA PingTaken ==
  ASSUME PingInv, Ping(nextSeqId)
  PROVE  /\ UNCHANGED recordedPings
         /\ \A w \in waitingPing' :
              w \in waitingPing \/ (w.seq = nextSeqId /\ w.age = 0)
         /\ PingTypeOK'
<1> USE DEF PingInv
<1>1. CASE UNCHANGED waitingPing
  BY <1>1 DEF Ping, PingTypeOK
<1>2. CASE waitingPing' = {[seq |-> nextSeqId, age |-> 0]}
  BY <1>2, PingConstants DEF Ping, PingTypeOK, SentInv
<1> QED
  BY <1>1, <1>2 DEF Ping

(* Sending a message, whether it goes out and is a ping or not.            *)
LEMMA SendKeepsPings ==
  ASSUME PingInv, ClientSends
  PROVE  PingInv'
<1> USE DEF PingInv
<1>0. nextSeqId \in Nat /\ nextSeqId' = nextSeqId + 1 /\ nextSeqId \notin DOMAIN sent
  BY DEF ClientSends, SentInv
<1>1. CASE /\ Ping(nextSeqId)
           /\ sent' = [q \in DOMAIN sent \cup {nextSeqId} |->
                         IF q = nextSeqId THEN [age |-> 0, underWay |-> TRUE, took |-> {}]
                           ELSE sent[q]]
  <2>1. UNCHANGED recordedPings /\ PingTypeOK'
    BY <1>1, PingTaken
  <2>2. /\ DOMAIN sent' = DOMAIN sent \cup {nextSeqId}
        /\ sent'[nextSeqId] = [age |-> 0, underWay |-> TRUE, took |-> {}]
        /\ \A q \in DOMAIN sent : sent'[q] = sent[q]
    BY <1>0, <1>1
  <2>3. [age |-> 0, underWay |-> TRUE, took |-> {}] \in Message
    BY PingConstants DEF Message
  <2>4. SentInv'
    <3>1. DOMAIN sent' \subseteq 0 .. nextSeqId' - 1
      BY <1>0, <2>2 DEF SentInv
    <3>2. ASSUME NEW q \in DOMAIN sent
          PROVE  sent'[q] \in Message /\ (sent'[q].took = {} => sent'[q].underWay)
      BY <2>2 DEF SentInv
    <3>3. sent'[nextSeqId] \in Message /\ sent'[nextSeqId].underWay
      BY <2>2, <2>3
    <3>4. \A q \in DOMAIN sent' :
            sent'[q] \in Message /\ (sent'[q].took = {} => sent'[q].underWay)
      BY <2>2, <3>2, <3>3, Zenon
    <3>5. nextSeqId' \in Nat
      BY <1>0
    <3> QED BY <3>1, <3>4, <3>5, Zenon DEF SentInv
  <2>5. WaitingInv'
    <3> SUFFICES ASSUME NEW w \in waitingPing'
        PROVE /\ w.seq < nextSeqId'
              /\ w.seq \in DOMAIN sent' =>
                   /\ sent'[w.seq].took = {}
                   /\ sent'[w.seq].age = IF w.age < PingClamp THEN w.age ELSE PingClamp
      BY DEF WaitingInv
    <3>1. CASE w \in waitingPing
      <4>1. w.seq < nextSeqId /\ w.seq \in Nat
        BY <3>1 DEF WaitingInv, PingTypeOK
      <4> QED BY <1>0, <2>2, <3>1, <4>1 DEF WaitingInv
    <3>2. CASE w.seq = nextSeqId /\ w.age = 0
      BY <1>0, <2>2, <3>2, PingConstants
    <3> QED BY <1>1, <3>1, <3>2, PingTaken
  <2>6. NewestFirst' /\ RecordedInv'
    BY <2>1, <2>2 DEF NewestFirst, RecordedInv
  <2> QED BY <2>1, <2>4, <2>5, <2>6
<1>2. CASE Ping(nextSeqId) /\ UNCHANGED sent
  <2>1. UNCHANGED recordedPings /\ PingTypeOK'
    BY <1>2, PingTaken
  <2>2. SentInv'
    BY <1>0, <1>2 DEF SentInv
  <2>3. WaitingInv'
    <3> SUFFICES ASSUME NEW w \in waitingPing'
        PROVE /\ w.seq < nextSeqId'
              /\ w.seq \in DOMAIN sent' =>
                   /\ sent'[w.seq].took = {}
                   /\ sent'[w.seq].age = IF w.age < PingClamp THEN w.age ELSE PingClamp
      BY DEF WaitingInv
    <3>1. CASE w \in waitingPing
      BY <1>0, <1>2, <3>1 DEF WaitingInv, PingTypeOK
    <3>2. CASE w.seq = nextSeqId /\ w.age = 0
      BY <1>0, <1>2, <3>2
    <3> QED BY <1>2, <3>1, <3>2, PingTaken
  <2>4. NewestFirst' /\ RecordedInv'
    BY <1>2, <2>1 DEF NewestFirst, RecordedInv
  <2> QED BY <2>1, <2>2, <2>3, <2>4
<1>3. CASE UNCHANGED <<sent, pingVars>>
  <2>1. UNCHANGED <<sent, waitingPing, recordedPings>>
    BY <1>3 DEF pingVars
  <2>2. SentInv'
    BY <1>0, <2>1 DEF SentInv
  <2>3. WaitingInv'
    BY <1>0, <2>1 DEF WaitingInv, PingTypeOK
  <2>4. PingTypeOK' /\ NewestFirst' /\ RecordedInv'
    BY <2>1 DEF PingTypeOK, NewestFirst, RecordedInv
  <2> QED BY <2>2, <2>3, <2>4
<1> QED
  BY <1>1, <1>2, <1>3 DEF ClientSends

(* A receipt of the message q.                                             *)
LEMMA ReceiptKeepsPings ==
  ASSUME PingInv, ClientGetsReceipt
  PROVE  PingInv'
<1> USE DEF PingInv
<1>1. PICK q \in DOMAIN sent : \E again \in BOOLEAN :
        /\ Pong(q)
        /\ sent' = [sent EXCEPT ![q].underWay = again,
                                ![q].took = IF @ = {} THEN {RoundTrip(sent[q].age)} ELSE @]
        /\ UNCHANGED nextSeqId
  BY DEF ClientGetsReceipt
<1>2. PICK again \in BOOLEAN :
        sent' = [sent EXCEPT ![q].underWay = again,
                             ![q].took = IF @ = {} THEN {RoundTrip(sent[q].age)} ELSE @]
  BY <1>1
<1> DEFINE took == IF sent[q].took = {} THEN {RoundTrip(sent[q].age)} ELSE sent[q].took
<1>3. sent[q] \in Message /\ q \in Nat
  BY DEF SentInv
<1>4. RoundTrip(sent[q].age) \in 0 .. PingClamp - 1
  BY <1>3, PingConstants DEF RoundTrip, Message
<1>5. /\ DOMAIN sent' = DOMAIN sent
      /\ \A p \in DOMAIN sent : p # q => sent'[p] = sent[p]
      /\ sent'[q] = [age |-> sent[q].age, underWay |-> again, took |-> took]
  BY <1>2, <1>3 DEF Message
<1>6. took \in SUBSET (0 .. PingClamp - 1) /\ took # {}
  BY <1>3, <1>4 DEF Message
<1>7. SentInv'
  <2>1. ASSUME NEW p \in DOMAIN sent'
        PROVE  sent'[p] \in Message /\ (sent'[p].took = {} => sent'[p].underWay)
    <3>1. CASE p = q
      BY <1>3, <1>5, <1>6, <3>1 DEF Message
    <3>2. CASE p # q
      BY <1>5, <3>2 DEF SentInv
    <3> QED BY <3>1, <3>2
  <2> QED BY <1>1, <1>5, <2>1 DEF SentInv
<1>8. CASE /\ \A w \in waitingPing : ~ IsPongOf(w, q)
           /\ UNCHANGED pingVars
  <2>1. UNCHANGED <<waitingPing, recordedPings>>
    BY <1>8 DEF pingVars
  <2>2. WaitingInv'
    BY <1>1, <1>5, <1>8, <2>1 DEF WaitingInv, IsPongOf
  <2>3. RecordedInv'
    <3> SUFFICES ASSUME NEW i \in DOMAIN recordedPings
        PROVE /\ recordedPings[i].seq \in DOMAIN sent'
              /\ recordedPings[i].ping \in sent'[recordedPings[i].seq].took
      BY <2>1 DEF RecordedInv
    <3> QED BY <1>5 DEF RecordedInv
  <2> QED BY <1>7, <2>1, <2>2, <2>3 DEF PingTypeOK, NewestFirst
<1>9. ASSUME NEW w \in waitingPing, IsPongOf(w, q), recordedPings' = Registered(w),
             waitingPing' = {}
      PROVE  PingInv'
  <2> DEFINE n == Len(recordedPings)
             all == Registered(w)
  <2>1. /\ all \in Seq([seq : Nat, ping : 0 .. PingClamp - 1, age : 0 .. MaxWindow + 1])
        /\ Len(all) <= PingsLen
        /\ Len(all) \in 1 .. n + 1
        /\ all[1] = [seq |-> q, ping |-> RoundTrip(w.age), age |-> 0]
        /\ \A i \in 2 .. Len(all) : all[i] = recordedPings[i - 1]
    BY <1>9, RegisteredElements DEF IsPongOf
  <2>2. n \in Nat /\ DOMAIN recordedPings = 1 .. n /\ DOMAIN all = 1 .. Len(all)
        /\ Len(all) \in Nat
    BY <2>1 DEF PingTypeOK
  <2> HIDE DEF all
  <2>3. PingTypeOK'
    BY <1>9, <2>1 DEF PingTypeOK, all
  <2>4. \A i \in DOMAIN all : i = 1 \/ (i \in 2 .. Len(all) /\ i - 1 \in DOMAIN recordedPings)
    BY <2>1, <2>2
  <2>5. ASSUME NEW i \in DOMAIN all, NEW j \in DOMAIN all, i < j
        PROVE  all[i].age <= all[j].age
    <3>1. j # 1 /\ j - 1 \in DOMAIN recordedPings /\ all[j] = recordedPings[j - 1]
      <4>1. i \in 1 .. Len(all) /\ j \in 1 .. Len(all)
        BY <2>2
      <4>2. j # 1
        BY <2>2, <2>5, <4>1
      <4> QED BY <2>1, <2>4, <4>2
    <3>2. CASE i = 1
      BY <2>1, <3>1, <3>2, PingAges
    <3>3. CASE i # 1
      <4>1. all[i] = recordedPings[i - 1] /\ i - 1 \in DOMAIN recordedPings
        BY <2>1, <2>4, <3>3
      <4> QED BY <2>2, <2>5, <3>1, <4>1 DEF NewestFirst
    <3> QED BY <3>2, <3>3
  <2>6. NewestFirst'
    BY <1>9, <2>5 DEF NewestFirst, all
  <2>7. RoundTrip(w.age) \in took
    <3>1. sent[q].took = {} /\ sent[q].age = IF w.age < PingClamp THEN w.age ELSE PingClamp
      BY <1>9 DEF WaitingInv, IsPongOf
    <3>2. w.age \in Nat
      BY PingConstants DEF PingTypeOK
    <3> QED BY <3>1, <3>2, PingConstants DEF RoundTrip
  <2>8. ASSUME NEW i \in DOMAIN all
        PROVE  all[i].seq \in DOMAIN sent' /\ all[i].ping \in sent'[all[i].seq].took
    <3>1. CASE i = 1
      BY <1>5, <2>1, <2>7, <3>1
    <3>2. CASE i # 1
      <4>1. all[i] = recordedPings[i - 1] /\ i - 1 \in DOMAIN recordedPings
        BY <2>1, <2>4, <3>2
      <4> QED BY <1>5, <4>1 DEF RecordedInv
    <3> QED BY <3>1, <3>2
  <2>9. RecordedInv'
    BY <1>9, <2>8 DEF RecordedInv, all
  <2>10. WaitingInv'
    BY <1>9 DEF WaitingInv
  <2> QED BY <1>7, <2>3, <2>6, <2>9, <2>10
<1> QED
  BY <1>1, <1>8, <1>9 DEF Pong

(* Time passes.  A waiting ping and its message get older together.        *)
LEMMA AgeingKeepsPings ==
  ASSUME PingInv, ClientAges
  PROVE  PingInv'
<1> USE DEF PingInv
<1> DEFINE R == [seq : Nat, ping : 0 .. PingClamp - 1, age : 0 .. MaxWindow + 1]
<1>0. nextSeqId' = nextSeqId
  BY DEF ClientAges
<1>1. /\ waitingPing' = {[w EXCEPT !.age = Later(@, PingAgeLimit)] : w \in waitingPing}
      /\ recordedPings' = [i \in DOMAIN recordedPings |->
           [recordedPings[i] EXCEPT !.age = Later(@, MaxWindow + 1)]]
  BY DEF ClientAges, PingsAge
<1>2. /\ DOMAIN recordedPings = 1 .. Len(recordedPings) /\ Len(recordedPings) \in Nat
      /\ \A i \in DOMAIN recordedPings : recordedPings[i] \in R
  <2>1. recordedPings \in Seq(R)
    BY DEF PingTypeOK
  <2> HIDE DEF R
  <2> QED BY <2>1
<1>3. /\ DOMAIN recordedPings' = DOMAIN recordedPings
      /\ \A i \in DOMAIN recordedPings :
           /\ recordedPings'[i] \in R
           /\ recordedPings'[i].seq = recordedPings[i].seq
           /\ recordedPings'[i].ping = recordedPings[i].ping
           /\ recordedPings'[i].age = Later(recordedPings[i].age, MaxWindow + 1)
  BY <1>1, <1>2, PingConstants DEF Later
<1>4. ASSUME NEW v \in waitingPing'
      PROVE  \E w \in waitingPing :
               v = [seq |-> w.seq, age |-> Later(w.age, PingAgeLimit)]
  BY <1>1 DEF PingTypeOK
<1>5. PingTypeOK'
  <2>1. recordedPings' \in Seq(R) /\ Len(recordedPings') = Len(recordedPings)
    <3>1. recordedPings' = [i \in 1 .. Len(recordedPings) |-> recordedPings'[i]]
      BY <1>1, <1>2
    <3>2. recordedPings' \in [1 .. Len(recordedPings) -> R]
      BY <1>2, <1>3, <3>1
    <3> HIDE DEF R
    <3> QED BY <1>2, <3>2
  <2>2. waitingPing' \subseteq [seq : Nat, age : 0 .. PingAgeLimit]
    BY <1>4, PingConstants DEF PingTypeOK, Later
  <2>3. \A v, w \in waitingPing' : v = w
    BY <1>1 DEF PingTypeOK
  <2> QED BY <2>1, <2>2, <2>3 DEF PingTypeOK
<1>6. /\ DOMAIN sent' = DOMAIN sent
      /\ \A q \in DOMAIN sent :
           /\ sent'[q] \in Message
           /\ sent'[q].took = sent[q].took
           /\ sent'[q].underWay = sent[q].underWay
           /\ sent'[q].age = IF sent[q].underWay /\ sent[q].took = {}
                               THEN Later(sent[q].age, PingClamp) ELSE sent[q].age
  <2>1. sent' = [q \in DOMAIN sent |->
                   [sent[q] EXCEPT !.age = IF sent[q].underWay /\ sent[q].took = {}
                                             THEN Later(@, PingClamp) ELSE @]]
    BY DEF ClientAges
  <2>2. \A q \in DOMAIN sent : sent[q] \in Message
    BY DEF SentInv
  <2> QED BY <2>1, <2>2, PingConstants DEF Message, Later
<1>7. SentInv'
  BY <1>0, <1>6 DEF SentInv
<1>8. WaitingInv'
  <2> SUFFICES ASSUME NEW v \in waitingPing'
      PROVE /\ v.seq < nextSeqId'
            /\ v.seq \in DOMAIN sent' =>
                 /\ sent'[v.seq].took = {}
                 /\ sent'[v.seq].age = IF v.age < PingClamp THEN v.age ELSE PingClamp
    BY DEF WaitingInv
  <2>1. PICK w \in waitingPing : v = [seq |-> w.seq, age |-> Later(w.age, PingAgeLimit)]
    BY <1>4
  <2>2. w.age \in Nat
    BY PingConstants DEF PingTypeOK
  <2>3. v.seq = w.seq /\ v.age = Later(w.age, PingAgeLimit)
    BY <2>1
  <2>4. ASSUME w.seq \in DOMAIN sent
        PROVE  /\ sent[w.seq].took = {} /\ sent[w.seq].underWay
               /\ sent[w.seq].age = IF w.age < PingClamp THEN w.age ELSE PingClamp
    BY <2>4 DEF WaitingInv, SentInv
  <2> QED BY <1>0, <1>6, <2>2, <2>3, <2>4, PingConstants DEF WaitingInv, Later
<1>9. NewestFirst'
  <2> SUFFICES ASSUME NEW i \in DOMAIN recordedPings, NEW j \in DOMAIN recordedPings, i < j
      PROVE recordedPings'[i].age <= recordedPings'[j].age
    BY <1>3 DEF NewestFirst
  <2>1. recordedPings[i].age <= recordedPings[j].age
    BY DEF NewestFirst
  <2>2. /\ recordedPings[i].age \in 0 .. MaxWindow + 1
        /\ recordedPings[j].age \in 0 .. MaxWindow + 1
    BY PingAges
  <2> QED BY <1>3, <2>1, <2>2, PingConstants DEF Later
<1>10. RecordedInv'
  BY <1>3, <1>6 DEF RecordedInv
<1> QED BY <1>5, <1>7, <1>8, <1>9, <1>10

(* A client that is made, or that replaces another, has sent nothing.      *)
LEMMA NothingMeasured ==
  ASSUME sent = <<>>, nextSeqId = 0, waitingPing = {}, recordedPings = <<>>
  PROVE  PingInv
BY PingConstants DEF PingInv, PingTypeOK, SentInv, WaitingInv, NewestFirst, RecordedInv

(* The same of the client a connector made in this step.                   *)
LEMMA StartKeepsPings ==
  ASSUME NEW c, ClientStarts(c)
  PROVE  PingInv'
BY PingConstants
   DEF ClientStarts, PingInv, PingTypeOK, SentInv, WaitingInv, NewestFirst, RecordedInv

(* Steps that measure nothing.                                             *)
LEMMA StutterKeepsPings ==
  ASSUME PingInv, UNCHANGED pingState
  PROVE  PingInv'
BY DEF pingState, pingVars, PingInv, PingTypeOK, SentInv, WaitingInv, NewestFirst,
       RecordedInv

(* What a socket does in process() measures nothing but receipts.          *)
LEMMA MovesKeepPings ==
  ASSUME PingInv, ClientMoves
  PROVE  PingInv'
<1>1. CASE HandshakeResolves \/ ClientQueues
  <2>1. UNCHANGED pingState
    BY <1>1 DEF HandshakeResolves, ClientQueues, Becomes, pingState
  <2> QED BY <2>1, StutterKeepsPings
<1>2. CASE ClientGetsReceipt
  BY <1>2, ReceiptKeepsPings
<1> QED BY <1>1, <1>2 DEF ClientMoves

(* An end of ours measures nothing.                                        *)
LEMMA EndsMeasureNothing ==
  ASSUME ClientEnds
  PROVE  UNCHANGED pingState
BY DEF ClientEnds, Becomes, clientVars, pingState

(* Every step of the connector, the worker and the owner keeps the         *)
(* invariant.                                                              *)
LEMMA NextKeepsPings ==
  ASSUME PingInv, [Next]_vars
  PROVE  PingInv'
<1>1. CASE UNCHANGED clientVars
  BY <1>1, StutterKeepsPings DEF clientVars, pingState
<1>2. CASE ClientMoves
  BY <1>2, MovesKeepPings
<1>3. CASE ClientSends
  BY <1>3, SendKeepsPings
<1>4. CASE ClientEnds
  BY <1>4, EndsMeasureNothing, StutterKeepsPings
<1>5. CASE ClientAges
  BY <1>5, AgeingKeepsPings
<1>6. CASE \E d : Proceeds(d)
  BY <1>6, StartKeepsPings DEF Proceeds
<1>7. CASE UNCHANGED <<events, sent, nextSeqId, pingVars>>
  BY <1>7, StutterKeepsPings DEF pingState
<1>8. ASSUME Connects PROVE UNCHANGED clientVars \/ \E d : Proceeds(d)
  BY <1>8 DEF Connects, ConnectorSteps, NewConnector, AttemptBegins, AttemptFindsNothing,
     AttemptIsPending, AttemptSucceeds, AttemptTriesNext
<1>9. ASSUME WorkerSteps
      PROVE  UNCHANGED clientVars \/ ClientEnds \/ UNCHANGED <<events, sent, nextSeqId, pingVars>>
  BY <1>9 DEF WorkerSteps, WorkerWakes, WorkerLocks, WorkerLocksToStop, WorkerHandsOver,
     WorkerUnlocks, WorkerFlushes, WorkerPanicsOnLock
<1>10. ASSUME OwnerReads \/ OwnerPanics \/ OwnerStops \/ OwnerWaits \/ OwnerDrops \/ OwnerJoins
       PROVE  UNCHANGED clientVars
  BY <1>10 DEF OwnerReads, OwnerDrains, OwnerReadsNext, OwnerPanics, OwnerStops, OwnerWaits,
     OwnerDrops, OwnerJoins
<1>11. ASSUME NewAsync \/ WorkerPanicsInProcess \/ Finishes \/ UNCHANGED vars
       PROVE  UNCHANGED clientVars
  BY <1>11 DEF NewAsync, WorkerPanicsInProcess, Finishes, vars
<1>12. ASSUME ClientMovesInConnector \/ ClientMovesInWorker PROVE ClientMoves
  BY <1>12 DEF ClientMovesInConnector, ClientMovesInAttempt, ClientMovesInWorker
<1>13. ASSUME OwnerSends \/ OwnerEnds \/ TimePasses
       PROVE  ClientSends \/ ClientEnds \/ ClientAges
  BY <1>13 DEF OwnerSends, OwnerEnds, TimePasses
<1> QED
  BY <1>1, <1>2, <1>3, <1>4, <1>5, <1>6, <1>7, <1>8, <1>9, <1>10, <1>11, <1>12, <1>13
  DEF Next

-----------------------------------------------------------------------------
(* The theorems.                                                           *)

(* Whatever the connector tries, the two threads do and the network        *)
(* returns or repeats: the ping under way belongs to a message without a   *)
(* receipt and is as old as it; the pings recorded are those of their      *)
(* messages, newest first.                                                 *)
THEOREM PingInvariant == Spec => []PingInv
<1>1. Init => PingInv
  BY NothingMeasured DEF Init, ConnectorInit, ClientInit, PingInit
<1>2. PingInv /\ [Next]_vars => PingInv'
  BY NextKeepsPings
<1> QED
  BY <1>1, <1>2, PTL DEF Spec

(* Every ping is the round trip of the message it was taken with, and      *)
(* avg_ping averages all the pings of its window and no other.             *)
THEOREM PingsStayTrue == Spec => []PingsAreTrue
<1>1. PingInv => PingsAreTrue
  BY NewestAreRecent DEF PingInv, RecordedInv, PingsAreTrue
<1> QED
  BY <1>1, PingInvariant, PTL

-----------------------------------------------------------------------------
(* The connector: what `next` finds.                                       *)

(* What the assumption says of the protocols.                              *)
LEMMA ProtocolsType ==
  /\ Protocols \in Seq({"Rudp", "Tcp"}) /\ Len(Protocols) \in Nat
  /\ DOMAIN Protocols = 1 .. Len(Protocols)
  /\ Range(Protocols) = {Protocols[i] : i \in 1 .. Len(Protocols)}
  /\ \A i, j \in 1 .. Len(Protocols) : Protocols[i] = Protocols[j] => i = j
  /\ \A i \in 1 .. Len(Protocols) : Protocols[i] \in {"Rudp", "Tcp"}
<1>1. Protocols \in Seq({"Rudp", "Tcp"})
  BY ConnectorAssumption
<1>2. Len(Protocols) \in Nat /\ DOMAIN Protocols = 1 .. Len(Protocols)
      /\ \A i \in 1 .. Len(Protocols) : Protocols[i] \in {"Rudp", "Tcp"}
  BY <1>1
<1> QED
  BY <1>1, <1>2, ConnectorAssumption DEF Range

(* The protocols that are neither done nor unusable, and the first of      *)
(* them: what NextClient comes to, without its recursion.                  *)
Usable(d, unusable) == {i \in 1 .. Len(Protocols) : Protocols[i] \notin d \cup unusable}

Least(S) == {i \in S : \A k \in S : i <= k}

Before(j) == {Protocols[i] : i \in 1 .. j - 1}

Found(d, unusable) ==
  IF Usable(d, unusable) = {} THEN {[done |-> Range(Protocols), kind |-> "None"]}
    ELSE {[done |-> d \cup Before(j), kind |-> Protocols[j]] : j \in Least(Usable(d, unusable))}

(* A set of places in the list that is not empty has one least element.    *)
LEMMA LeastIsOne ==
  ASSUME NEW S \in SUBSET (1 .. Len(Protocols)), S # {}
  PROVE  \E j \in S : Least(S) = {j} /\ \A k \in S : j <= k
<1>1. S \in SUBSET Nat
  BY ProtocolsType
<1>2. PICK j \in S : \A k \in S : j <= k
  BY <1>1, LeastElement
<1>3. \A i \in Least(S) : i = j
  BY <1>1, <1>2 DEF Least
<1> QED
  BY <1>2, <1>3 DEF Least

(* The protocols before the first that is left are done.                   *)
LEMMA BeforeIsDone ==
  ASSUME NEW d, NEW k \in Usable(d, {}), \A i \in Usable(d, {}) : k <= i
  PROVE  Before(k) \subseteq d
<1>1. ASSUME NEW i \in 1 .. k - 1 PROVE Protocols[i] \in d
  <2>1. i \in 1 .. Len(Protocols) /\ ~ (k <= i)
    BY ProtocolsType DEF Usable
  <2> QED
    BY <2>1 DEF Usable
<1> QED
  BY <1>1 DEF Before

(* How the search goes on from the protocols e that are done.              *)
LEMMA SearchStep ==
  ASSUME NEW e \in SUBSET Range(Protocols), NEW unusable
  PROVE  /\ SetDone(e) \in SUBSET Range(Protocols)
         /\ Found(e, unusable) =
              IF CurrKind(e) = {} THEN {[done |-> e, kind |-> "None"]}
              ELSE IF CurrKind(e) \subseteq unusable THEN Found(SetDone(e), unusable)
              ELSE {[done |-> e, kind |-> k] : k \in CurrKind(e)}
<1> DEFINE left == Usable(e, {})
<1>1. CurrKind(e) = {Protocols[i] : i \in Least(left)}
  BY ProtocolsType DEF CurrKind, Usable, Least
<1>2. left \in SUBSET (1 .. Len(Protocols))
  BY DEF Usable
<1>3. CASE left = {}
  <2>1. CurrKind(e) = {} /\ SetDone(e) = e
    BY <1>1, <1>3 DEF Least, SetDone
  <2>2. e = Range(Protocols) /\ Usable(e, unusable) = {}
    BY <1>3, ProtocolsType DEF Usable
  <2> QED
    BY <2>1, <2>2 DEF Found
<1>4. CASE left # {}
  <2>1. PICK k \in left : Least(left) = {k} /\ \A i \in left : k <= i
    BY <1>2, <1>4, LeastIsOne
  <2>2. CurrKind(e) = {Protocols[k]} /\ SetDone(e) = e \cup {Protocols[k]}
    BY <1>1, <2>1 DEF SetDone
  <2>3. SetDone(e) \in SUBSET Range(Protocols)
    BY <1>2, <2>2, ProtocolsType
  <2>4. Before(k) \subseteq e
    BY <2>1, BeforeIsDone
  <2>5. k \in 1 .. Len(Protocols) /\ Protocols[k] \notin e
    BY DEF Usable
  <2>6. CASE Protocols[k] \in unusable
    <3>1. Usable(SetDone(e), unusable) = Usable(e, unusable)
      BY <2>2, <2>6 DEF Usable
    <3>2. CASE Usable(e, unusable) = {}
      BY <2>2, <2>3, <2>6, <3>1, <3>2 DEF Found
    <3>3. CASE Usable(e, unusable) # {}
      <4>1. ASSUME NEW j \in Usable(e, unusable) PROVE Protocols[k] \in Before(j)
        <5>1. j \in left /\ j # k
          BY <2>6 DEF Usable
        <5>2. k \in 1 .. j - 1
          BY <1>2, <2>1, <2>5, <5>1, ProtocolsType
        <5> QED
          BY <5>2 DEF Before
      <4>2. \A j \in Least(Usable(e, unusable)) : SetDone(e) \cup Before(j) = e \cup Before(j)
        BY <2>2, <4>1 DEF Least
      <4>3. Found(SetDone(e), unusable) = Found(e, unusable)
        BY <3>1, <3>3, <4>2 DEF Found
      <4> QED
        BY <2>2, <2>3, <2>6, <4>3
    <3> QED
      BY <2>3, <3>2, <3>3
  <2>7. CASE Protocols[k] \notin unusable
    <3>1. k \in Usable(e, unusable) /\ Usable(e, unusable) \subseteq left
      BY <2>5, <2>7 DEF Usable
    <3>2. Least(Usable(e, unusable)) = {k}
      <4>1. \A i \in Usable(e, unusable) : k <= i
        BY <2>1, <3>1
      <4>2. PICK j \in Usable(e, unusable) : Least(Usable(e, unusable)) = {j}
                                             /\ \A i \in Usable(e, unusable) : j <= i
        BY <1>2, <3>1, LeastIsOne
      <4>3. j = k
        BY <1>2, <3>1, <4>1, <4>2, ProtocolsType
      <4> QED
        BY <4>2, <4>3
    <3>3. Found(e, unusable) = {[done |-> e \cup Before(k), kind |-> Protocols[k]]}
      BY <3>1, <3>2 DEF Found
    <3>4. e \cup Before(k) = e
      BY <2>4
    <3> QED
      BY <2>2, <2>3, <2>7, <3>3, <3>4
  <2> QED
    BY <2>6, <2>7
<1> QED
  BY <1>3, <1>4

(* The search finds the first usable protocol that is not done, with those *)
(* before it done, or nothing.                                             *)
LEMMA NextClientFinds ==
  ASSUME NEW d \in SUBSET Range(Protocols), NEW unusable
  PROVE  NextClient(d, unusable) = Found(d, unusable)
<1> DEFINE P == SUBSET Range(Protocols)
           Searches(f) ==
             f = [e \in P |->
                    IF CurrKind(e) = {} THEN {[done |-> e, kind |-> "None"]}
                    ELSE IF CurrKind(e) \subseteq unusable THEN f[SetDone(e)]
                    ELSE {[done |-> e, kind |-> k] : k \in CurrKind(e)}]
           from  == CHOOSE f : Searches(f)
           found == [e \in P |-> Found(e, unusable)]
           n     == Len(Protocols)
           Late(e, m) == \A i \in Usable(e, {}) : n - m < i
           T == {m \in Nat : \A e \in P : Late(e, m) => from[e] = Found(e, unusable)}
<1>1. Searches(found)
  <2>1. \A e \in P : SetDone(e) \in P
    BY SearchStep
  <2>2. \A e \in P : found[e] = Found(e, unusable)
    OBVIOUS
  <2>3. \A e \in P :
          found[e] = IF CurrKind(e) = {} THEN {[done |-> e, kind |-> "None"]}
                     ELSE IF CurrKind(e) \subseteq unusable THEN found[SetDone(e)]
                     ELSE {[done |-> e, kind |-> k] : k \in CurrKind(e)}
    <3> HIDE DEF found
    <3> QED
      BY <2>1, <2>2, SearchStep
  <2> QED
    BY <2>3
<1>2. Searches(from)
  <2> HIDE DEF Searches
  <2> QED
    BY <1>1
<1>3. NextClient(d, unusable) = from[d]
  BY DEF NextClient
<1> HIDE DEF from, found
<1>4. \A e \in P :
        from[e] = IF CurrKind(e) = {} THEN {[done |-> e, kind |-> "None"]}
                  ELSE IF CurrKind(e) \subseteq unusable THEN from[SetDone(e)]
                  ELSE {[done |-> e, kind |-> k] : k \in CurrKind(e)}
  BY <1>2
<1>5. n \in Nat
  BY ProtocolsType
<1>6. 0 \in T
  <2> SUFFICES ASSUME NEW e \in P, Late(e, 0) PROVE from[e] = Found(e, unusable)
    OBVIOUS
  <2>1. Usable(e, {}) = {}
    BY <1>5 DEF Usable
  <2>2. CurrKind(e) = {}
    BY <2>1, ProtocolsType DEF CurrKind, Usable
  <2> QED
    BY <1>4, <2>2, SearchStep
<1>7. ASSUME NEW m \in Nat, m \in T PROVE m + 1 \in T
  <2> SUFFICES ASSUME NEW e \in P, Late(e, m + 1) PROVE from[e] = Found(e, unusable)
    OBVIOUS
  <2>1. CASE CurrKind(e) # {} /\ CurrKind(e) \subseteq unusable
    <3>1. SetDone(e) \in P
      BY SearchStep
    <3>2. Late(SetDone(e), m)
      <4> SUFFICES ASSUME NEW i \in Usable(SetDone(e), {}) PROVE n - m < i
        OBVIOUS
      <4>1. PICK k \in Least(Usable(e, {})) : Protocols[k] \in CurrKind(e)
        BY <2>1, ProtocolsType DEF CurrKind, Least, Usable
      <4>2. k \in Usable(e, {}) /\ n - (m + 1) < k /\ k \in 1 .. n
        BY <4>1 DEF Least, Usable
      <4>3. i \in Usable(e, {}) /\ i # k /\ i \in 1 .. n
        BY <4>1 DEF SetDone, Usable
      <4>4. k <= i
        BY <4>1, <4>3 DEF Least
      <4> QED
        BY <1>5, <4>2, <4>3, <4>4
    <3>3. from[SetDone(e)] = Found(SetDone(e), unusable)
      BY <1>7, <3>1, <3>2
    <3> QED
      BY <1>4, <2>1, <3>1, <3>3, SearchStep
  <2>2. CASE ~ (CurrKind(e) # {} /\ CurrKind(e) \subseteq unusable)
    BY <1>4, <2>2, SearchStep
  <2> QED
    BY <2>1, <2>2
<1> HIDE DEF T
<1>8. n \in T
  BY <1>5, <1>6, <1>7, AllNumbers
<1>9. Late(d, n)
  BY <1>5 DEF Usable
<1> QED
  BY <1>3, <1>8, <1>9 DEF T

-----------------------------------------------------------------------------
(* The connector: what it has tried.                                       *)

(* The client in hand is one that is offered, and those that were offered  *)
(* before it have failed; or there is none, and all that were offered      *)
(* have failed.                                                            *)
Verdict ==
  IF client = NoClient THEN done = Range(Protocols) /\ failed = InOrder(offered)
    ELSE \E j \in 1 .. Len(Protocols) :
           /\ client.kind = Protocols[j] /\ Protocols[j] \in offered
           /\ done = Before(j) /\ failed = InOrder(offered \cap Before(j))

(* Before(j) and Preceding are the same.                                   *)
LEMMA BeforeIsPreceding ==
  /\ \A j \in 1 .. Len(Protocols) : Before(j) = Preceding(Protocols[j])
  /\ Preceding("None") = Range(Protocols)
<1>1. ASSUME NEW j \in 1 .. Len(Protocols) PROVE Before(j) = Preceding(Protocols[j])
  <2>1. {i \in 1 .. Len(Protocols) :
           \A k \in 1 .. Len(Protocols) : Protocols[k] = Protocols[j] => i < k} = 1 .. j - 1
    BY ProtocolsType
  <2> QED
    BY <2>1, ProtocolsType DEF Before, Preceding
<1>2. Preceding("None") = Range(Protocols)
  BY ProtocolsType DEF Preceding
<1> QED
  BY <1>1, <1>2

(* The next client, after the first k protocols are done with.             *)
LEMMA ProceedsRightly ==
  ASSUME NEW k \in 0 .. Len(Protocols), offered \subseteq Range(Protocols),
         failed \o (IF client = NoClient THEN <<>> ELSE <<client.kind>>)
           = InOrder(offered \cap Before(k + 1)),
         Proceeds(Before(k + 1))
  PROVE  /\ Verdict' /\ UNCHANGED offered
         /\ \/ ClientStarts(NoClient)
            \/ \E p \in Range(Protocols) : ClientStarts(Connecting(p))
<1> DEFINE n == Len(Protocols)
           d == Before(k + 1)
           tried == failed \o (IF client = NoClient THEN <<>> ELSE <<client.kind>>)
<1>1. n \in Nat /\ d = {Protocols[i] : i \in 1 .. k} /\ d \in SUBSET Range(Protocols)
  BY ProtocolsType DEF Before
<1>2. PICK failing \in SUBSET (offered \ d) :
        \E f \in NextClient(d, failing \cup (Range(Protocols) \ offered)) :
          /\ done' = f.done
          /\ failed' = tried \o InOrder(failing \cap Preceding(f.kind))
          /\ ClientStarts(IF f.kind = "None" THEN NoClient ELSE Connecting(f.kind))
          /\ UNCHANGED offered
  BY DEF Proceeds
<1> DEFINE unusable == failing \cup (Range(Protocols) \ offered)
           usable == Usable(d, unusable)
<1>3. PICK f \in Found(d, unusable) :
        /\ done' = f.done
        /\ failed' = tried \o InOrder(failing \cap Preceding(f.kind))
        /\ ClientStarts(IF f.kind = "None" THEN NoClient ELSE Connecting(f.kind))
        /\ UNCHANGED offered
  BY <1>1, <1>2, NextClientFinds
<1>4. tried = InOrder(offered \cap d)
  OBVIOUS
<1> HIDE DEF tried
<1>5. ASSUME NEW B \in SUBSET failing
      PROVE  InOrder((offered \cap d) \cup B) = InOrder(offered \cap d) \o InOrder(B)
  <2>1. ASSUME NEW i \in 1 .. n, NEW j \in 1 .. n, Protocols[i] \in offered \cap d,
               Protocols[j] \in B
        PROVE  i < j
    <3>1. PICK l \in 1 .. k : Protocols[i] = Protocols[l]
      BY <1>1, <2>1
    <3>2. i = l
      BY <1>1, <3>1, ProtocolsType
    <3>3. j \notin 1 .. k
      BY <1>1, <1>2, <2>1
    <3> QED
      BY <1>1, <3>2, <3>3
  <2>2. \A i, j \in 1 .. n : Protocols[i] \in offered \cap d /\ Protocols[j] \in B => i < j
    BY <2>1
  <2> QED
    BY <2>2, ProtocolsType, SelectedSplit DEF InOrder
<1>6. CASE usable = {}
  <2>1. f.done = Range(Protocols) /\ f.kind = "None"
    BY <1>3, <1>6 DEF Found
  <2>2. ClientStarts(NoClient) /\ client' = NoClient
    BY <1>3, <2>1 DEF ClientStarts
  <2>3. \A i \in 1 .. n : Protocols[i] \in offered => Protocols[i] \in d \/ Protocols[i] \in failing
    BY <1>6 DEF Usable
  <2>4. failing \cap Preceding("None") = failing /\ (offered \cap d) \cup failing = offered
    BY <1>2, <2>3, ProtocolsType, BeforeIsPreceding
  <2>5. failed' = InOrder(offered)
    BY <1>3, <1>4, <1>5, <2>1, <2>4
  <2>6. InOrder(offered)' = InOrder(offered)
    BY <1>3 DEF InOrder
  <2> QED
    BY <1>3, <2>1, <2>2, <2>5, <2>6 DEF Verdict
<1>7. CASE usable # {}
  <2>1. usable \in SUBSET (1 .. n)
    BY DEF Usable
  <2>2. PICK j \in usable : Least(usable) = {j} /\ \A i \in usable : j <= i
    BY <1>7, <2>1, LeastIsOne
  <2>3. f.done = d \cup Before(j) /\ f.kind = Protocols[j]
    <3>1. Found(d, unusable) = {[done |-> d \cup Before(i), kind |-> Protocols[i]] : i \in {j}}
      BY <1>7, <2>2 DEF Found
    <3> HIDE DEF unusable, usable
    <3>2. f = [done |-> d \cup Before(j), kind |-> Protocols[j]]
      BY <1>3, <3>1
    <3> QED
      BY <3>2
  <2>4. /\ j \in 1 .. n /\ Protocols[j] \in offered /\ Protocols[j] \notin d
        /\ Protocols[j] \in {"Rudp", "Tcp"} /\ Protocols[j] \in Range(Protocols)
    BY <1>1, ProtocolsType DEF Usable
  <2>5. k < j
    BY <1>1, <2>4
  <2>6. d \subseteq Before(j)
    BY <1>1, <2>4, <2>5 DEF Before
  <2>7. ASSUME NEW i \in 1 .. j - 1
        PROVE  Protocols[i] \in d \/ Protocols[i] \in failing \/ Protocols[i] \notin offered
    <3>1. i \in 1 .. n /\ i \notin usable
      <4> HIDE DEF usable
      <4> QED
        BY <1>1, <2>1, <2>2, <2>4
    <3> QED
      BY <3>1 DEF Usable
  <2>8. offered \cap Before(j) = (offered \cap d) \cup (failing \cap Before(j))
    BY <1>2, <2>6, <2>7 DEF Before
  <2>9. failing \cap Preceding(f.kind) = failing \cap Before(j)
    BY <2>3, <2>4, BeforeIsPreceding
  <2>10. failed' = InOrder(offered \cap Before(j))
    BY <1>3, <1>4, <1>5, <2>8, <2>9
  <2>11. ClientStarts(Connecting(Protocols[j])) /\ client' = Connecting(Protocols[j])
    BY <1>3, <2>3, <2>4 DEF ClientStarts
  <2>12. client' # NoClient /\ client'.kind = Protocols[j]
    BY <2>4, <2>11 DEF Connecting, NoClient
  <2>13. done' = Before(j) /\ offered' = offered
    BY <1>3, <2>3, <2>6
  <2>14. InOrder(offered \cap Before(j))' = InOrder(offered \cap Before(j))
    BY <2>13 DEF InOrder
  <2>15. Verdict'
    BY <2>4, <2>10, <2>12, <2>13, <2>14 DEF Verdict
  <2> QED
    BY <2>4, <2>11, <2>13, <2>15
<1> QED
  BY <1>6, <1>7

-----------------------------------------------------------------------------
(* What a socket does to its status and its queue.                         *)

Statuses ==
  {"SynSent", "Connecting", "Connected", "TimeoutError", "Timeout", "TerminateSent",
   "LocalEnded", "TerminateReceived", "RemoteEnded", "Error"}

Events ==
  {"Data", "Timeout", "Connected", "Ended", "Aborted", "Raw", "LocalEnded", "RemoteEnded",
   "Error"}

ClientInv ==
  /\ events \in Seq(Events)
  /\ client # NoClient =>
       client \in [kind : {"Rudp", "Tcp"}, status : Statuses, queue : Seq(Indices)]

Tells(event) == Len(RbtlEvent(event)) = 2

(* The event tells the status, or the status is what it was.               *)
Truthful(status, event) ==
  IF Tells(event) THEN RbtlEvent(event)[2] = RbtlStatus(status)
    ELSE RbtlStatus(status) = Status

(* The adapters' conversion of each event.                                 *)
LEMMA EventsConverted ==
  /\ RbtlEvent("Data") = <<"Data">> /\ RbtlEvent("Raw") = <<>>
  /\ RbtlEvent("Timeout") = <<"StatusChanged", "Timeout">>
  /\ RbtlEvent("Connected") = <<"StatusChanged", "Ok">>
  /\ RbtlEvent("Ended") = <<"StatusChanged", "EndedByRemote">>
  /\ RbtlEvent("Aborted") = <<"StatusChanged", "EndedByRemote">>
  /\ RbtlEvent("LocalEnded") = <<"StatusChanged", "EndedByUs">>
  /\ RbtlEvent("RemoteEnded") = <<"StatusChanged", "EndedByRemote">>
  /\ RbtlEvent("Error") = <<"StatusChanged", "Error">>
BY DEF RbtlEvent, RbtlStatus

(* Their conversion of each status.                                        *)
LEMMA StatusesConverted ==
  /\ RbtlStatus("SynSent") = "Connecting" /\ RbtlStatus("Connecting") = "Connecting"
  /\ RbtlStatus("Connected") = "Ok"
  /\ RbtlStatus("TimeoutError") = "Timeout" /\ RbtlStatus("Timeout") = "Timeout"
  /\ RbtlStatus("TerminateSent") = "EndedByUs" /\ RbtlStatus("LocalEnded") = "EndedByUs"
  /\ RbtlStatus("TerminateReceived") = "EndedByRemote"
  /\ RbtlStatus("RemoteEnded") = "EndedByRemote" /\ RbtlStatus("Error") = "Error"
BY DEF RbtlStatus

(* Which events tell a status, and which.                                  *)
LEMMA EventsTell ==
  /\ ~ Tells("Data") /\ ~ Tells("Raw")
  /\ \A e \in {"Timeout", "Connected", "Ended", "Aborted", "LocalEnded", "RemoteEnded",
               "Error"} : Tells(e)
  /\ RbtlEvent("Timeout")[2] = "Timeout" /\ RbtlEvent("Connected")[2] = "Ok"
  /\ RbtlEvent("Ended")[2] = "EndedByRemote" /\ RbtlEvent("Aborted")[2] = "EndedByRemote"
  /\ RbtlEvent("LocalEnded")[2] = "EndedByUs"
  /\ RbtlEvent("RemoteEnded")[2] = "EndedByRemote" /\ RbtlEvent("Error")[2] = "Error"
  /\ \A e \in Events : Tells(e) => RbtlEvent(e) # <<>>
<1>1. /\ ~ Tells("Data") /\ ~ Tells("Raw")
      /\ Tells("Timeout") /\ Tells("Connected") /\ Tells("Ended") /\ Tells("Aborted")
      /\ Tells("LocalEnded") /\ Tells("RemoteEnded") /\ Tells("Error")
  BY EventsConverted DEF Tells
<1>2. \A e : Tells(e) => RbtlEvent(e) # <<>>
  BY DEF Tells
<1>3. /\ RbtlEvent("Timeout")[2] = "Timeout" /\ RbtlEvent("Connected")[2] = "Ok"
      /\ RbtlEvent("Ended")[2] = "EndedByRemote" /\ RbtlEvent("Aborted")[2] = "EndedByRemote"
      /\ RbtlEvent("LocalEnded")[2] = "EndedByUs"
      /\ RbtlEvent("RemoteEnded")[2] = "EndedByRemote" /\ RbtlEvent("Error")[2] = "Error"
  BY EventsConverted
<1> QED
  BY <1>1, <1>2, <1>3

(* Whatever a socket does in process(), it queues an event that tells the  *)
(* status it takes, unless the status stays what it was.                   *)
LEMMA MovesAreTold ==
  ASSUME ClientInv, client # NoClient, NEW m \in Moves
  PROVE  m[1] \in Statuses /\ m[2] \in Events /\ Truthful(m[1], m[2])
<1>1. client.kind \in {"Rudp", "Tcp"} /\ client.status \in Statuses
  BY DEF ClientInv
<1>2. ASSUME m[1] = client.status, m[2] \in {"Data", "Raw"}
      PROVE  m[1] \in Statuses /\ m[2] \in Events /\ Truthful(m[1], m[2])
  BY <1>1, <1>2, EventsTell DEF Truthful, Status, Events
<1>3. \/ m[1] = client.status /\ m[2] \in {"Data", "Raw"}
      \/ m[1] = "Connected" /\ m[2] = "Connected"
      \/ m[1] = "TerminateReceived" /\ m[2] \in {"Ended", "Aborted"}
      \/ m[1] \in {"TimeoutError", "Timeout"} /\ m[2] = "Timeout"
      \/ m[1] = "RemoteEnded" /\ m[2] = "RemoteEnded"
      \/ m[1] = "Error" /\ m[2] = "Error"
  <2>1. CASE m \in RudpMoves(client.status)
    BY <2>1 DEF RudpMoves
  <2>2. CASE m \in TcpMoves(client.status)
    BY <2>2 DEF TcpMoves
  <2> QED
    BY <2>1, <2>2 DEF Moves
<1> QED
  BY <1>2, <1>3, EventsTell, StatusesConverted DEF Truthful, Statuses, Events

(* A step that takes a status and queues an event.                         *)
LEMMA BecomesQueues ==
  ASSUME ClientInv, client # NoClient, NEW s \in Statuses, NEW e \in Events, Becomes(s, <<e>>)
  PROVE  /\ ClientInv' /\ client' # NoClient
         /\ client'.kind = client.kind /\ client'.status = s
         /\ client'.queue = Append(client.queue, Len(events) + 1)
         /\ events' = Append(events, e) /\ Len(events') = Len(events) + 1
         /\ Indices' = 1 .. Len(events) + 1 /\ Indices = 1 .. Len(events)
         /\ \A i \in Indices : events'[i] = events[i]
<1> DEFINE n == Len(events)
           R == [kind : {"Rudp", "Tcp"}, status : Statuses, queue : Seq(1 .. n)]
           longer == client.queue \o [i \in DOMAIN <<e>> |-> n + i]
<1>1. n \in Nat /\ Indices = 1 .. n /\ client \in R /\ events \in Seq(Events)
  BY DEF ClientInv, Indices
<1>2. events' = Append(events, e) /\ Len(events') = n + 1 /\ events' \in Seq(Events)
      /\ DOMAIN events' = 1 .. n + 1 /\ \A i \in 1 .. n : events'[i] = events[i]
  <2>1. events' = events \o <<e>>
    BY DEF Becomes
  <2> QED
    BY <1>1, <2>1
<1>3. longer = Append(client.queue, n + 1) /\ client.queue \in Seq(1 .. n)
  <2>1. client.queue \in Seq(1 .. n)
    BY <1>1
  <2>2. DOMAIN <<e>> = {1}
    OBVIOUS
  <2>3. [i \in {1} |-> n + i] = <<n + 1>>
    BY <1>1
  <2>4. longer = client.queue \o <<n + 1>>
    BY <2>2, <2>3
  <2> QED
    BY <1>1, <2>1, <2>4
<1>4. client' = [client EXCEPT !.status = s, !.queue = longer]
  BY DEF Becomes
<1>5. client'.kind = client.kind /\ client'.status = s /\ client'.queue = longer
      /\ client' = [kind |-> client.kind, status |-> s, queue |-> longer]
  <2> HIDE DEF longer
  <2> QED
    BY <1>1, <1>4
<1>6. longer \in Seq(1 .. n + 1)
  <2>1. client.queue \in Seq(1 .. n + 1)
    BY <1>1, <1>3
  <2> QED
    BY <1>1, <1>3, <2>1
<1>7. client' # NoClient
  <2>1. client.kind \in {"Rudp", "Tcp"}
    BY <1>1
  <2> QED
    BY <1>5, <2>1 DEF NoClient
<1>8. ClientInv'
  <2> HIDE DEF longer
  <2>1. client.kind \in {"Rudp", "Tcp"}
    BY <1>1
  <2>2. Indices' = 1 .. n + 1
    BY <1>2 DEF Indices
  <2> QED
    BY <1>2, <1>5, <1>6, <2>1, <2>2 DEF ClientInv
<1> QED
  BY <1>1, <1>2, <1>3, <1>5, <1>7, <1>8 DEF Indices

-----------------------------------------------------------------------------
(* Where the connector, the two threads and the protocols tried are.       *)

ControlInv ==
  /\ connector \in {"new", "idle", "inside", "connected", "failed", "discarded"}
  /\ worker \in {"none", "sleeping", "running", "stopping", "processing", "flushing",
                 "unlocking", "done", "panicked"}
  /\ owner \in {"none", "active", "waiting", "dropping", "gone"}
  /\ itersLeft \in 0 .. PostEndIters
  /\ hasSentEnd \in BOOLEAN /\ shouldStop \in BOOLEAN /\ poisoned \in BOOLEAN
  /\ itersLeft = 0 <=> worker = "done"
  /\ owner = "none" <=> connector # "discarded"
  /\ owner = "none" <=> worker = "none"
  /\ owner = "none" => /\ ~ hasSentEnd /\ ~ mixed /\ ownEnds = {}
                       /\ buffer = <<>> /\ pendingEvents = <<>> /\ read = <<>>
  /\ worker = "flushing" => hasSentEnd

ConnectorInv ==
  /\ offered \subseteq Range(Protocols)
  /\ connector = "new" => client = NoClient /\ done = {} /\ failed = <<>>
  /\ connector \in {"idle", "inside", "connected", "failed"} => Verdict
  /\ connector = "failed" => client = NoClient
  /\ connector \in {"connected", "discarded"} => client # NoClient
  /\ connector = "discarded" => done = {}

Starts ==
  ClientStarts(NoClient) \/ \E p \in Range(Protocols) : ClientStarts(Connecting(p))

(* A step outside new and attempt_connect does nothing to the connector.   *)
LEMMA ConnectorLeftAlone ==
  ASSUME ConnectorInv, UNCHANGED connectorVars,
         client' = client \/ (client # NoClient /\ client' # NoClient /\ client'.kind = client.kind)
  PROVE  ConnectorInv'
<1>1. offered' = offered /\ done' = done /\ connector' = connector /\ failed' = failed
  BY DEF connectorVars
<1>2. \A S : InOrder(S)' = InOrder(S)
  BY DEF InOrder
<1>3. \A j : Before(j)' = Before(j)
  BY DEF Before
<1>4. Verdict => Verdict'
  BY <1>1 DEF Verdict, InOrder, Before
<1> QED
  BY <1>1, <1>4 DEF ConnectorInv

(* new: nothing has been tried.                                            *)
LEMMA NewKeepsConnector ==
  ASSUME ConnectorInv, NewConnector
  PROVE  ConnectorInv' /\ Starts
<1>1. client = NoClient /\ done = {} /\ failed = <<>> /\ offered \subseteq Range(Protocols)
  BY DEF ConnectorInv, NewConnector
<1>2. 0 \in 0 .. Len(Protocols)
  BY ProtocolsType
<1>3. Before(0 + 1) = {}
  BY DEF Before
<1>4. InOrder(offered \cap Before(0 + 1)) = <<>>
  BY <1>3, ProtocolsType, SelectedNone DEF InOrder
<1>5. failed \o (IF client = NoClient THEN <<>> ELSE <<client.kind>>)
        = InOrder(offered \cap Before(0 + 1))
  BY <1>1, <1>4
<1>6. Proceeds(Before(0 + 1))
  BY <1>3 DEF NewConnector
<1>7. Verdict' /\ UNCHANGED offered /\ Starts
  BY <1>1, <1>2, <1>5, <1>6, ProceedsRightly DEF Starts
<1> QED
  BY <1>1, <1>7 DEF ConnectorInv, NewConnector

(* The client is over: its protocol has failed after those before it.      *)
LEMMA NextTryKeepsConnector ==
  ASSUME ConnectorInv, AttemptTriesNext
  PROVE  ConnectorInv' /\ Starts
<1> DEFINE n == Len(Protocols)
<1>1. connector = "inside" /\ connector' = "inside" /\ client # NoClient
      /\ Proceeds(SetDone(done)) /\ offered \subseteq Range(Protocols)
  BY DEF AttemptTriesNext, InAttempt, ConnectorInv
<1>2. PICK j \in 1 .. n :
        /\ client.kind = Protocols[j] /\ Protocols[j] \in offered
        /\ done = Before(j) /\ failed = InOrder(offered \cap Before(j))
  BY <1>1 DEF ConnectorInv, Verdict
<1>3. Before(j + 1) = Before(j) \cup {Protocols[j]}
  BY ProtocolsType DEF Before
<1>4. \A i \in 1 .. n : Protocols[i] \in Before(j) <=> i < j
  BY ProtocolsType DEF Before
<1>5. SetDone(done) = Before(j + 1)
  <2>1. {i \in DOMAIN Protocols : Protocols[i] \notin done} = j .. n
    BY <1>2, <1>4, ProtocolsType
  <2>2. {i \in j .. n : \A k \in j .. n : i <= k} = {j}
    BY ProtocolsType
  <2>3. CurrKind(done) = {Protocols[i] : i \in {j}}
    BY <2>1, <2>2 DEF CurrKind
  <2> QED
    BY <1>2, <1>3, <2>3 DEF SetDone
<1>6. InOrder(offered \cap Before(j + 1)) = InOrder(offered \cap Before(j)) \o <<Protocols[j]>>
  <2>1. offered \cap Before(j + 1) = (offered \cap Before(j)) \cup {Protocols[j]}
    BY <1>2, <1>3
  <2>2. \A i, k \in 1 .. n :
          Protocols[i] \in offered \cap Before(j) /\ Protocols[k] \in {Protocols[j]} => i < k
    BY <1>4, ProtocolsType
  <2>3. Selected(Protocols, {Protocols[j]}) = <<Protocols[j]>>
    BY ProtocolsType, SelectedOne
  <2>4. Selected(Protocols, (offered \cap Before(j)) \cup {Protocols[j]})
          = Selected(Protocols, offered \cap Before(j)) \o Selected(Protocols, {Protocols[j]})
    BY <2>2, ProtocolsType, SelectedSplit
  <2> QED
    BY <2>1, <2>3, <2>4 DEF InOrder
<1>7. failed \o (IF client = NoClient THEN <<>> ELSE <<client.kind>>)
        = InOrder(offered \cap Before(j + 1))
  BY <1>1, <1>2, <1>6
<1>8. j \in 0 .. n
  BY ProtocolsType
<1>9. Verdict' /\ UNCHANGED offered /\ Starts
  BY <1>1, <1>5, <1>7, <1>8, ProceedsRightly DEF Starts
<1> QED
  BY <1>1, <1>9 DEF ConnectorInv

(* What a step does to the client and its events; whoever looks at them    *)
(* when the worker has let go of the client may.                           *)
LetGo == owner # "none" /\ ~ hasSentEnd /\ ~ poisoned /\ worker # "processing"

Rests ==
  /\ UNCHANGED <<client, events, ownEnds>>
  /\ hasSentEnd => hasSentEnd'
  /\ LetGo' => (LetGo /\ UNCHANGED handedOver) \/ handedOver' = Len(events)

Queues(s, e) ==
  /\ client # NoClient /\ Becomes(s, <<e>>)
  /\ hasSentEnd => hasSentEnd'
  /\ ownEnds \subseteq ownEnds'
  /\ Truthful(s, e) \/ hasSentEnd' \/ (client.kind = "Rudp" /\ ownEnds' # {})
  /\ LetGo' => LetGo /\ UNCHANGED handedOver /\ Len(events) + 1 \in ownEnds'
  /\ UNCHANGED <<buffer, pendingEvents, read, mixed>>

StartsOver ==
  Starts /\ owner = "none" /\ UNCHANGED <<ownerVars, sharedVars, hasSentEnd>>

StepKinds ==
  \/ Rests /\ (UNCHANGED <<buffer, pendingEvents, read, mixed>> \/ OwnerDrains \/ OwnerReadsNext)
  \/ \E s \in Statuses, e \in Events : Queues(s, e)
  \/ StartsOver
  \/ WorkerHandsOver

(* What the connector does, and the handing over of its client.            *)
LEMMA ConnectorStep ==
  ASSUME ControlInv, ConnectorInv, Connects \/ NewAsync
  PROVE  ControlInv' /\ ConnectorInv' /\ StepKinds
<1>1. CASE NewConnector /\ ConnectorOnly
  <2>1. ConnectorInv' /\ Starts
    BY <1>1, NewKeepsConnector
  <2>2. connector = "new" /\ connector' \in {"failed", "idle"}
    BY <1>1 DEF NewConnector
  <2> QED
    BY <1>1, <2>1, <2>2 DEF ConnectorOnly, workerVars, ownerVars, sharedVars, ControlInv,
       StepKinds, StartsOver
<1>2. CASE AttemptTriesNext /\ ConnectorOnly
  <2>1. ConnectorInv' /\ Starts
    BY <1>2, NextTryKeepsConnector
  <2>2. connector = "inside" /\ connector' = "inside"
    BY <1>2 DEF AttemptTriesNext, InAttempt
  <2> QED
    BY <1>2, <2>1, <2>2 DEF ConnectorOnly, workerVars, ownerVars, sharedVars, ControlInv,
       StepKinds, StartsOver
<1>3. CASE (AttemptBegins \/ AttemptFindsNothing \/ AttemptIsPending \/ AttemptSucceeds)
           /\ ConnectorOnly
  <2>1. /\ connector \in {"idle", "inside"} /\ connector' \in {"idle", "inside", "connected", "failed"}
        /\ connector' = "failed" => client = NoClient
        /\ connector' = "connected" => client # NoClient
        /\ UNCHANGED <<offered, done, failed, clientVars>>
    BY <1>3 DEF AttemptBegins, AttemptFindsNothing, AttemptIsPending, AttemptSucceeds, InAttempt
  <2>2. Verdict => Verdict'
    BY <2>1 DEF Verdict, InOrder, Before, clientVars
  <2>3. ConnectorInv'
    BY <2>1, <2>2 DEF ConnectorInv, clientVars
  <2>4. ControlInv'
    BY <1>3, <2>1 DEF ConnectorOnly, workerVars, ownerVars, sharedVars, ControlInv
  <2> QED
    BY <1>3, <2>1, <2>3, <2>4 DEF ConnectorOnly, workerVars, ownerVars, sharedVars, clientVars,
       StepKinds, Rests, LetGo
<1>4. CASE NewAsync
  <2>1. ControlInv'
    BY <1>4, AsyncAssumption DEF NewAsync, ControlInv, sharedVars
  <2>2. ConnectorInv'
    BY <1>4 DEF NewAsync, ConnectorInv, clientVars
  <2>3. Rests /\ UNCHANGED <<buffer, pendingEvents, read, mixed>>
    BY <1>4 DEF NewAsync, Rests, LetGo, clientVars, sharedVars
  <2> QED
    BY <2>1, <2>2, <2>3 DEF StepKinds
<1> QED
  BY <1>1, <1>2, <1>3, <1>4 DEF Connects, ConnectorSteps

(* What happens inside process(), wherever it is called.                   *)
LEMMA ProcessStep ==
  ASSUME ControlInv, ConnectorInv, ClientInv, ClientMovesInConnector \/ ClientMovesInWorker
  PROVE  ControlInv' /\ ConnectorInv' /\ StepKinds
<1>1. /\ UNCHANGED <<connectorVars, workerVars, ownerVars, sharedVars>> /\ ClientMoves
      /\ client # NoClient
      /\ worker = "none" \/ worker = "processing" \/ worker = "flushing"
  BY DEF ClientMovesInConnector, ClientMovesInAttempt, ConnectorOnly, InAttempt,
     ClientMovesInWorker, InProcess, WorkerOnly, sharedVars, ControlInv, ConnectorInv
<1>2. ControlInv'
  BY <1>1 DEF ControlInv, connectorVars, workerVars, ownerVars, sharedVars
<1>3. ~ LetGo'
  BY <1>1 DEF ControlInv, LetGo, connectorVars, workerVars, ownerVars, sharedVars
<1>4. CASE ClientGetsReceipt
  <2>1. UNCHANGED <<client, events>>
    BY <1>4 DEF ClientGetsReceipt
  <2>2. ConnectorInv'
    BY <1>1, <2>1, ConnectorLeftAlone
  <2> QED
    BY <1>1, <1>2, <1>3, <2>1, <2>2
    DEF StepKinds, Rests, workerVars, ownerVars, sharedVars
<1>5. CASE HandshakeResolves \/ ClientQueues
  <2>1. PICK m \in Moves : Becomes(m[1], <<m[2]>>)
    BY <1>5 DEF HandshakeResolves, ClientQueues
  <2>2. m[1] \in Statuses /\ m[2] \in Events /\ Truthful(m[1], m[2])
    BY <1>1, MovesAreTold
  <2>3. client' # NoClient /\ client'.kind = client.kind
    BY <1>1, <2>1, <2>2, BecomesQueues
  <2>4. ConnectorInv'
    BY <1>1, <2>3, ConnectorLeftAlone
  <2>5. Queues(m[1], m[2])
    BY <1>1, <1>3, <2>1, <2>2 DEF Queues, workerVars, ownerVars, sharedVars
  <2> QED
    BY <1>2, <2>2, <2>4, <2>5 DEF StepKinds
<1> QED
  BY <1>1, <1>4, <1>5 DEF ClientMoves

(* What end() does to the client.                                          *)
LEMMA EndsQueue ==
  ASSUME ClientInv, client # NoClient, ClientEnds
  PROVE  \/ UNCHANGED clientVars
         \/ \E s \in Statuses, e \in Events :
              Becomes(s, <<e>>) /\ (Truthful(s, e) \/ client.kind = "Rudp")
<1>1. Truthful("LocalEnded", "LocalEnded")
  BY EventsTell, StatusesConverted DEF Truthful
<1> QED
  BY <1>1 DEF ClientEnds, Statuses, Events

(* The steps of the worker but its process().                              *)
LEMMA WorkerStep ==
  ASSUME ControlInv, ConnectorInv, ClientInv, WorkerSteps \/ WorkerPanicsInProcess
  PROVE  ControlInv' /\ ConnectorInv' /\ StepKinds
<1>1. owner # "none" /\ connector = "discarded" /\ client # NoClient
      /\ UNCHANGED <<connectorVars, ownerVars, shouldStop, pendingEvents>>
  BY DEF WorkerSteps, WorkerWakes, WorkerLocks, WorkerLocksToStop, WorkerHandsOver,
     WorkerUnlocks, WorkerFlushes, WorkerPanicsOnLock, WorkerPanicsInProcess, InProcess,
     WorkerOnly, ControlInv, ConnectorInv
<1>2. ControlInv'
  <2>1. UNCHANGED <<connector, owner, ownEnds, read, mixed, shouldStop, pendingEvents>>
    BY <1>1 DEF connectorVars, ownerVars
  <2>2. /\ worker' \in {"sleeping", "running", "stopping", "processing", "flushing",
                        "unlocking", "done", "panicked"}
        /\ itersLeft' \in 0 .. PostEndIters /\ hasSentEnd' \in BOOLEAN /\ poisoned' \in BOOLEAN
        /\ itersLeft' = 0 <=> worker' = "done"
        /\ worker' = "flushing" => hasSentEnd'
    <3>1. PostEndIters \in Nat \ {0} /\ itersLeft \in 0 .. PostEndIters
          /\ hasSentEnd \in BOOLEAN /\ poisoned \in BOOLEAN /\ (itersLeft = 0 <=> worker = "done")
      BY AsyncAssumption DEF ControlInv
    <3>2. CASE WorkerFlushes
      BY <3>1, <3>2 DEF WorkerFlushes
    <3>3. CASE WorkerLocksToStop
      BY <3>1, <3>3 DEF WorkerLocksToStop
    <3>4. CASE WorkerPanicsInProcess \/ WorkerPanicsOnLock
      BY <3>1, <3>4 DEF WorkerPanicsInProcess, WorkerPanicsOnLock, InProcess
    <3>5. CASE WorkerWakes \/ WorkerLocks \/ WorkerHandsOver \/ WorkerUnlocks
      BY <3>1, <3>5 DEF WorkerWakes, WorkerLocks, WorkerHandsOver, WorkerUnlocks
    <3> QED
      BY <3>2, <3>3, <3>4, <3>5 DEF WorkerSteps
  <2> QED
    BY <1>1, <2>1, <2>2 DEF ControlInv
<1>3. CASE WorkerWakes \/ WorkerLocks \/ WorkerUnlocks \/ WorkerFlushes \/ WorkerPanicsOnLock
           \/ WorkerPanicsInProcess
  <2>1. UNCHANGED <<clientVars, hasSentEnd, buffer>>
    BY <1>3 DEF WorkerWakes, WorkerLocks, WorkerUnlocks, WorkerFlushes, WorkerPanicsOnLock,
       WorkerPanicsInProcess
  <2>2. LetGo' => LetGo
    BY <1>1, <1>3 DEF WorkerWakes, WorkerLocks, WorkerUnlocks, WorkerFlushes,
       WorkerPanicsOnLock, WorkerPanicsInProcess, InProcess, LetGo, ControlInv
  <2>3. Rests /\ UNCHANGED <<buffer, pendingEvents, read, mixed>>
    BY <1>1, <2>1, <2>2 DEF Rests, clientVars, ownerVars
  <2>4. ConnectorInv'
    BY <1>1, <2>1, ConnectorLeftAlone DEF clientVars
  <2> QED
    BY <1>2, <2>3, <2>4 DEF StepKinds
<1>4. CASE WorkerLocksToStop
  <2>1. hasSentEnd' = TRUE /\ UNCHANGED buffer /\ (UNCHANGED clientVars \/ ClientEnds)
    BY <1>4 DEF WorkerLocksToStop
  <2>2. ~ LetGo'
    BY <2>1 DEF LetGo
  <2>3. CASE UNCHANGED clientVars
    <3>1. Rests /\ UNCHANGED <<buffer, pendingEvents, read, mixed>>
      BY <1>1, <2>1, <2>2, <2>3 DEF Rests, clientVars, ownerVars
    <3>2. ConnectorInv'
      BY <1>1, <2>3, ConnectorLeftAlone DEF clientVars
    <3> QED
      BY <1>2, <3>1, <3>2 DEF StepKinds
  <2>4. CASE \E s \in Statuses, e \in Events : Becomes(s, <<e>>)
    <3>1. PICK s \in Statuses, e \in Events : Becomes(s, <<e>>)
      BY <2>4
    <3>2. Queues(s, e)
      BY <1>1, <2>1, <2>2, <3>1 DEF Queues, ownerVars
    <3>3. client' # NoClient /\ client'.kind = client.kind
      BY <1>1, <3>1, BecomesQueues
    <3>4. ConnectorInv'
      BY <1>1, <3>3, ConnectorLeftAlone
    <3> QED
      BY <1>2, <3>2, <3>4 DEF StepKinds
  <2> QED
    BY <1>1, <2>1, <2>3, <2>4, EndsQueue
<1>5. CASE WorkerHandsOver
  <2>1. client' # NoClient /\ client'.kind = client.kind
    BY <1>1, <1>5 DEF WorkerHandsOver, ClientInv, NoClient
  <2>2. ConnectorInv'
    BY <1>1, <2>1, ConnectorLeftAlone
  <2> QED
    BY <1>2, <1>5, <2>2 DEF StepKinds
<1> QED
  BY <1>3, <1>4, <1>5 DEF WorkerSteps

(* The steps of the owner, and the time that passes.                       *)
LEMMA OwnerStep ==
  ASSUME ControlInv, ConnectorInv, ClientInv,
         \/ OwnerReads \/ OwnerSends \/ OwnerEnds \/ OwnerPanics \/ OwnerStops
         \/ OwnerWaits \/ OwnerDrops \/ OwnerJoins \/ TimePasses \/ Finishes \/ UNCHANGED vars
  PROVE  ControlInv' /\ ConnectorInv' /\ StepKinds
<1>1. CASE OwnerReads
  <2>1. UNCHANGED <<connectorVars, workerVars, handedOver, clientVars, shouldStop, poisoned,
                    owner, ownEnds>> /\ owner = "active"
    BY <1>1 DEF OwnerReads, OwnerDrains, OwnerReadsNext, OwnerOnly
  <2>2. ConnectorInv'
    BY <2>1, ConnectorLeftAlone DEF clientVars
  <2>3. ControlInv'
    BY <2>1 DEF ControlInv, connectorVars, workerVars
  <2>4. Rests
    BY <2>1 DEF Rests, LetGo, clientVars, workerVars
  <2> QED
    BY <1>1, <2>2, <2>3, <2>4 DEF StepKinds, OwnerReads
<1>2. CASE OwnerEnds
  <2>1. /\ UNCHANGED <<connectorVars, workerVars, handedOver, shouldStop, poisoned, owner, buffer,
                       pendingEvents, read, mixed>>
        /\ owner = "active" /\ LockFree /\ ClientEnds
        /\ ownEnds' = ownEnds \cup (DOMAIN events' \ DOMAIN events)
    BY <1>2 DEF OwnerEnds, UnderLock, OwnerOnly
  <2>2. client # NoClient
    BY <2>1 DEF ControlInv, ConnectorInv
  <2>3. ControlInv'
    BY <2>1 DEF ControlInv, connectorVars, workerVars
  <2>4. LetGo' => LetGo
    BY <2>1 DEF LetGo, workerVars
  <2>5. CASE UNCHANGED clientVars
    <3>1. ownEnds' = ownEnds
      BY <2>1, <2>5 DEF clientVars
    <3>2. ConnectorInv'
      BY <2>1, <2>5, ConnectorLeftAlone DEF clientVars
    <3>3. Rests
      BY <2>1, <2>4, <2>5, <3>1 DEF Rests, clientVars, workerVars
    <3> QED
      BY <2>1, <2>3, <3>2, <3>3 DEF StepKinds
  <2>6. CASE \E s \in Statuses, e \in Events :
               Becomes(s, <<e>>) /\ (Truthful(s, e) \/ client.kind = "Rudp")
    <3>1. PICK s \in Statuses, e \in Events :
                 Becomes(s, <<e>>) /\ (Truthful(s, e) \/ client.kind = "Rudp")
      BY <2>6
    <3>2. /\ client' # NoClient /\ client'.kind = client.kind
          /\ Indices' = 1 .. Len(events) + 1 /\ Indices = 1 .. Len(events)
      BY <2>2, <3>1, BecomesQueues
    <3>3. Len(events) + 1 \in ownEnds'
      BY <2>1, <3>2 DEF Indices, ClientInv
    <3>4. Queues(s, e)
      BY <2>1, <2>2, <2>4, <3>1, <3>3 DEF Queues, workerVars
    <3>5. ConnectorInv'
      BY <2>1, <2>2, <3>2, ConnectorLeftAlone
    <3> QED
      BY <2>3, <3>4, <3>5 DEF StepKinds
  <2> QED
    BY <2>1, <2>2, <2>5, <2>6, EndsQueue
<1>3. CASE OwnerSends \/ TimePasses
  <2>1. UNCHANGED <<connectorVars, workerVars, ownerVars, sharedVars, client, events>>
    BY <1>3 DEF OwnerSends, UnderLock, OwnerOnly, ClientSends, TimePasses, ClientAges, ownerVars,
       sharedVars
  <2>2. ConnectorInv'
    BY <2>1, ConnectorLeftAlone
  <2>3. ControlInv'
    BY <2>1 DEF ControlInv, connectorVars, workerVars, ownerVars, sharedVars
  <2>4. Rests /\ UNCHANGED <<buffer, pendingEvents, read, mixed>>
    BY <2>1 DEF Rests, LetGo, workerVars, ownerVars, sharedVars
  <2> QED
    BY <2>2, <2>3, <2>4 DEF StepKinds
<1>4. CASE OwnerPanics \/ OwnerStops \/ OwnerWaits \/ OwnerDrops \/ OwnerJoins
  <2>1. /\ UNCHANGED <<connectorVars, workerVars, handedOver, clientVars, buffer, pendingEvents,
                       read, mixed, ownEnds>>
        /\ owner # "none" /\ owner' \in {"active", "waiting", "dropping", "gone"}
        /\ shouldStop' \in {shouldStop, TRUE}
        /\ poisoned' = TRUE \/ poisoned' = poisoned
    BY <1>4 DEF OwnerPanics, OwnerStops, OwnerWaits, OwnerDrops, OwnerJoins, OwnerOnly, sharedVars
  <2>2. ConnectorInv'
    BY <2>1, ConnectorLeftAlone DEF clientVars
  <2>3. ControlInv'
    BY <2>1 DEF ControlInv, connectorVars, workerVars
  <2>4. Rests
    <3>1. LetGo' => LetGo
      BY <2>1 DEF LetGo, workerVars
    <3> QED
      BY <2>1, <3>1 DEF Rests, clientVars, workerVars
  <2> QED
    BY <2>1, <2>2, <2>3, <2>4 DEF StepKinds
<1>5. CASE Finishes \/ UNCHANGED vars
  <2>1. UNCHANGED <<connectorVars, clientVars, workerVars, ownerVars, sharedVars>>
    BY <1>5 DEF Finishes, vars
  <2>2. ConnectorInv'
    BY <2>1, ConnectorLeftAlone DEF clientVars
  <2>3. ControlInv'
    BY <2>1 DEF ControlInv, connectorVars, workerVars, ownerVars, sharedVars
  <2>4. Rests /\ UNCHANGED <<buffer, pendingEvents, read, mixed>>
    BY <2>1 DEF Rests, LetGo, clientVars, workerVars, ownerVars, sharedVars
  <2> QED
    BY <2>2, <2>3, <2>4 DEF StepKinds
<1> QED
  BY <1>1, <1>2, <1>3, <1>4, <1>5

(* Every step is of one of the kinds.                                      *)
LEMMA EveryStep ==
  ASSUME ControlInv, ConnectorInv, ClientInv, [Next]_vars
  PROVE  ControlInv' /\ ConnectorInv' /\ StepKinds
BY ConnectorStep, ProcessStep, WorkerStep, OwnerStep DEF Next

-----------------------------------------------------------------------------
(* The events.                                                             *)

EventsInv ==
  /\ \A s \in {buffer, pendingEvents, read} : s \in Seq(Indices)
  /\ NoEventLostOrReordered

StatusTold ==
  \/ \E j \in Indices :
       /\ Tells(events[j]) /\ RbtlEvent(events[j])[2] = Status
       /\ \A k \in Indices : Tells(events[k]) => k <= j
  \/ Status = "Connecting" /\ \A k \in Indices : ~ Tells(events[k])

StatusInv ==
  /\ client # NoClient /\ ~ hasSentEnd =>
       (client.kind = "Rudp" /\ ownEnds # {}) \/ StatusTold
  /\ LetGo => \A i \in Range(client.queue) : i <= handedOver \/ i \in ownEnds

(* A client that has just been made.                                       *)
LEMMA NothingQueued ==
  ASSUME NEW c \in {NoClient} \cup {Connecting(p) : p \in Range(Protocols)}, ClientStarts(c)
  PROVE  /\ ClientInv' /\ events' = <<>>
         /\ client' # NoClient => client'.queue = <<>> /\ RbtlStatus(client'.status) = "Connecting"
<1>1. client' = c /\ events' = <<>> /\ Indices' = {}
  BY DEF ClientStarts, Indices
<1>2. CASE c = NoClient
  BY <1>1, <1>2 DEF ClientInv
<1>3. CASE c # NoClient
  <2>1. PICK p \in Range(Protocols) : c = Connecting(p)
    BY <1>3
  <2>2. p \in {"Rudp", "Tcp"}
    BY ProtocolsType
  <2>3. <<>> \in Seq({})
    OBVIOUS
  <2> QED
    BY <1>1, <2>1, <2>2, <2>3, StatusesConverted DEF Connecting, ClientInv, Statuses
<1> QED
  BY <1>2, <1>3

RangesJoin(s, t) == Range(s \o t) = Range(s) \cup Range(t)

(* The elements of a concatenation, as a set.                              *)
LEMMA RangeOfConcat ==
  ASSUME NEW E, NEW s \in Seq(E), NEW t \in Seq(E)
  PROVE  RangesJoin(s, t)
<1>1. /\ DOMAIN s = 1 .. Len(s) /\ DOMAIN t = 1 .. Len(t) /\ Len(s) \in Nat /\ Len(t) \in Nat
      /\ \A i \in 1 .. Len(s) : s[i] \in E
  OBVIOUS
<1>2. /\ DOMAIN (s \o t) = 1 .. Len(s) + Len(t)
      /\ \A i \in 1 .. Len(s) : (s \o t)[i] = s[i]
      /\ \A i \in 1 .. Len(t) : (s \o t)[Len(s) + i] = t[i]
      /\ \A i \in Len(s) + 1 .. Len(s) + Len(t) :
           (s \o t)[i] = t[i - Len(s)] /\ i - Len(s) \in 1 .. Len(t)
  OBVIOUS
<1>3. Range(s \o t) = Range(s) \cup Range(t)
  <2> DEFINE u == s \o t
  <2> HIDE DEF u
  <2>1. ASSUME NEW i \in 1 .. Len(s) + Len(t) PROVE u[i] \in Range(s) \cup Range(t)
    <3>1. CASE i \in 1 .. Len(s)
      <4>1. u[i] = s[i]
        BY <1>2, <3>1 DEF u
      <4> QED
        BY <1>1, <3>1, <4>1 DEF Range
    <3>2. CASE i \in Len(s) + 1 .. Len(s) + Len(t)
      <4>1. u[i] = t[i - Len(s)] /\ i - Len(s) \in 1 .. Len(t)
        BY <1>2, <3>2 DEF u
      <4> QED
        BY <1>1, <4>1 DEF Range
    <3> QED
      BY <1>1, <3>1, <3>2
  <2>2. \A i \in 1 .. Len(s) : s[i] \in Range(u)
    BY <1>1, <1>2 DEF Range, u
  <2>3. \A i \in 1 .. Len(t) : t[i] \in Range(u)
    BY <1>1, <1>2 DEF Range, u
  <2>4. Range(u) \subseteq Range(s) \cup Range(t)
    BY <1>2, <2>1 DEF Range, u
  <2>5. Range(s) \cup Range(t) \subseteq Range(u)
    BY <1>1, <2>2, <2>3 DEF Range
  <2> QED
    BY <2>4, <2>5 DEF u
<1> QED
  BY <1>3 DEF RangesJoin

(* The elements of a sequence, as a set.                                   *)
LEMMA RangeFacts ==
  ASSUME NEW E, NEW s \in Seq(E), NEW x \in E
  PROVE  /\ Range(Append(s, x)) = Range(s) \cup {x}
         /\ Range(s) \subseteq E
         /\ Range(s) = {} => s = <<>>
<1>1. /\ DOMAIN s = 1 .. Len(s) /\ Len(s) \in Nat /\ \A i \in 1 .. Len(s) : s[i] \in E
  OBVIOUS
<1>3. /\ DOMAIN Append(s, x) = 1 .. Len(s) + 1 /\ Append(s, x)[Len(s) + 1] = x
      /\ \A i \in 1 .. Len(s) : Append(s, x)[i] = s[i]
  OBVIOUS
<1>5. Range(Append(s, x)) = Range(s) \cup {x}
  <2> DEFINE u == Append(s, x)
  <2> HIDE DEF u
  <2>1. \A i \in 1 .. Len(s) + 1 : u[i] \in Range(s) \cup {x}
    BY <1>1, <1>3 DEF Range, u
  <2>2. \A i \in 1 .. Len(s) : s[i] \in Range(u)
    BY <1>1, <1>3 DEF Range, u
  <2>3. x \in Range(u)
    BY <1>1, <1>3 DEF Range, u
  <2>4. Range(u) \subseteq Range(s) \cup {x}
    BY <1>3, <2>1 DEF Range, u
  <2> QED
    BY <1>1, <2>2, <2>3, <2>4 DEF Range, u
<1>6. Range(s) \subseteq E
  BY <1>1 DEF Range
<1>7. Range(s) = {} => s = <<>>
  <2> SUFFICES ASSUME Range(s) = {} PROVE s = <<>>
    OBVIOUS
  <2>1. 1 \in 1 .. Len(s) => s[1] \in Range(s)
    BY <1>1 DEF Range
  <2>2. Len(s) = 0
    BY <1>1, <2>1
  <2> QED
    BY <2>2
<1> QED
  BY <1>5, <1>6, <1>7

(* A sequence and its reverse.                                             *)
LEMMA ReverseFacts ==
  ASSUME NEW E, NEW s \in Seq(E)
  PROVE  /\ Reverse(s) \in Seq(E) /\ Len(Reverse(s)) = Len(s) /\ Range(Reverse(s)) = Range(s)
         /\ s = <<>> => Reverse(s) = <<>>
<1>1. DOMAIN s = 1 .. Len(s) /\ Len(s) \in Nat /\ \A i \in 1 .. Len(s) : s[i] \in E
  OBVIOUS
<1>2. Reverse(s) = [i \in 1 .. Len(s) |-> s[Len(s) - i + 1]]
  BY DEF Reverse
<1>3. \A i \in 1 .. Len(s) : Len(s) - i + 1 \in 1 .. Len(s)
  BY <1>1
<1>4. Reverse(s) \in Seq(E) /\ Len(Reverse(s)) = Len(s)
  BY <1>1, <1>2, <1>3
<1>5. Range(Reverse(s)) = Range(s)
  <2>1. Range(Reverse(s)) = {s[Len(s) - i + 1] : i \in 1 .. Len(s)}
    BY <1>2 DEF Range
  <2>2. \A i \in 1 .. Len(s) : s[i] = s[Len(s) - (Len(s) - i + 1) + 1]
    BY <1>1
  <2>3. \A i \in 1 .. Len(s) : s[i] \in Range(Reverse(s))
    BY <1>3, <2>1, <2>2
  <2> QED
    BY <1>1, <1>3, <2>1, <2>3 DEF Range
<1> QED
  BY <1>4, <1>5

PopsFirst(r, s, t) ==
  Append(r, Last(s)) \o Reverse(Front(s)) \o t = r \o Reverse(s) \o t

(* The reverse of the reverse.                                             *)
LEMMA ReverseTwice ==
  ASSUME NEW E, NEW s \in Seq(E)
  PROVE  Reverse(Reverse(s)) = s
<1> DEFINE v == Reverse(s)
           w == Reverse(v)
           n == Len(s)
<1>1. n \in Nat /\ v \in Seq(E) /\ Len(v) = n
  BY ReverseFacts
<1>2. \A i \in 1 .. n : v[i] = s[n - i + 1]
  BY <1>1 DEF Reverse
<1> HIDE DEF v
<1>3. w \in Seq(E) /\ Len(w) = n
  BY <1>1, ReverseFacts
<1>4. \A i \in 1 .. n : w[i] = v[n - i + 1]
  BY <1>1 DEF Reverse
<1> HIDE DEF w
<1>5. \A i \in 1 .. n : n - i + 1 \in 1 .. n /\ n - (n - i + 1) + 1 = i
  BY <1>1
<1>6. \A i \in 1 .. n : w[i] = s[i]
  BY <1>2, <1>4, <1>5
<1>7. w = s
  BY <1>1, <1>3, <1>6
<1> QED
  BY <1>7 DEF v, w

(* next_event takes the first of the events swapped out: popping the last  *)
(* of the reverse is taking the first.                                     *)
LEMMA PopIsFirst ==
  ASSUME NEW E, NEW s \in Seq(E), s # <<>>
  PROVE  /\ Last(s) \in E /\ Front(s) \in Seq(E)
         /\ \A r \in Seq(E), t \in Seq(E) : PopsFirst(r, s, t)
<1> DEFINE n == Len(s)
<1>1. n \in Nat \ {0} /\ \A i \in 1 .. n : s[i] \in E
  OBVIOUS
<1>2. /\ Last(s) = s[n] /\ Front(s) \in Seq(E) /\ Len(Front(s)) = n - 1
      /\ \A i \in 1 .. n - 1 : Front(s)[i] = s[i]
  <2>1. Last(s) = s[n] /\ Front(s) = SubSeq(s, 1, n - 1)
    BY DEF Last, Front
  <2>2. Front(s) = [i \in 1 .. n - 1 |-> s[i]]
    BY <1>1, <2>1
  <2>3. \A i \in 1 .. n - 1 : s[i] \in E
    BY <1>1
  <2>4. [i \in 1 .. n - 1 |-> s[i]] \in Seq(E) /\ Len([i \in 1 .. n - 1 |-> s[i]]) = n - 1
    BY <1>1, <2>3
  <2> QED
    BY <2>1, <2>2, <2>4
<1>3. Last(s) \in E
  BY <1>1, <1>2
<1>4. <<Last(s)>> \o Reverse(Front(s)) = Reverse(s)
  <2> DEFINE f == Front(s)
             r == Reverse(f)
             l == <<Last(s)>>
             u == l \o r
             v == Reverse(s)
  <2>1. r \in Seq(E) /\ Len(r) = n - 1 /\ \A i \in 1 .. n - 1 : r[i] = s[n - i]
    <3>1. r = [i \in 1 .. n - 1 |-> f[n - 1 - i + 1]]
      BY <1>2 DEF Reverse
    <3>2. \A i \in 1 .. n - 1 : n - 1 - i + 1 \in 1 .. n - 1 /\ n - 1 - i + 1 = n - i
      BY <1>1
    <3>3. r \in Seq(E) /\ Len(r) = n - 1
      BY <1>2, ReverseFacts
    <3> QED
      BY <1>2, <3>1, <3>2, <3>3
  <2>2. v \in Seq(E) /\ Len(v) = n /\ \A i \in 1 .. n : v[i] = s[n - i + 1]
    <3>1. v \in Seq(E) /\ Len(v) = n
      BY ReverseFacts
    <3> QED
      BY <3>1 DEF Reverse
  <2>3. l \in Seq(E) /\ Len(l) = 1 /\ l[1] = s[n]
    BY <1>2, <1>3
  <2> HIDE DEF f, r, l, v, n
  <2>4. u \in Seq(E) /\ Len(u) = n /\ u[1] = s[n] /\ \A i \in 2 .. n : u[i] = r[i - 1]
    <3>1. l \in Seq(E) /\ r \in Seq(E) /\ Len(l) = 1 /\ Len(r) = n - 1
      BY <2>1, <2>3
    <3>2. u \in Seq(E) /\ Len(u) = Len(l) + Len(r)
      BY <3>1, ConcatAt
    <3>3. \A i \in 1 .. Len(l) + Len(r) :
            u[i] = IF i <= Len(l) THEN l[i] ELSE r[i - Len(l)]
      BY <3>1, ConcatAt
    <3>4. 1 \in 1 .. Len(l) + Len(r) /\ Len(l) + Len(r) = n
      BY <1>1, <3>1
    <3> HIDE DEF u
    <3>5. u[1] = l[1]
      BY <3>1, <3>3, <3>4
    <3>6. \A i \in 2 .. n : i \in 1 .. n /\ ~ (i <= 1)
      BY <1>1
    <3> QED
      BY <2>3, <3>1, <3>2, <3>3, <3>4, <3>5, <3>6
  <2>5. ASSUME NEW i \in 1 .. n PROVE u[i] = v[i]
    <3>1. v[i] = s[n - i + 1]
      BY <2>2
    <3>2. CASE i = 1
      BY <1>1, <2>4, <3>1, <3>2
    <3>3. CASE i # 1
      <4>1. i - 1 \in 1 .. n - 1 /\ n - (i - 1) = n - i + 1
        BY <1>1, <3>3
      <4>2. u[i] = r[i - 1]
        <5> HIDE DEF u
        <5> QED
          BY <1>1, <2>4, <3>3
      <4> QED
        BY <2>1, <3>1, <4>1, <4>2
    <3> QED
      BY <3>2, <3>3
  <2>6. \A i \in 1 .. n : u[i] = v[i]
    BY <2>5
  <2> HIDE DEF u
  <2>7. u = v
    BY <2>2, <2>4, <2>6
  <2> QED
    BY <2>7 DEF u, l, r, f, v
<1>5. ASSUME NEW r \in Seq(E), NEW t \in Seq(E) PROVE PopsFirst(r, s, t)
  <2> DEFINE x == Last(s)
             f == Reverse(Front(s))
  <2>1. x \in E /\ f \in Seq(E)
    BY <1>2, <1>3, ReverseFacts
  <2> HIDE DEF x, f
  <2>2. Append(r, x) \o f = r \o (<<x>> \o f)
    BY <2>1
  <2> QED
    BY <1>4, <2>2 DEF x, f, PopsFirst
<1> QED
  BY <1>2, <1>3, <1>5

(* All the events that reached the owner, are stored for it or in the      *)
(* client, and those there were.                                           *)
AllEvents == read \o Reverse(pendingEvents) \o buffer \o DrainedEvents

QueuedEvents == Selected([i \in Indices |-> i], PassedOn)

Complete ==
  /\ ~ mixed => AllEvents = QueuedEvents
  /\ Len(AllEvents) = Len(QueuedEvents) /\ Range(AllEvents) = Range(QueuedEvents)

(* The property in these words.                                            *)
LEMMA LostOrReorderedIsIncomplete ==
  NoEventLostOrReordered <=> (client # NoClient => Complete)
BY DEF NoEventLostOrReordered, Complete, AllEvents, QueuedEvents

(* They are indices.                                                       *)
LEMMA EventTypes ==
  ASSUME ClientInv, EventsInv, client # NoClient
  PROVE  /\ Indices = 1 .. Len(events) /\ Len(events) \in Nat
         /\ read \in Seq(Indices) /\ Reverse(pendingEvents) \in Seq(Indices)
         /\ pendingEvents \in Seq(Indices) /\ buffer \in Seq(Indices)
         /\ client.queue \in Seq(Indices)
         /\ DrainedEvents \in Seq(Indices) /\ AllEvents \in Seq(Indices)
         /\ [i \in Indices |-> i] \in Seq(Indices) /\ QueuedEvents \in Seq(Indices)
<1>1. /\ Indices = 1 .. Len(events) /\ Len(events) \in Nat
      /\ read \in Seq(Indices) /\ pendingEvents \in Seq(Indices) /\ buffer \in Seq(Indices)
      /\ client.queue \in Seq(Indices)
  BY DEF ClientInv, EventsInv, Indices
<1>2. Reverse(pendingEvents) \in Seq(Indices)
  BY <1>1, ReverseFacts
<1>3. DrainedEvents \in Seq(Indices)
  BY <1>1, SelectedType DEF DrainedEvents
<1>4. AllEvents \in Seq(Indices)
  BY <1>1, <1>2, <1>3 DEF AllEvents
<1>5. [i \in Indices |-> i] \in Seq(Indices)
  BY <1>1
<1>6. QueuedEvents \in Seq(Indices)
  BY <1>5, SelectedType DEF QueuedEvents
<1> QED
  BY <1>1, <1>2, <1>3, <1>4, <1>5, <1>6

(* The socket queues an event, and nobody reads.                           *)
LEMMA QueuingKeepsEvents ==
  ASSUME ClientInv, EventsInv, NEW s \in Statuses, NEW e \in Events, Queues(s, e)
  PROVE  EventsInv'
<1> DEFINE x == Len(events) + 1
           isPassed == x \in PassedOn'
           most == read \o Reverse(pendingEvents) \o buffer
<1>1. /\ client # NoClient /\ client'.queue = Append(client.queue, x)
      /\ events' = Append(events, e) /\ Indices = 1 .. Len(events) /\ Indices' = 1 .. x
      /\ \A i \in Indices : events'[i] = events[i]
      /\ UNCHANGED <<buffer, pendingEvents, read, mixed>>
  BY BecomesQueues DEF Queues
<1>2. /\ Len(events) \in Nat /\ read \in Seq(Indices) /\ Reverse(pendingEvents) \in Seq(Indices)
      /\ pendingEvents \in Seq(Indices) /\ buffer \in Seq(Indices)
      /\ client.queue \in Seq(Indices) /\ DrainedEvents \in Seq(Indices)
      /\ AllEvents \in Seq(Indices) /\ QueuedEvents \in Seq(Indices)
      /\ [i \in Indices |-> i] \in Seq(Indices)
  BY <1>1, EventTypes
<1>3. Indices \subseteq Indices' /\ x \in Indices' /\ x \notin Indices
  BY <1>1, <1>2
<1>4. \A u \in Seq(Indices) : u \in Seq(Indices')
  BY <1>3
<1>5. \A u \in Seq(Indices) : Selected(u, PassedOn') = Selected(u, PassedOn)
  <2>1. \A i \in Indices : i \in PassedOn' <=> i \in PassedOn
    BY <1>1, <1>3 DEF PassedOn, Indices
  <2>2. ASSUME NEW u \in Seq(Indices) PROVE Selected(u, PassedOn') = Selected(u, PassedOn)
    <3>1. \A i \in 1 .. Len(u) : u[i] \in PassedOn' <=> u[i] \in PassedOn
      BY <2>1
    <3> QED
      BY <3>1, SelectedSame
  <2> QED
    BY <2>2
<1>6. \A u \in Seq(Indices) :
        Selected(Append(u, x), PassedOn') =
          IF isPassed THEN Append(Selected(u, PassedOn), x) ELSE Selected(u, PassedOn)
  <2> HIDE DEF x
  <2> SUFFICES ASSUME NEW u \in Seq(Indices)
               PROVE  Selected(Append(u, x), PassedOn') =
                        IF x \in PassedOn' THEN Append(Selected(u, PassedOn), x)
                          ELSE Selected(u, PassedOn)
    OBVIOUS
  <2>1. u \in Seq(Indices')
    BY <1>4
  <2>2. Selected(Append(u, x), PassedOn') =
          IF x \in PassedOn' THEN Append(Selected(u, PassedOn'), x) ELSE Selected(u, PassedOn')
    BY <1>3, <2>1, SelectedAppend
  <2> QED
    BY <1>5, <2>2
<1>7. DrainedEvents' = IF isPassed THEN Append(DrainedEvents, x) ELSE DrainedEvents
  BY <1>1, <1>2, <1>6 DEF DrainedEvents
<1>8. QueuedEvents' = IF isPassed THEN Append(QueuedEvents, x) ELSE QueuedEvents
  <2>1. [i \in 1 .. x |-> i] = Append([i \in 1 .. Len(events) |-> i], x)
    BY <1>2
  <2>2. QueuedEvents' = Selected([i \in Indices' |-> i], PassedOn')
    BY DEF QueuedEvents
  <2> QED
    BY <1>1, <1>2, <1>6, <2>1, <2>2 DEF QueuedEvents
<1>9. AllEvents' = IF isPassed THEN Append(AllEvents, x) ELSE AllEvents
  <2>1. most \in Seq(Indices)
    BY <1>2
  <2>2. AllEvents' = most \o DrainedEvents'
    BY <1>1 DEF AllEvents, Reverse
  <2>3. AppendsToSecond(most, DrainedEvents, x)
    BY <1>2, <1>3, <1>4, <2>1, AppendToConcat
  <2> QED
    BY <1>7, <2>2, <2>3 DEF AllEvents, AppendsToSecond
<1>10. Complete'
  <2> DEFINE a == AllEvents
             q == QueuedEvents
  <2>1. Complete /\ mixed' = mixed
    BY <1>1, LostOrReorderedIsIncomplete DEF EventsInv
  <2>2. a \in Seq(Indices') /\ q \in Seq(Indices')
    BY <1>2, <1>4
  <2> HIDE DEF a, q
  <2>3. Range(Append(a, x)) = Range(a) \cup {x} /\ Range(Append(q, x)) = Range(q) \cup {x}
    BY <1>3, <2>2, RangeFacts
  <2>4. Len(Append(a, x)) = Len(a) + 1 /\ Len(Append(q, x)) = Len(q) + 1
    BY <2>2
  <2>5. (~ mixed => a = q) /\ Len(a) = Len(q) /\ Range(a) = Range(q)
    BY <2>1 DEF Complete, a, q
  <2>6. AllEvents' = (IF isPassed THEN Append(a, x) ELSE a)
        /\ QueuedEvents' = (IF isPassed THEN Append(q, x) ELSE q)
    BY <1>8, <1>9 DEF a, q
  <2> QED
    BY <2>1, <2>3, <2>4, <2>5, <2>6 DEF Complete
<1>11. NoEventLostOrReordered'
  BY <1>10 DEF NoEventLostOrReordered, Complete, AllEvents, QueuedEvents
<1> QED
  BY <1>1, <1>2, <1>4, <1>11 DEF EventsInv

(* The connector makes the next client, and nobody has read anything.      *)
LEMMA StartingKeepsEvents ==
  ASSUME ControlInv, StartsOver
  PROVE  ClientInv' /\ EventsInv' /\ events' = <<>>
         /\ (client' # NoClient =>
               client'.queue = <<>> /\ RbtlStatus(client'.status) = "Connecting")
<1>1. /\ ClientInv' /\ events' = <<>>
      /\ client' # NoClient => client'.queue = <<>> /\ RbtlStatus(client'.status) = "Connecting"
  <2>1. PICK c \in {NoClient} \cup {Connecting(p) : p \in Range(Protocols)} : ClientStarts(c)
    BY DEF StartsOver, Starts
  <2> QED
    BY <2>1, NothingQueued
<1>2. buffer' = <<>> /\ pendingEvents' = <<>> /\ read' = <<>>
  BY DEF StartsOver, ControlInv, ownerVars, sharedVars
<1>3. Indices' = {} /\ <<>> \in Seq({})
  BY <1>1 DEF Indices
<1>4. \A S : Selected(<<>>, S) = <<>>
  <2>1. \A S : \A i \in 1 .. Len(<<>>) : <<>>[i] \notin S
    OBVIOUS
  <2> QED
    BY <1>3, <2>1, SelectedNone
<1>5. ASSUME client' # NoClient PROVE Complete'
  <2>1. DrainedEvents' = <<>>
    BY <1>1, <1>4, <1>5 DEF DrainedEvents
  <2>2. [i \in {} |-> i] = <<>>
    OBVIOUS
  <2>3. QueuedEvents' = <<>>
    BY <1>3, <1>4, <2>2 DEF QueuedEvents
  <2>4. Reverse(<<>>) = <<>>
    BY <1>3, ReverseFacts
  <2>5. AllEvents' = <<>>
    BY <1>2, <2>1, <2>4 DEF AllEvents
  <2> QED
    BY <2>3, <2>5 DEF Complete
<1>6. NoEventLostOrReordered'
  BY <1>5 DEF NoEventLostOrReordered, Complete, AllEvents, QueuedEvents
<1> QED
  BY <1>1, <1>2, <1>3, <1>6 DEF EventsInv

(* The worker moves the events into the buffer.                            *)
LEMMA HandingOverKeepsEvents ==
  ASSUME ClientInv, EventsInv, client # NoClient, WorkerHandsOver
  PROVE  ClientInv' /\ EventsInv' /\ client' = [client EXCEPT !.queue = <<>>]
<1>1. /\ client' = [client EXCEPT !.queue = <<>>] /\ buffer' = buffer \o DrainedEvents
      /\ UNCHANGED <<events, read, mixed, pendingEvents>>
  BY DEF WorkerHandsOver, WorkerOnly, ownerVars
<1>2. /\ Indices' = Indices /\ PassedOn' = PassedOn
      /\ read \in Seq(Indices) /\ Reverse(pendingEvents) \in Seq(Indices)
      /\ pendingEvents \in Seq(Indices) /\ buffer \in Seq(Indices)
      /\ DrainedEvents \in Seq(Indices)
  BY <1>1, EventTypes DEF Indices, PassedOn
<1>3. client'.queue = <<>> /\ ClientInv'
  <2>1. client \in [kind : {"Rudp", "Tcp"}, status : Statuses, queue : Seq(Indices)]
        /\ events \in Seq(Events)
    BY DEF ClientInv
  <2>2. <<>> \in Seq(Indices)
    OBVIOUS
  <2>3. client' \in [kind : {"Rudp", "Tcp"}, status : Statuses, queue : Seq(Indices)]
    BY <1>1, <2>1, <2>2
  <2>4. client'.queue = <<>>
    BY <1>1, <2>1
  <2> QED
    BY <1>1, <1>2, <2>1, <2>3, <2>4 DEF ClientInv
<1>4. DrainedEvents' = <<>>
  <2>1. \A i \in 1 .. Len(<<>>) : <<>>[i] \notin PassedOn'
    OBVIOUS
  <2>2. <<>> \in Seq({})
    OBVIOUS
  <2> QED
    BY <1>3, <2>1, <2>2, SelectedNone DEF DrainedEvents
<1>5. AllEvents' = AllEvents
  <2> DEFINE r == Reverse(pendingEvents)
             d == DrainedEvents
  <2>1. AllEvents' = read \o r \o (buffer \o d) \o <<>>
    BY <1>1, <1>4 DEF AllEvents, Reverse
  <2>2. AllEvents = read \o r \o buffer \o d
    BY DEF AllEvents
  <2>3. r \in Seq(Indices) /\ d \in Seq(Indices)
    BY <1>2
  <2> HIDE DEF r, d
  <2>4. read \o r \in Seq(Indices) /\ read \o r \o buffer \in Seq(Indices)
        /\ read \o r \o buffer \o d \in Seq(Indices)
    BY <1>2, <2>3
  <2>5. Associates(read \o r, buffer, d)
    BY <1>2, <2>3, <2>4, ConcatLaws
  <2>6. read \o r \o buffer \o d \o <<>> = read \o r \o buffer \o d
    BY <2>4, ConcatLaws
  <2> QED
    BY <2>1, <2>2, <2>5, <2>6, Zenon DEF Associates
<1>6. QueuedEvents' = QueuedEvents
  BY <1>2 DEF QueuedEvents
<1>7. Complete'
  BY <1>1, <1>5, <1>6, LostOrReorderedIsIncomplete DEF EventsInv, Complete
<1>8. NoEventLostOrReordered'
  BY <1>7 DEF NoEventLostOrReordered, Complete, AllEvents, QueuedEvents
<1> QED
  BY <1>1, <1>2, <1>3, <1>8 DEF EventsInv

(* The owner reads.                                                        *)
LEMMA ReadingKeepsEvents ==
  ASSUME ClientInv, EventsInv, client # NoClient, UNCHANGED <<client, events>>,
         OwnerDrains \/ OwnerReadsNext
  PROVE  EventsInv'
<1> DEFINE rest == DrainedEvents
<1>1. /\ Indices' = Indices /\ PassedOn' = PassedOn
      /\ read \in Seq(Indices) /\ Reverse(pendingEvents) \in Seq(Indices)
      /\ pendingEvents \in Seq(Indices) /\ buffer \in Seq(Indices)
      /\ DrainedEvents \in Seq(Indices)
  BY EventTypes DEF Indices, PassedOn
<1>2. QueuedEvents' = QueuedEvents /\ DrainedEvents' = DrainedEvents
  BY <1>1 DEF QueuedEvents, DrainedEvents
<1>3. Complete
  BY LostOrReorderedIsIncomplete DEF EventsInv
<1>4. Reverse(<<>>) = <<>>
  <2>1. <<>> \in Seq({})
    OBVIOUS
  <2> QED
    BY <2>1, ReverseFacts
<1>5. AllEvents' = read' \o Reverse(pendingEvents') \o buffer' \o rest
  BY <1>2 DEF AllEvents, Reverse
<1>6. rest \in Seq(Indices)
  BY <1>1
<1> HIDE DEF rest
<1>7. AllEvents = read \o Reverse(pendingEvents) \o buffer \o rest
  BY DEF AllEvents, rest
<1>8. CASE OwnerDrains /\ pendingEvents # <<>>
  <2>1. /\ read' = read \o pendingEvents /\ buffer' = buffer /\ pendingEvents' = <<>>
        /\ mixed' = TRUE
    BY <1>8 DEF OwnerDrains
  <2> DEFINE p == pendingEvents
             v == Reverse(pendingEvents)
  <2>2. v \in Seq(Indices) /\ Len(v) = Len(p) /\ Range(v) = Range(p)
    BY <1>1, ReverseFacts
  <2> HIDE DEF v
  <2>3. AllEvents' = read \o p \o <<>> \o buffer \o rest
    BY <1>4, <1>5, <2>1
  <2>4. AllEvents = read \o v \o buffer \o rest
    BY <1>7 DEF v
  <2>6. buffer \o rest \in Seq(Indices) /\ read \o p \in Seq(Indices) /\ read \o v \in Seq(Indices)
    BY <1>1, <1>6, <2>2
  <2>5. AllEvents' = (read \o p) \o (buffer \o rest) /\ AllEvents = (read \o v) \o (buffer \o rest)
    <3>1. (read \o p) \o <<>> = read \o p
      BY <2>6, ConcatLaws
    <3>2. Associates(read \o p, buffer, rest) /\ Associates(read \o v, buffer, rest)
      BY <1>1, <1>6, <2>6, ConcatLaws
    <3> QED
      BY <2>3, <2>4, <3>1, <3>2, Zenon DEF Associates
  <2>7. Len(AllEvents') = Len(AllEvents)
    <3>1. /\ Len(AllEvents') = Len(read) + Len(p) + Len(buffer \o rest)
          /\ Len(AllEvents) = Len(read) + Len(v) + Len(buffer \o rest)
      BY <1>1, <2>2, <2>5, <2>6, ConcatAt
    <3> QED
      BY <2>2, <3>1
  <2>8. Range(AllEvents') = Range(AllEvents)
    <3>1. /\ RangesJoin(read \o p, buffer \o rest) /\ RangesJoin(read \o v, buffer \o rest)
          /\ RangesJoin(read, p) /\ RangesJoin(read, v)
      BY <1>1, <2>2, <2>6, RangeOfConcat
    <3>2. /\ Range((read \o p) \o (buffer \o rest)) = Range(read \o p) \cup Range(buffer \o rest)
          /\ Range((read \o v) \o (buffer \o rest)) = Range(read \o v) \cup Range(buffer \o rest)
          /\ Range(read \o p) = Range(read) \cup Range(p)
          /\ Range(read \o v) = Range(read) \cup Range(v)
      BY <3>1, Zenon DEF RangesJoin
    <3> QED
      BY <2>2, <2>5, <3>2, Zenon
  <2>9. Complete'
    BY <1>2, <1>3, <2>1, <2>7, <2>8 DEF Complete
  <2>10. read' \in Seq(Indices) /\ buffer' \in Seq(Indices) /\ pendingEvents' \in Seq(Indices)
    BY <1>1, <2>1
  <2> QED
    BY <1>1, <2>9, <2>10 DEF EventsInv, NoEventLostOrReordered, Complete, AllEvents, QueuedEvents
<1>9. CASE OwnerDrains /\ pendingEvents = <<>>
  <2>1. /\ read' = read \o buffer /\ buffer' = <<>> /\ pendingEvents' = <<>>
        /\ mixed' = (mixed \/ FALSE)
    BY <1>9 DEF OwnerDrains
  <2>2. AllEvents' = read \o buffer \o <<>> \o <<>> \o rest
    BY <1>4, <1>5, <2>1
  <2>3. AllEvents = read \o <<>> \o buffer \o rest
    BY <1>4, <1>7, <1>9
  <2>4. AllEvents' = AllEvents
    BY <1>1, <1>6, <2>2, <2>3
  <2>5. Complete'
    BY <1>2, <1>3, <2>1, <2>4 DEF Complete
  <2>6. read' \in Seq(Indices) /\ buffer' \in Seq(Indices) /\ pendingEvents' \in Seq(Indices)
    BY <1>1, <2>1
  <2> QED
    BY <1>1, <2>5, <2>6 DEF EventsInv, NoEventLostOrReordered, Complete, AllEvents, QueuedEvents
<1>10. CASE OwnerReadsNext /\ pendingEvents # <<>>
  <2>1. /\ read' = Append(read, Last(pendingEvents)) /\ pendingEvents' = Front(pendingEvents)
        /\ buffer' = buffer /\ mixed' = mixed
    BY <1>10 DEF OwnerReadsNext, Swapped
  <2>2. Last(pendingEvents) \in Indices /\ Front(pendingEvents) \in Seq(Indices)
    BY <1>1, <1>10, PopIsFirst
  <2>3. read' \in Seq(Indices) /\ buffer' \in Seq(Indices) /\ pendingEvents' \in Seq(Indices)
    BY <1>1, <2>1, <2>2
  <2>4. read' \o Reverse(pendingEvents') \o buffer = read \o Reverse(pendingEvents) \o buffer
    <3>1. PopsFirst(read, pendingEvents, buffer)
      BY <1>1, <1>10, PopIsFirst
    <3> QED
      BY <2>1, <3>1, Zenon DEF PopsFirst
  <2>5. AllEvents' = AllEvents
    BY <1>5, <1>7, <2>1, <2>4
  <2>6. Complete'
    BY <1>2, <1>3, <2>1, <2>5 DEF Complete
  <2> QED
    BY <1>1, <2>3, <2>6 DEF EventsInv, NoEventLostOrReordered, Complete, AllEvents, QueuedEvents
<1>11. CASE OwnerReadsNext /\ pendingEvents = <<>>
  <2> DEFINE v == Reverse(buffer)
  <2>1. /\ read' = Append(read, Last(v)) /\ pendingEvents' = Front(v)
        /\ buffer' = <<>> /\ mixed' = mixed /\ v # <<>>
    BY <1>11 DEF OwnerReadsNext, Swapped
  <2>2. v \in Seq(Indices) /\ Reverse(v) = buffer
    BY <1>1, ReverseFacts, ReverseTwice
  <2> HIDE DEF v
  <2>3. Last(v) \in Indices /\ Front(v) \in Seq(Indices)
    BY <2>1, <2>2, PopIsFirst
  <2>4. read' \in Seq(Indices) /\ buffer' \in Seq(Indices) /\ pendingEvents' \in Seq(Indices)
    BY <1>1, <2>1, <2>3
  <2>5. read' \o Reverse(pendingEvents') \o rest = read \o buffer \o rest
    <3>1. PopsFirst(read, v, rest)
      BY <1>1, <1>6, <2>1, <2>2, PopIsFirst
    <3> QED
      BY <2>1, <2>2, <3>1, Zenon DEF PopsFirst
  <2>6. AllEvents' = read' \o Reverse(pendingEvents') \o <<>> \o rest
    BY <1>5, <2>1
  <2>7. AllEvents = read \o <<>> \o buffer \o rest
    BY <1>4, <1>7, <1>11
  <2>8. Reverse(pendingEvents') \in Seq(Indices)
    BY <2>4, ReverseFacts
  <2>9. AllEvents' = AllEvents
    <3> DEFINE f == Reverse(pendingEvents')
    <3>1. read' \o f \in Seq(Indices)
      BY <1>1, <2>4, <2>8, ConcatLaws
    <3>2. (read' \o f) \o <<>> = read' \o f
      BY <3>1, ConcatLaws
    <3>3. read \o <<>> = read
      BY <1>1, ConcatLaws
    <3> QED
      BY <2>5, <2>6, <2>7, <3>2, <3>3, Zenon
  <2>10. Complete'
    BY <1>2, <1>3, <2>1, <2>9 DEF Complete
  <2> QED
    BY <1>1, <2>4, <2>10 DEF EventsInv, NoEventLostOrReordered, Complete, AllEvents, QueuedEvents
<1> QED
  BY <1>8, <1>9, <1>10, <1>11

(* Every step keeps the events and their order.                            *)
LEMMA StepKeepsEvents ==
  ASSUME ControlInv, ConnectorInv, ClientInv, EventsInv, StepKinds
  PROVE  ClientInv' /\ EventsInv'
<1>1. CASE Rests /\ UNCHANGED <<buffer, pendingEvents, read, mixed>>
  <2>1. UNCHANGED <<client, events, buffer, pendingEvents, read, mixed>>
    BY <1>1 DEF Rests
  <2>2. Indices' = Indices
    BY <2>1 DEF Indices
  <2>3. ClientInv'
    BY <2>1, <2>2 DEF ClientInv
  <2>4. AllEvents' = AllEvents /\ QueuedEvents' = QueuedEvents
    BY <2>1, <2>2 DEF AllEvents, QueuedEvents, DrainedEvents, PassedOn
  <2>5. NoEventLostOrReordered'
    <3>1. (client # NoClient => Complete)'
      BY <2>1, <2>4, LostOrReorderedIsIncomplete DEF EventsInv, Complete
    <3> QED
      BY <3>1 DEF NoEventLostOrReordered, Complete, AllEvents, QueuedEvents
  <2> QED
    BY <2>1, <2>2, <2>3, <2>5 DEF EventsInv
<1>2. CASE Rests /\ (OwnerDrains \/ OwnerReadsNext)
  <2>1. client # NoClient /\ UNCHANGED <<client, events>>
    BY <1>2 DEF Rests, OwnerDrains, OwnerReadsNext, ControlInv, ConnectorInv
  <2>2. ClientInv'
    BY <2>1 DEF ClientInv, Indices
  <2> QED
    BY <1>2, <2>1, <2>2, ReadingKeepsEvents
<1>3. CASE \E s \in Statuses, e \in Events : Queues(s, e)
  <2>1. PICK s \in Statuses, e \in Events : Queues(s, e)
    BY <1>3
  <2>2. EventsInv'
    BY <2>1, QueuingKeepsEvents
  <2>3. ClientInv'
    BY <2>1, BecomesQueues DEF Queues
  <2> QED
    BY <2>2, <2>3
<1>4. CASE StartsOver
  BY <1>4, StartingKeepsEvents
<1>5. CASE WorkerHandsOver
  <2>1. client # NoClient
    BY <1>5 DEF WorkerHandsOver, ControlInv, ConnectorInv
  <2> QED
    BY <1>5, <2>1, HandingOverKeepsEvents
<1> QED
  BY <1>1, <1>2, <1>3, <1>4, <1>5 DEF StepKinds

(* Every step keeps what the events tell of the status.                    *)
LEMMA StepKeepsStatus ==
  ASSUME ControlInv, ConnectorInv, ClientInv, EventsInv, StatusInv, StepKinds,
         ControlInv', ConnectorInv'
  PROVE  StatusInv'
<1>1. CASE Rests
  <2>1. UNCHANGED <<client, events, ownEnds>> /\ (hasSentEnd => hasSentEnd')
        /\ (LetGo' => (LetGo /\ UNCHANGED handedOver) \/ handedOver' = Len(events))
    BY <1>1 DEF Rests
  <2>2. StatusTold => StatusTold'
    BY <2>1 DEF StatusTold, Status, Indices
  <2>3. (client # NoClient /\ ~ hasSentEnd)' =>
          (client'.kind = "Rudp" /\ ownEnds' # {}) \/ StatusTold'
    BY <2>1, <2>2 DEF StatusInv
  <2>4. ASSUME LetGo', NEW i \in Range(client'.queue) PROVE i <= handedOver' \/ i \in ownEnds'
    <3>1. CASE LetGo /\ UNCHANGED handedOver
      BY <2>1, <2>4, <3>1 DEF StatusInv
    <3>2. CASE handedOver' = Len(events)
      <4>1. client # NoClient
        BY <2>1, <2>4 DEF LetGo, ControlInv, ConnectorInv
      <4>2. client.queue \in Seq(Indices) /\ Indices = 1 .. Len(events) /\ Len(events) \in Nat
        BY <4>1, EventTypes
      <4>3. i \in 1 .. Len(events)
        BY <2>1, <2>4, <4>2 DEF Range
      <4> QED
        BY <3>2, <4>2, <4>3
    <3> QED
      BY <2>1, <2>4, <3>1, <3>2
  <2> QED
    BY <2>3, <2>4 DEF StatusInv
<1>2. CASE \E s \in Statuses, e \in Events : Queues(s, e)
  <2>1. PICK s \in Statuses, e \in Events : Queues(s, e)
    BY <1>2
  <2> DEFINE n == Len(events)
  <2>2. /\ client # NoClient /\ (hasSentEnd => hasSentEnd') /\ ownEnds \subseteq ownEnds'
        /\ Truthful(s, e) \/ hasSentEnd' \/ (client.kind = "Rudp" /\ ownEnds' # {})
        /\ LetGo' => LetGo /\ UNCHANGED handedOver /\ n + 1 \in ownEnds'
    BY <2>1 DEF Queues
  <2>3. /\ client'.kind = client.kind /\ client'.status = s
        /\ client'.queue = Append(client.queue, n + 1)
        /\ events' = Append(events, e) /\ Indices' = 1 .. n + 1 /\ Indices = 1 .. n
        /\ \A i \in Indices : events'[i] = events[i]
    BY <2>1, BecomesQueues DEF Queues
  <2>4. n \in Nat /\ events \in Seq(Events) /\ client.queue \in Seq(Indices)
    BY <2>2, EventTypes DEF ClientInv
  <2>5. events'[n + 1] = e /\ Status' = RbtlStatus(s)
    BY <2>3, <2>4 DEF Status
  <2>6. ASSUME StatusTold, Truthful(s, e) PROVE StatusTold'
    <3>1. CASE Tells(e)
      <4>1. /\ n + 1 \in Indices' /\ Tells(events'[n + 1])
            /\ RbtlEvent(events'[n + 1])[2] = Status'
            /\ \A k \in Indices' : k <= n + 1
        BY <2>3, <2>4, <2>5, <2>6, <3>1 DEF Truthful
      <4> QED
        BY <4>1 DEF StatusTold
    <3>2. CASE ~ Tells(e)
      <4>1. Status' = Status
        BY <2>5, <2>6, <3>2 DEF Truthful
      <4>2. \A k \in Indices' : k = n + 1 \/ k \in Indices
        BY <2>3, <2>4
      <4>3. \A k \in Indices' :
              Tells(events'[k]) => k \in Indices /\ Tells(events[k]) /\ events'[k] = events[k]
        BY <2>3, <2>5, <3>2, <4>2
      <4>4. \A k \in Indices : k \in Indices' /\ events'[k] = events[k]
        BY <2>3, <2>4
      <4> QED
        BY <2>6, <4>1, <4>3, <4>4 DEF StatusTold
    <3> QED
      BY <3>1, <3>2
  <2>7. (client # NoClient /\ ~ hasSentEnd)' =>
          (client'.kind = "Rudp" /\ ownEnds' # {}) \/ StatusTold'
    BY <2>2, <2>3, <2>6 DEF StatusInv
  <2>8. ASSUME LetGo', NEW i \in Range(client'.queue) PROVE i <= handedOver' \/ i \in ownEnds'
    <3>1. i \in Range(client.queue) \/ i = n + 1
      <4>1. client.queue \in Seq(Nat) /\ n + 1 \in Nat
        BY <2>3, <2>4
      <4> QED
        BY <2>3, <2>8, <4>1, RangeFacts
    <3> QED
      BY <2>2, <2>8, <3>1 DEF StatusInv
  <2> QED
    BY <2>7, <2>8 DEF StatusInv
<1>3. CASE StartsOver
  <2>1. /\ events' = <<>> /\ Indices' = {}
        /\ client' # NoClient => Status' = "Connecting"
    BY <1>3, StartingKeepsEvents DEF Status, Indices
  <2>2. ~ LetGo'
    BY <1>3 DEF StartsOver, LetGo, ownerVars
  <2> QED
    BY <2>1, <2>2 DEF StatusInv, StatusTold
<1>4. CASE WorkerHandsOver
  <2>1. client # NoClient /\ UNCHANGED <<events, ownEnds, hasSentEnd>>
    BY <1>4 DEF WorkerHandsOver, WorkerOnly, ownerVars, ControlInv, ConnectorInv
  <2>2. client' = [client EXCEPT !.queue = <<>>]
    BY <1>4, <2>1, HandingOverKeepsEvents
  <2>3. client'.kind = client.kind /\ client'.status = client.status /\ client'.queue = <<>>
    BY <2>1, <2>2 DEF ClientInv
  <2>4. StatusTold => StatusTold'
    BY <2>1, <2>3 DEF StatusTold, Status, Indices
  <2>5. Range(client'.queue) = {}
    BY <2>3 DEF Range
  <2> QED
    BY <2>1, <2>3, <2>4, <2>5 DEF StatusInv
<1> QED
  BY <1>1, <1>2, <1>3, <1>4 DEF StepKinds

-----------------------------------------------------------------------------
(* The theorems about the connector, the worker and the owner.             *)

ClientsInv == ControlInv /\ ConnectorInv /\ ClientInv /\ EventsInv /\ StatusInv

(* Where the connector and the two threads are; which protocols were       *)
(* tried; where the events are; what they tell.                            *)
THEOREM ClientsInvariant == Spec => []ClientsInv
<1>1. ASSUME Init PROVE ClientsInv
  <2>1. /\ client = NoClient /\ events = <<>> /\ offered \subseteq Range(Protocols)
        /\ done = {} /\ connector = "new" /\ failed = <<>>
        /\ worker = "none" /\ itersLeft = PostEndIters /\ hasSentEnd = FALSE
        /\ shouldStop = FALSE /\ poisoned = FALSE /\ buffer = <<>> /\ pendingEvents = <<>>
        /\ owner = "none" /\ read = <<>> /\ mixed = FALSE /\ ownEnds = {}
    BY <1>1 DEF Init, ConnectorInit, ClientInit
  <2>2. ControlInv
    <3>1. PostEndIters \in 0 .. PostEndIters /\ PostEndIters # 0
      BY AsyncAssumption
    <3> QED
      BY <2>1, <3>1 DEF ControlInv
  <2>3. ConnectorInv
    BY <2>1 DEF ConnectorInv
  <2>4. ClientInv
    BY <2>1 DEF ClientInv
  <2>5. EventsInv
    BY <2>1 DEF EventsInv, NoEventLostOrReordered
  <2>6. StatusInv
    BY <2>1 DEF StatusInv, LetGo
  <2> QED
    BY <2>2, <2>3, <2>4, <2>5, <2>6 DEF ClientsInv
<1>2. ClientsInv /\ [Next]_vars => ClientsInv'
  BY EveryStep, StepKeepsEvents, StepKeepsStatus DEF ClientsInv
<1> QED
  BY <1>1, <1>2, PTL DEF Spec

(* RBTLConnector skips no protocol that is offered, tries none twice, and  *)
(* gives up only when all have failed, for any list of protocols.          *)
THEOREM VerdictsAreDeserved == Spec => []VerdictIsDeserved
<1>1. ASSUME ControlInv, ConnectorInv PROVE VerdictIsDeserved
  <2>1. ASSUME client # NoClient, connector # "discarded"
        PROVE  client.kind \in offered /\ failed = InOrder(offered \cap Preceding(client.kind))
    <3>1. Verdict
      BY <1>1, <2>1 DEF ControlInv, ConnectorInv
    <3>2. PICK j \in 1 .. Len(Protocols) :
            /\ client.kind = Protocols[j] /\ Protocols[j] \in offered
            /\ failed = InOrder(offered \cap Before(j))
      BY <2>1, <3>1 DEF Verdict
    <3> QED
      BY <3>2, BeforeIsPreceding
  <2>2. connector = "failed" => failed = InOrder(offered)
    BY <1>1 DEF ConnectorInv, Verdict
  <2> QED
    BY <2>1, <2>2 DEF VerdictIsDeserved
<1> QED
  BY <1>1, ClientsInvariant, PTL DEF ClientsInv

(* The types of all variables, those of the pings included.                *)
THEOREM ClientTypes == Spec => []TypeOK
<1>1. ASSUME PingInv, ControlInv, ConnectorInv, EventsInv PROVE TypeOK
  <2>1. done \subseteq Range(Protocols)
    <3>1. \A j \in 1 .. Len(Protocols) : Before(j) \subseteq Range(Protocols)
      BY ProtocolsType DEF Before
    <3> QED
      BY <1>1, <3>1 DEF ControlInv, ConnectorInv, Verdict
  <2> QED
    BY <1>1, <2>1 DEF TypeOK, PingInv, ControlInv, ConnectorInv, EventsInv
<1> QED
  BY <1>1, ClientsInvariant, PingInvariant, PTL DEF ClientsInv

(* No event is lost, doubled or, but for the documented misuse, reordered  *)
(* between the client, the worker's buffer, the owner's and the owner.     *)
THEOREM EventsAreKept == Spec => []NoEventLostOrReordered
<1>1. ClientsInv => NoEventLostOrReordered
  BY DEF ClientsInv, EventsInv
<1> QED
  BY <1>1, ClientsInvariant, PTL

(* The owner that takes the client's mutex finds the status its events     *)
(* tell it, but for the exceptions the property names.                     *)
THEOREM StatusIsAlwaysTold == Spec => []StatusIsTold
<1>1. ASSUME ClientsInv, owner = "active", LockFree, ~ hasSentEnd,
             ~ \E i \in Range(client.queue) : i <= handedOver \/ i \in ownEnds,
             ~ (client.kind = "Rudp" /\ ownEnds # {})
      PROVE  ToldStatus = Status
  <2> DEFINE given == read \o pendingEvents \o buffer
             told  == {i \in Range(given) : Len(RbtlEvent(events[i])) = 2}
  <2>1. LetGo /\ client # NoClient
    BY <1>1 DEF ClientsInv, ControlInv, ConnectorInv, LockFree, HoldsClient, LetGo
  <2>2. /\ Indices = 1 .. Len(events) /\ Len(events) \in Nat
        /\ read \in Seq(Indices) /\ Reverse(pendingEvents) \in Seq(Indices)
        /\ pendingEvents \in Seq(Indices) /\ buffer \in Seq(Indices)
        /\ client.queue \in Seq(Indices) /\ [i \in Indices |-> i] \in Seq(Indices)
        /\ events \in Seq(Events)
    BY <1>1, <2>1, EventTypes DEF ClientsInv, ClientInv
  <2>3. DrainedEvents = <<>>
    <3>1. \A i \in 1 .. Len(client.queue) : client.queue[i] \in Range(client.queue)
      BY <2>2 DEF Range
    <3>2. \A i \in 1 .. Len(client.queue) : FALSE
      BY <1>1, <2>1, <3>1 DEF ClientsInv, StatusInv
    <3> QED
      BY <2>2, <3>2, SelectedNone DEF DrainedEvents
  <2>4. Range(given) = PassedOn
    <3> DEFINE v == Reverse(pendingEvents)
    <3>1. v \in Seq(Indices) /\ Range(v) = Range(pendingEvents)
      BY <2>2, ReverseFacts
    <3> HIDE DEF v
    <3>2. read \o v \in Seq(Indices) /\ read \o pendingEvents \in Seq(Indices)
          /\ (read \o v) \o buffer \in Seq(Indices)
      BY <2>2, <3>1
    <3>3. Range((read \o v) \o buffer) = Range(read) \cup Range(v) \cup Range(buffer)
      <4>1. RangesJoin(read \o v, buffer) /\ RangesJoin(read, v)
        BY <2>2, <3>1, <3>2, RangeOfConcat
      <4> QED
        BY <4>1, Zenon DEF RangesJoin
    <3>4. Range((read \o pendingEvents) \o buffer)
            = Range(read) \cup Range(pendingEvents) \cup Range(buffer)
      <4>1. RangesJoin(read \o pendingEvents, buffer) /\ RangesJoin(read, pendingEvents)
        BY <2>2, <3>2, RangeOfConcat
      <4> QED
        BY <4>1, Zenon DEF RangesJoin
    <3>5. AllEvents = (read \o v) \o buffer
      <4>1. AllEvents = ((read \o v) \o buffer) \o <<>>
        BY <2>3 DEF AllEvents, v
      <4>2. ((read \o v) \o buffer) \o <<>> = (read \o v) \o buffer
        BY <3>2, ConcatLaws
      <4> QED
        BY <4>1, <4>2, Zenon
    <3>6. Range(AllEvents) = Range(QueuedEvents)
      BY <1>1, <2>1, LostOrReorderedIsIncomplete DEF ClientsInv, EventsInv, Complete
    <3>7. Range(QueuedEvents) = PassedOn
      <4> DEFINE all == [i \in Indices |-> i]
                 q == Selected(all, PassedOn)
      <4>1. Len(all) = Len(events) /\ (\A i \in 1 .. Len(events) : all[i] = i)
            /\ all \in Seq(Indices) /\ QueuedEvents = q
        BY <2>2 DEF QueuedEvents
      <4> HIDE DEF all
      <4>2. q \in Seq(Indices)
        BY <4>1, SelectedType
      <4>3. \A x : (\E i \in 1 .. Len(q) : q[i] = x)
                     <=> x \in PassedOn /\ (\E i \in 1 .. Len(all) : all[i] = x)
        BY <4>1, SelectedElements
      <4>4. \A x \in PassedOn : \E i \in 1 .. Len(all) : all[i] = x
        BY <2>2, <4>1 DEF PassedOn, Indices
      <4> HIDE DEF q
      <4>5. Range(q) = {q[i] : i \in 1 .. Len(q)}
        BY <4>2 DEF Range
      <4> QED
        BY <4>1, <4>3, <4>4, <4>5
    <3> QED
      BY <3>1, <3>3, <3>4, <3>5, <3>6, <3>7
  <2>5. told = {i \in Indices : Tells(events[i])}
    <3>1. \A i \in Indices : Tells(events[i]) => i \in PassedOn
      BY <2>2, EventsTell DEF PassedOn, Indices
    <3>2. PassedOn \subseteq Indices
      BY DEF PassedOn, Indices
    <3> HIDE DEF given
    <3> QED
      BY <2>4, <3>1, <3>2 DEF Tells
  <2>6. StatusTold
    BY <1>1, <2>1 DEF ClientsInv, StatusInv
  <2>7. ToldStatus = IF told = {} THEN "Connecting" ELSE RbtlEvent(events[Max(told)])[2]
    BY DEF ToldStatus
  <2> HIDE DEF told
  <2>8. CASE told = {}
    <3>1. \A k \in Indices : ~ Tells(events[k])
      BY <2>5, <2>8
    <3> QED
      BY <2>6, <2>7, <2>8, <3>1 DEF StatusTold
  <2>9. CASE told # {}
    <3>1. PICK j \in told : RbtlEvent(events[j])[2] = Status /\ \A k \in told : k <= j
      BY <2>5, <2>6, <2>9 DEF StatusTold
    <3>2. \A k \in told : k \in Nat
      BY <2>2, <2>5
    <3>3. Max(told) \in told /\ \A k \in told : Max(told) >= k
      <4>1. j \in told /\ \A k \in told : j >= k
        BY <3>1, <3>2
      <4> QED
        BY <4>1 DEF Max
    <3>4. Max(told) = j
      BY <3>1, <3>2, <3>3
    <3> QED
      BY <2>7, <2>9, <3>1, <3>4
  <2> QED
    BY <2>8, <2>9
<1>2. ClientsInv => StatusIsTold
  BY <1>1 DEF StatusIsTold
<1> QED
  BY <1>2, ClientsInvariant, PTL
=============================================================================
