--------------------------- MODULE ReceiverProofs ---------------------------
(***************************************************************************)
(* What the FragmentAssembler guarantees, for any number of messages, of   *)
(* fragments, of bits in a byte and for all delays.                        *)
(*                                                                         *)
(* The invariant that is inductive adds, to the type of the variables,     *)
(* why an ack can be believed: a complete set was delivered, and one that  *)
(* waits holds too few fragments to have them all (so that they cannot     *)
(* cover every bit of its ack).                                            *)
(***************************************************************************)
EXTENDS Receiver, FragmentAssemblerProofs

(* An incomplete set has at least one fragment of its message, and fewer   *)
(* than there are.                                                         *)
Waits(s, q) ==
  /\ s.frags \subseteq {f \in Incoming : f.seq = q}
  /\ IsFiniteSet(s.frags)
  /\ s.frags # {}
  /\ Cardinality(s.frags) <= TotalOf[q]

SetInv ==
  \A q \in DOMAIN pending :
    IF pending[q].complete THEN IsDelivered(q) ELSE Waits(pending[q], q)

(* The inductive invariant.                                                *)
ReceiverInv == ReceiverTypeOK /\ SetInv /\ CompleteAckMeansDelivered

-----------------------------------------------------------------------------
(* Facts about the operators of the assembler.                             *)

(* A set that waits lacks a fragment.                                      *)
LEMMA WaitingLacksOne ==
  ASSUME NEW q \in Seq, NEW s, Waits(s, q)
  PROVE  ~ (0 .. TotalOf[q] \subseteq Ids(s.frags))
BY ReceiverAssumption, LacksOne DEF Waits

(* The acks sent for a message that is not delivered report something.     *)
LEMMA AckOfWaitingSet ==
  ASSUME NEW q \in Seq, NEW s, Waits(s, q), NEW f \in s.frags, HasBitForLast(TotalOf[q])
  PROVE  MissingIter(AckFrom(s, f), TotalOf[q]) # {}
<1>1. f.total = TotalOf[q] /\ TotalOf[q] \in Nat
  BY ReceiverAssumption DEF Waits
<1> QED
  BY <1>1, ReportsSomething DEF Waits

(* The set of f, once f is in it, is not complete and holds fragments of   *)
(* its message only.                                                       *)
LEMMA SetWithFragment ==
  ASSUME ReceiverInv, NEW f \in Incoming, ~ KnownSet(f).complete
  PROVE  LET s == WithFragment(KnownSet(f), f) IN
         /\ s \in AssemblySet
         /\ ~ s.complete
         /\ s.frags \subseteq {g \in Incoming : g.seq = f.seq}
         /\ IsFiniteSet(s.frags)
         /\ s.frags # {}
<1> DEFINE k == KnownSet(f)
           kept == {g \in k.frags : g.id # f.id}
<1>1. f \in Fragment /\ Incoming \subseteq Fragment
  BY ReceiverAssumption
<1>2. /\ k \in AssemblySet
      /\ k.frags \subseteq {g \in Incoming : g.seq = f.seq}
      /\ IsFiniteSet(k.frags)
  <2>1. CASE f.seq \in DOMAIN pending
    BY <2>1 DEF KnownSet, ReceiverInv, ReceiverTypeOK, SetInv, Waits
  <2>2. CASE f.seq \notin DOMAIN pending
    BY <1>1, <2>2, NewSetType, FS_EmptySet DEF KnownSet
  <2> QED
    BY <2>1, <2>2
<1>3. ~ k.complete
  OBVIOUS
<1> HIDE DEF k
<1>4. /\ WithFragment(k, f) \in AssemblySet
      /\ WithFragment(k, f).complete = k.complete
      /\ WithFragment(k, f).frags = kept \cup {f}
      /\ IsFiniteSet(WithFragment(k, f).frags)
  BY <1>1, <1>2, WithFragmentType
<1> QED
  BY <1>2, <1>3, <1>4 DEF k

(* What has been delivered stays delivered.                                *)
LEMMA DeliverDelivers ==
  ASSUME ReceiverInv, NEW q \in Seq, NEW s, Deliver(q, s)
  PROVE  /\ delivered' \in [Seq -> [intact : 0 .. MaxCopies, garbled : 0 .. MaxCopies]]
         /\ IsDelivered(q)'
         /\ \A r \in Seq : IsDelivered(r) => IsDelivered(r)'
<1>1. \A n \in 0 .. MaxCopies : OneMore(n) \in 0 .. MaxCopies /\ OneMore(n) > 0 /\ OneMore(n) >= n
  BY DEF OneMore, MaxCopies
<1>2. \/ delivered' = [delivered EXCEPT ![q].garbled = OneMore(@)]
      \/ delivered' = [delivered EXCEPT ![q].intact = OneMore(@)]
  BY DEF Deliver
<1>3. delivered \in [Seq -> [intact : 0 .. MaxCopies, garbled : 0 .. MaxCopies]]
  BY DEF ReceiverInv, ReceiverTypeOK
<1> QED
  BY <1>1, <1>2, <1>3 DEF IsDelivered, MaxCopies

-----------------------------------------------------------------------------
(* The steps.                                                              *)

(* The acks already sent remain true.                                      *)
LEMMA AcksStayTrue ==
  ASSUME ReceiverInv, UNCHANGED ackLog, \A r \in Seq : IsDelivered(r) => IsDelivered(r)'
  PROVE  CompleteAckMeansDelivered' /\ (\A p \in ackLog' : p.seq \in Seq)
BY DEF ReceiverInv, ReceiverTypeOK, CompleteAckMeansDelivered

(* A fragment is received: each of the three outcomes of push.             *)
LEMMA FragmentArrivesStep ==
  ASSUME ReceiverInv, NEW f \in Incoming, Arrives(f)
  PROVE  ReceiverInv'
<1> DEFINE k == KnownSet(f)
           s == WithFragment(KnownSet(f), f)
           q == f.seq
<1>1. q \in Seq /\ f.total = TotalOf[q] /\ TotalOf[q] \in Nat
  BY ReceiverAssumption DEF Fragment
<1>2. UNCHANGED ackLog
  BY DEF Arrives
<1>3. CASE PushComplete(f)
  <2>1. UNCHANGED receiverVars
    BY <1>2, <1>3 DEF PushComplete, receiverVars
  <2> QED
    BY <2>1 DEF ReceiverInv, ReceiverTypeOK, SetInv, CompleteAckMeansDelivered, IsDelivered,
                receiverVars, assemblerVars
<1>4. CASE ~ k.complete /\ PushIncomplete(f)
  <2>1. s \in AssemblySet /\ ~ s.complete /\ s.frags \subseteq {g \in Incoming : g.seq = q}
        /\ IsFiniteSet(s.frags) /\ s.frags # {}
    BY <1>4, SetWithFragment
  <2>2. pending' = Put(q, s) /\ UNCHANGED <<delivered, receiverPanicked>>
    BY <1>4 DEF PushIncomplete
  <2>3. Waits(s, q)
    <3>1. ~ (Cardinality(s.frags) > f.total)
      BY <1>4 DEF PushIncomplete, IsFull
    <3> QED
      BY <1>1, <2>1, <3>1, FS_CardinalityType DEF Waits
  <2> HIDE DEF s, q
  <2>4. DOMAIN pending' = DOMAIN pending \cup {q}
        /\ \A r \in DOMAIN pending' : pending'[r] = IF r = q THEN s ELSE pending[r]
    BY <2>2 DEF Put
  <2>5. \A r \in Seq : IsDelivered(r) = IsDelivered(r)'
    BY <2>2 DEF IsDelivered
  <2>6. CompleteAckMeansDelivered' /\ (\A p \in ackLog' : p.seq \in Seq)
    BY <1>2, <2>5, AcksStayTrue
  <2>7. ReceiverTypeOK'
    BY <1>1, <2>1, <2>2, <2>4, <2>6 DEF ReceiverInv, ReceiverTypeOK
  <2>8. SetInv'
    BY <1>1, <2>1, <2>3, <2>4, <2>5 DEF ReceiverInv, ReceiverTypeOK, SetInv
  <2> QED
    BY <2>6, <2>7, <2>8 DEF ReceiverInv
<1>5. CASE ~ k.complete /\ PushFull(f, TRUE)
  <2>1. s \in AssemblySet /\ IsFiniteSet(s.frags) /\ s.frags # {}
    BY <1>5, SetWithFragment
  <2>2. UNCHANGED receiverPanicked
    BY <1>5 DEF PushFull
  <2>3. CASE pending' = Drop({q}) /\ UNCHANGED delivered
    <3>1. DOMAIN pending' \subseteq DOMAIN pending
          /\ \A r \in DOMAIN pending' : pending'[r] = pending[r]
      BY <2>3 DEF Drop
    <3>2. \A r \in Seq : IsDelivered(r) = IsDelivered(r)'
      BY <2>3 DEF IsDelivered
    <3>3. CompleteAckMeansDelivered' /\ (\A p \in ackLog' : p.seq \in Seq)
      BY <1>2, <3>2, AcksStayTrue
    <3>4. ReceiverTypeOK'
      BY <2>2, <2>3, <3>1, <3>3 DEF ReceiverInv, ReceiverTypeOK
    <3>5. SetInv'
      BY <3>1, <3>2 DEF ReceiverInv, ReceiverTypeOK, SetInv
    <3> QED
      BY <3>3, <3>4, <3>5 DEF ReceiverInv
  <2>4. CASE pending' = Put(q, Completed(s)) /\ Deliver(q, s)
    <3>1. /\ delivered' \in [Seq -> [intact : 0 .. MaxCopies, garbled : 0 .. MaxCopies]]
          /\ IsDelivered(q)'
          /\ \A r \in Seq : IsDelivered(r) => IsDelivered(r)'
      BY <1>1, <2>4, DeliverDelivers
    <3>2. Completed(s) \in AssemblySet /\ Completed(s).complete
      BY <2>1, CompletedType
    <3> HIDE DEF s, q
    <3>3. DOMAIN pending' = DOMAIN pending \cup {q}
          /\ \A r \in DOMAIN pending' : pending'[r] = IF r = q THEN Completed(s) ELSE pending[r]
      BY <2>4 DEF Put
    <3>4. CompleteAckMeansDelivered' /\ (\A p \in ackLog' : p.seq \in Seq)
      BY <1>2, <3>1, AcksStayTrue
    <3>5. ReceiverTypeOK'
      BY <1>1, <2>2, <3>1, <3>2, <3>3, <3>4 DEF ReceiverInv, ReceiverTypeOK
    <3>6. SetInv'
      BY <1>1, <3>1, <3>2, <3>3 DEF ReceiverInv, ReceiverTypeOK, SetInv
    <3> QED
      BY <3>4, <3>5, <3>6 DEF ReceiverInv
  <2> QED
    BY <1>5, <2>3, <2>4 DEF PushFull
<1> QED
  BY <1>3, <1>4, <1>5 DEF Arrives, Push, PushIncomplete, PushFull

(* An ack that is due is true.                                             *)
LEMMA AckIsTrue ==
  ASSUME ReceiverInv, NEW q \in DueSeqs, NEW p \in AckPackets(q),
         HasBitForLast(TotalOf[q]), MissingIter(p.ack, TotalOf[q]) = {}
  PROVE  IsDelivered(q)
<1>1. q \in DOMAIN pending /\ q \in Seq
  BY DEF DueSeqs, ReceiverInv, ReceiverTypeOK
<1>2. p.ack \in GenerateAck(pending[q])
  BY DEF AckPackets
<1>3. CASE pending[q].complete
  BY <1>1, <1>3 DEF ReceiverInv, SetInv
<1>4. CASE ~ pending[q].complete
  <2>1. Waits(pending[q], q)
    BY <1>1, <1>4 DEF ReceiverInv, SetInv
  <2>2. PICK f \in pending[q].frags : p.ack = AckFrom(pending[q], f)
    BY <1>2, <1>4 DEF GenerateAck
  <2> QED
    BY <1>1, <2>1, <2>2, AckOfWaitingSet
<1> QED
  BY <1>3, <1>4

(* The sets that are not stale remain, and send the acks that are due.     *)
LEMMA TicksStep ==
  ASSUME ReceiverInv, Ticks
  PROVE  ReceiverInv'
<1>1. PICK acks \in SUBSET UNION {AckPackets(q) : q \in DueSeqs} :
        AssemblerTick(acks) /\ ackLog' = ackLog \cup acks
  BY DEF Ticks
<1>2. UNCHANGED <<delivered, receiverPanicked>>
  BY <1>1 DEF AssemblerTick
<1>3. \A r \in Seq : IsDelivered(r) = IsDelivered(r)'
  BY <1>2 DEF IsDelivered
<1>4. DOMAIN pending' \subseteq DOMAIN pending
      /\ \A r \in DOMAIN pending' :
           \/ pending'[r] = pending[r]
           \/ r \in DueSeqs /\ pending'[r] = WithAckSent(pending[r])
  BY <1>1 DEF AssemblerTick
<1>5. \A r \in DueSeqs :
        /\ WithAckSent(pending[r]) \in AssemblySet
        /\ WithAckSent(pending[r]).complete = pending[r].complete
        /\ WithAckSent(pending[r]).frags = pending[r].frags
  BY WithAckSentType DEF DueSeqs, AckDue, ReceiverInv, ReceiverTypeOK
<1>6. \A p \in acks : \E q \in DueSeqs : p.seq = q /\ p \in AckPackets(q)
  BY <1>1 DEF AckPackets
<1>7. DueSeqs \subseteq Seq
  BY DEF DueSeqs, ReceiverInv, ReceiverTypeOK
<1>8. ReceiverTypeOK'
  BY <1>1, <1>2, <1>4, <1>5, <1>6, <1>7 DEF ReceiverInv, ReceiverTypeOK
<1>9. SetInv'
  BY <1>3, <1>4, <1>5 DEF ReceiverInv, ReceiverTypeOK, SetInv, Waits
<1>10. CompleteAckMeansDelivered'
  <2> SUFFICES ASSUME NEW p \in ackLog \cup acks, HasBitForLast(TotalOf[p.seq]),
                      MissingIter(p.ack, TotalOf[p.seq]) = {}
               PROVE  IsDelivered(p.seq)'
    BY <1>1 DEF CompleteAckMeansDelivered
  <2>1. CASE p \in ackLog
    BY <2>1, <1>3 DEF ReceiverInv, ReceiverTypeOK, CompleteAckMeansDelivered
  <2>2. CASE p \in acks
    BY <2>2, <1>3, <1>6, <1>7, AckIsTrue
  <2> QED
    BY <2>1, <2>2
<1> QED
  BY <1>8, <1>9, <1>10 DEF ReceiverInv

(* The ages of the sets change, and nothing else.                          *)
LEMMA AgesStep ==
  ASSUME ReceiverInv, Ages
  PROVE  ReceiverInv'
<1>1. UNCHANGED <<delivered, receiverPanicked, ackLog>>
  BY DEF Ages, AssemblerAges
<1>2. \A r \in Seq : IsDelivered(r) = IsDelivered(r)'
  BY <1>1 DEF IsDelivered
<1>3. DOMAIN pending' = DOMAIN pending
  BY DEF Ages, AssemblerAges
<1>4. \A r \in DOMAIN pending :
        /\ pending'[r] \in AssemblySet
        /\ pending'[r].complete = pending[r].complete
        /\ pending'[r].frags = pending[r].frags
  BY AgedSets DEF Ages, ReceiverInv, ReceiverTypeOK
<1>5. CompleteAckMeansDelivered' /\ (\A p \in ackLog' : p.seq \in Seq)
  BY <1>1, <1>2, AcksStayTrue
<1>6. ReceiverTypeOK'
  BY <1>1, <1>3, <1>4, <1>5 DEF ReceiverInv, ReceiverTypeOK
<1>7. SetInv'
  BY <1>2, <1>3, <1>4 DEF ReceiverInv, ReceiverTypeOK, SetInv, Waits
<1> QED
  BY <1>5, <1>6, <1>7 DEF ReceiverInv

(* A panic changes nothing but receiverPanicked.                           *)
LEMMA PanicsStep ==
  ASSUME ReceiverInv, Panics
  PROVE  ReceiverInv'
<1>1. UNCHANGED <<pending, delivered, ackLog>> /\ receiverPanicked' = TRUE
  BY DEF Panics, AssemblerPanic
<1> QED
  BY <1>1 DEF ReceiverInv, ReceiverTypeOK, SetInv, CompleteAckMeansDelivered, IsDelivered

-----------------------------------------------------------------------------
(* The theorems.                                                           *)

(* The inductive invariant: each step of the receiver preserves it.        *)
THEOREM ReceiverInvariance == ReceiverSpec => []ReceiverInv
<1>1. ReceiverInit => ReceiverInv
  <2> SUFFICES ASSUME ReceiverInit PROVE ReceiverInv
    OBVIOUS
  <2>1. DOMAIN pending = {} /\ ackLog = {} /\ receiverPanicked = FALSE
    BY DEF ReceiverInit, AssemblerInit
  <2>2. delivered \in [Seq -> [intact : 0 .. MaxCopies, garbled : 0 .. MaxCopies]]
    BY DEF ReceiverInit, AssemblerInit, MaxCopies
  <2> QED
    BY <2>1, <2>2 DEF ReceiverInv, ReceiverTypeOK, SetInv, CompleteAckMeansDelivered
<1>2. ReceiverInv /\ [ReceiverNext]_receiverVars => ReceiverInv'
  <2> SUFFICES ASSUME ReceiverInv, [ReceiverNext]_receiverVars PROVE ReceiverInv'
    OBVIOUS
  <2>1. ASSUME NEW f \in Incoming, Arrives(f) PROVE ReceiverInv'
    BY <2>1, FragmentArrivesStep
  <2>2. CASE Ticks
    BY <2>2, TicksStep
  <2>3. CASE Panics
    BY <2>3, PanicsStep
  <2>4. CASE Ages
    BY <2>4, AgesStep
  <2>5. CASE UNCHANGED receiverVars
    BY <2>5 DEF ReceiverInv, ReceiverTypeOK, SetInv, CompleteAckMeansDelivered, IsDelivered,
                receiverVars, assemblerVars
  <2> QED
    BY <2>1, <2>2, <2>3, <2>4, <2>5 DEF ReceiverNext
<1> QED
  BY <1>1, <1>2, PTL DEF ReceiverSpec

(* The variables keep their types.                                         *)
THEOREM ReceiverTypes == ReceiverSpec => []ReceiverTypeOK
<1>1. ReceiverInv => ReceiverTypeOK
  BY DEF ReceiverInv
<1> QED
  BY <1>1, ReceiverInvariance, PTL

(* An ack that reports no fragment missing is sent only for a message the  *)
(* application was given.                                                  *)
THEOREM AcksAreTrue == ReceiverSpec => []CompleteAckMeansDelivered
<1>1. ReceiverInv => CompleteAckMeansDelivered
  BY DEF ReceiverInv
<1> QED
  BY <1>1, ReceiverInvariance, PTL

(* An ack reports what is missing, and nothing else, for messages of any   *)
(* number of fragments.                                                    *)
THEOREM AcksExact == ReceiverSpec => []AcksAreExact
<1>1. ReceiverInv => AcksAreExact
  <2> SUFFICES ASSUME ReceiverInv, NEW q \in DOMAIN pending, HasBitForLast(TotalOf[q])
               PROVE  /\ ~ pending[q].complete => ~ AckMayPanic(pending[q])
                      /\ \A a \in GenerateAck(pending[q]) :
                           MissingIter(a, TotalOf[q]) =
                             IF pending[q].complete THEN {}
                               ELSE (0 .. TotalOf[q]) \ Ids(pending[q].frags)
    BY DEF AcksAreExact
  <2> DEFINE s == pending[q]
  <2>1. q \in Seq /\ (IF s.complete THEN IsDelivered(q) ELSE Waits(s, q))
    BY DEF ReceiverInv, ReceiverTypeOK, SetInv
  <2>2. CASE ~ s.complete
    <3>1. Waits(s, q)
      BY <2>1, <2>2
    <3>2. TotalOf[q] \in Nat /\ TotalOf[q] # 0
      <4>1. Cardinality(s.frags) \in Nat /\ Cardinality(s.frags) # 0
        BY <3>1, FS_CardinalityType, FS_EmptySet DEF Waits
      <4>2. TotalOf[q] \in Nat
        BY <2>1, ReceiverAssumption
      <4> QED
        BY <3>1, <4>1, <4>2 DEF Waits
    <3>3. TotalOf[q] % BitsPerByte # 0
      BY <3>2 DEF HasBitForLast
    <3>4. Ids(s.frags) \subseteq 0 .. TotalOf[q]
      BY <3>1, ReceiverAssumption DEF Waits, Ids
    <3>5. \A f \in s.frags : f.total = TotalOf[q]
      BY <3>1, ReceiverAssumption DEF Waits
    <3>6. /\ ~ CreatePanics(Ids(s.frags), TotalOf[q])
          /\ MissingIter(CreateFromFragIds(Ids(s.frags), TotalOf[q]), TotalOf[q])
               = (0 .. TotalOf[q]) \ Ids(s.frags)
      BY <3>2, <3>3, <3>4, RoundTrip
    <3> QED
      BY <2>2, <3>5, <3>6 DEF AckMayPanic, AckPanics, GenerateAck, AckFrom
  <2>3. CASE s.complete
    BY <2>3, CompleteReportsNothing DEF GenerateAck
  <2> QED
    BY <2>2, <2>3
<1> QED
  BY <1>1, ReceiverInvariance, PTL

(* A message whose fragments have all arrived is not kept waiting.         *)
THEOREM NoneWaitsInVain == ReceiverSpec => []NoFullSetWaits
<1>1. ReceiverInv => NoFullSetWaits
  BY WaitingLacksOne DEF ReceiverInv, ReceiverTypeOK, SetInv, NoFullSetWaits
<1> QED
  BY <1>1, ReceiverInvariance, PTL

-----------------------------------------------------------------------------
(* What is remembered.                                                     *)

(* A complete set is never older than it may become.                       *)
CompleteAges ==
  \A q \in DOMAIN pending : pending[q].complete => pending[q].age <= StaleComplete

(* A set is stored only when it is new or has just been changed: its age   *)
(* starts again from 0.                                                    *)
LEMMA CompleteAgesStep ==
  ASSUME ReceiverTypeOK, ReceiverTypeOK', CompleteAges, [ReceiverNext]_receiverVars
  PROVE  CompleteAges'
<1> SUFFICES ASSUME NEW q \in DOMAIN pending', pending'[q].complete
             PROVE  pending'[q].age <= StaleComplete
  BY DEF CompleteAges
<1>1. StaleComplete \in Nat \ {0}
  BY AssemblerAssumption
<1>2. CASE q \in DOMAIN pending /\ pending'[q] = pending[q]
  BY <1>2 DEF CompleteAges
<1>3. ASSUME NEW f \in Incoming, Arrives(f)
      PROVE  pending'[q].age <= StaleComplete
  <2> DEFINE k == KnownSet(f)
             s == WithFragment(KnownSet(f), f)
  <2>1. CASE PushComplete(f)
    BY <2>1, <1>2 DEF PushComplete, assemblerVars
  <2>2. CASE ~ k.complete /\ pending' = Put(f.seq, s)
    <3>1. CASE q # f.seq
      BY <1>2, <2>2, <3>1 DEF Put
    <3>2. CASE q = f.seq
      <4>1. pending'[q] = s
        BY <2>2, <3>2 DEF Put
      <4>2. k \in AssemblySet \/ k = NewSet(f)
        BY DEF KnownSet, ReceiverTypeOK
      <4>3. s.complete = k.complete
        BY <4>2 DEF WithFragment, AssemblySet, NewSet
      <4> QED
        BY <2>2, <4>1, <4>3
    <3> QED
      BY <3>1, <3>2
  <2>3. CASE pending' = Drop({f.seq})
    BY <1>2, <2>3 DEF Drop
  <2>4. CASE pending' = Put(f.seq, Completed(s))
    <3>1. CASE q # f.seq
      BY <1>2, <2>4, <3>1 DEF Put
    <3>2. CASE q = f.seq
      <4>1. pending'[q] = Completed(s)
        BY <2>4, <3>2 DEF Put
      <4>2. k \in AssemblySet \/ k = NewSet(f)
        BY DEF KnownSet, ReceiverTypeOK
      <4>3. Completed(s).age = 0
        BY <4>2 DEF WithFragment, AssemblySet, NewSet, Completed
      <4> QED
        BY <1>1, <4>1, <4>3
    <3> QED
      BY <3>1, <3>2
  <2> QED
    BY <1>3, <2>1, <2>2, <2>3, <2>4 DEF Arrives, Push, PushIncomplete, PushFull
<1>4. CASE Ticks
  <2>1. /\ q \in DOMAIN pending
        /\ \/ pending'[q] = pending[q]
           \/ pending'[q] = WithAckSent(pending[q])
    BY <1>4 DEF Ticks, AssemblerTick
  <2>2. pending[q] \in AssemblySet
    BY <2>1 DEF ReceiverTypeOK
  <2>3. WithAckSent(pending[q]).age = pending[q].age
        /\ WithAckSent(pending[q]).complete = pending[q].complete
    BY <2>2 DEF WithAckSent, AssemblySet
  <2> QED
    BY <2>1, <2>3 DEF CompleteAges
<1>5. CASE Panics \/ UNCHANGED receiverVars
  BY <1>2, <1>5 DEF Panics, AssemblerPanic, receiverVars, assemblerVars
<1>6. CASE Ages
  <2>1. q \in DOMAIN pending
    BY <1>6 DEF Ages, AssemblerAges
  <2> DEFINE s == pending[q]
  <2>2. s \in AssemblySet
    BY <2>1 DEF ReceiverTypeOK
  <2>3. pending'[q] = [s EXCEPT !.age = Older(s.age, StaleLimit(s)),
                                !.ackAge = Older(s.ackAge, AckSendInterval)]
    BY <1>6, <2>1 DEF Ages, AssemblerAges
  <2>4. pending'[q].age = Older(s.age, StaleLimit(s)) /\ s.complete
    BY <2>2, <2>3 DEF AssemblySet
  <2>5. StaleLimit(s) = StaleComplete
    BY <2>2, <2>4 DEF StaleLimit, AssemblySet
  <2>6. s.age \in Nat /\ s.age <= StaleComplete
    BY <2>1, <2>2, <2>4 DEF CompleteAges, AssemblySet
  <2> QED
    BY <1>1, <2>4, <2>5, <2>6 DEF Older
<1> QED
  BY <1>3, <1>4, <1>5, <1>6 DEF ReceiverNext

(* While the receiver remembers that a message is complete, no fragment    *)
(* that is sent again delivers it a second time, and it forgets a complete *)
(* message no sooner than StaleComplete after.                             *)
THEOREM NoSecondCopy == ReceiverSpec => NoCopyWhileRemembered
<1> DEFINE Inv == ReceiverTypeOK /\ CompleteAges
<1>1. ReceiverInit => CompleteAges
  BY DEF ReceiverInit, AssemblerInit, CompleteAges
<1>2. ReceiverTypeOK /\ ReceiverTypeOK' /\ CompleteAges /\ [ReceiverNext]_receiverVars
        => CompleteAges'
  BY CompleteAgesStep
<1>3. Inv /\ [ReceiverNext]_receiverVars =>
        [\A q \in DOMAIN pending : pending[q].complete =>
           /\ delivered'[q] = delivered[q]
           /\ q \in DOMAIN pending' \/ pending[q].age = StaleComplete]_receiverVars
  <2> SUFFICES ASSUME Inv, ReceiverNext, NEW q \in DOMAIN pending, pending[q].complete
               PROVE  /\ delivered'[q] = delivered[q]
                      /\ q \in DOMAIN pending' \/ pending[q].age = StaleComplete
    OBVIOUS
  <2>1. ASSUME NEW f \in Incoming, Arrives(f)
        PROVE  delivered'[q] = delivered[q] /\ q \in DOMAIN pending'
    <3>1. CASE PushComplete(f)
      BY <3>1 DEF PushComplete, assemblerVars
    <3>2. CASE PushIncomplete(f) \/ PushFull(f, TRUE)
      <4>1. q # f.seq
        BY <3>2 DEF PushIncomplete, PushFull, KnownSet
      <4>2. delivered'[q] = delivered[q]
        BY <3>2, <4>1 DEF PushIncomplete, PushFull, Deliver, Inv, ReceiverTypeOK
      <4>3. q \in DOMAIN pending'
        BY <3>2, <4>1 DEF PushIncomplete, PushFull, Put, Drop
      <4> QED
        BY <4>2, <4>3
    <3> QED
      BY <2>1, <3>1, <3>2 DEF Arrives, Push
  <2>2. CASE Ticks
    <3>1. UNCHANGED delivered /\ DOMAIN pending' = DOMAIN pending \ StaleSeqs
      BY <2>2 DEF Ticks, AssemblerTick
    <3>2. CASE q \in StaleSeqs
      <4>1. pending[q].age >= StaleComplete
        BY <3>2 DEF StaleSeqs, IsStale, StaleLimit
      <4>2. pending[q].age <= StaleComplete /\ pending[q].age \in Nat
        BY DEF Inv, CompleteAges, ReceiverTypeOK, AssemblySet
      <4> QED
        BY <3>1, <4>1, <4>2, AssemblerAssumption
    <3> QED
      BY <3>1, <3>2
  <2>3. CASE Panics
    BY <2>3 DEF Panics, AssemblerPanic
  <2>4. CASE Ages
    BY <2>4 DEF Ages, AssemblerAges
  <2> QED
    BY <2>1, <2>2, <2>3, <2>4 DEF ReceiverNext
<1> QED
  BY <1>1, <1>2, <1>3, ReceiverTypes, PTL DEF ReceiverSpec, NoCopyWhileRemembered
=============================================================================
