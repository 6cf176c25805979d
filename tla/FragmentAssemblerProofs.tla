---------------------- MODULE FragmentAssemblerProofs ----------------------
(***************************************************************************)
(* What the payload of an ack means and what the operators of the          *)
(* FragmentAssembler yield, for every number of fragments and every width  *)
(* of a byte.                                                              *)
(***************************************************************************)
EXTENDS FragmentAssembler, FiniteSetTheorems, TLAPS

(* A number is rounded up, to the next multiple of the width of a byte.    *)
LEMMA RoundedUp ==
  ASSUME NEW fragTotal \in Nat, fragTotal % BitsPerByte # 0
  PROVE  /\ AckSizeFromFragTotal(fragTotal) \in Nat
         /\ fragTotal < AckSizeFromFragTotal(fragTotal) * BitsPerByte
<1> DEFINE d == fragTotal \div BitsPerByte
           r == fragTotal % BitsPerByte
<1>1. BitsPerByte \in Nat /\ BitsPerByte > 0
  BY BitsPerByteAssumption
<1>2. d \in Nat /\ r \in 0 .. BitsPerByte - 1 /\ fragTotal = BitsPerByte * d + r
  BY <1>1, Z3
<1>3. AckSizeFromFragTotal(fragTotal) = d + 1
  BY DEF AckSizeFromFragTotal
<1>4. (d + 1) * BitsPerByte = BitsPerByte * d + BitsPerByte
  BY <1>1, <1>2, Z3
<1> QED
  BY <1>1, <1>2, <1>3, <1>4

(* The bytes of an ack are a number of bytes.                              *)
LEMMA AckSizeType ==
  ASSUME NEW fragTotal \in Nat
  PROVE  AckSizeFromFragTotal(fragTotal) \in Nat
<1>1. BitsPerByte \in Nat /\ BitsPerByte > 0
  BY BitsPerByteAssumption
<1>2. fragTotal \div BitsPerByte \in Nat
  BY <1>1, Z3
<1> QED
  BY <1>2 DEF AckSizeFromFragTotal

(* Then there is a bit for each fragment, the last one included.           *)
LEMMA EachFragmentHasABit ==
  ASSUME NEW fragTotal \in Nat, fragTotal % BitsPerByte # 0
  PROVE  0 .. fragTotal \subseteq Positions(AckSizeFromFragTotal(fragTotal))
<1>1. BitsPerByte \in Nat
  BY BitsPerByteAssumption
<1> DEFINE n == AckSizeFromFragTotal(fragTotal) * BitsPerByte
<1>2. n \in Nat /\ fragTotal < n
  BY <1>1, RoundedUp, Z3
<1> HIDE DEF n
<1>3. 0 .. fragTotal \subseteq 0 .. n - 1
  BY <1>2
<1> QED
  BY <1>3 DEF Positions, n

(* The fragments an ack does not report missing have their bit set in it.  *)
LEMMA NothingMissing ==
  ASSUME NEW fragTotal \in Nat, fragTotal % BitsPerByte # 0,
         NEW ids, MissingIter(CreateFromFragIds(ids, fragTotal), fragTotal) = {}
  PROVE  0 .. fragTotal \subseteq ids
<1>1. 0 .. fragTotal \subseteq Positions(AckSizeFromFragTotal(fragTotal))
  BY EachFragmentHasABit
<1> QED
  BY <1>1 DEF MissingIter, CreateFromFragIds, Ack

(* What the receiver encodes is what the sender decodes: whichever         *)
(* fragments have arrived, those reported missing are the others, and      *)
(* encoding does not index past the bytes.                                 *)
LEMMA RoundTrip ==
  ASSUME NEW total \in Nat, total % BitsPerByte # 0,
         NEW arrived, arrived \subseteq 0 .. total
  PROVE  /\ ~ CreatePanics(arrived, total)
         /\ MissingIter(CreateFromFragIds(arrived, total), total) = (0 .. total) \ arrived
<1> DEFINE bytes == AckSizeFromFragTotal(total)
<1>1. 0 .. total \subseteq Positions(bytes)
  BY EachFragmentHasABit
<1>2. \A p \in Positions(bytes) : p \in 0 .. total <=> p <= total
  BY DEF Positions
<1>3. ~ CreatePanics(arrived, total)
  BY <1>1 DEF CreatePanics
<1> HIDE DEF bytes
<1>4. {p \in Positions(bytes) : p \notin arrived /\ p <= total} = (0 .. total) \ arrived
  BY <1>1, <1>2
<1>5. MissingIter(CreateFromFragIds(arrived, total), total) = (0 .. total) \ arrived
  BY <1>4 DEF MissingIter, CreateFromFragIds, Ack, bytes
<1> QED
  BY <1>3, <1>5

(* An ack of all ones reports nothing.                                     *)
LEMMA CompleteReportsNothing ==
  ASSUME NEW total, NEW fragTotal
  PROVE  MissingIter(CreateComplete(total), fragTotal) = {}
BY DEF MissingIter, CreateComplete, Ack
-----------------------------------------------------------------------------
(* The sets of the assembler.                                              *)

(* A new set waits for its first fragment.                                 *)
LEMMA NewSetType ==
  ASSUME NEW f \in Fragment
  PROVE  NewSet(f) \in AssemblySet /\ NewSet(f).frags = {} /\ ~ NewSet(f).complete
<1>1. AckSendInterval \in Nat /\ MaxAcksSent = 2
  BY AssemblerAssumption DEF MaxAcksSent
<1> QED
  BY <1>1 DEF NewSet, AssemblySet, Fragment

(* A set that is given a fragment has it in place of those of the same id. *)
LEMMA WithFragmentType ==
  ASSUME NEW k \in AssemblySet, IsFiniteSet(k.frags), NEW f \in Fragment
  PROVE  /\ WithFragment(k, f) \in AssemblySet
         /\ WithFragment(k, f).complete = k.complete
         /\ WithFragment(k, f).frags = {g \in k.frags : g.id # f.id} \cup {f}
         /\ IsFiniteSet(WithFragment(k, f).frags)
<1> DEFINE kept == {g \in k.frags : g.id # f.id}
           all == kept \cup {f}
<1>1. AckSendInterval \in Nat /\ MaxAcksSent = 2
  BY AssemblerAssumption DEF MaxAcksSent
<1>2. WithFragment(k, f) = [k EXCEPT !.frags = all, !.age = 0, !.acksSent = 0]
  BY DEF WithFragment
<1>3. all \in SUBSET Fragment
  BY DEF AssemblySet
<1>4. IsFiniteSet(all)
  <2>1. IsFiniteSet(kept)
    BY FS_Subset
  <2> QED
    BY <2>1, FS_AddElement
<1>5. all = {g \in k.frags : g.id # f.id} \cup {f}
  OBVIOUS
<1> HIDE DEF all
<1>6. WithFragment(k, f) =
        [complete |-> k.complete, frags |-> all, total |-> k.total, key |-> k.key,
         expire |-> k.expire, age |-> 0, ackAge |-> k.ackAge, acksSent |-> 0]
  BY <1>2 DEF AssemblySet
<1> QED
  BY <1>1, <1>3, <1>4, <1>5, <1>6 DEF AssemblySet

(* The set of a message that is delivered.                                 *)
LEMMA CompletedType ==
  ASSUME NEW s \in AssemblySet, IsFiniteSet(s.frags), s.frags # {}
  PROVE  Completed(s) \in AssemblySet /\ Completed(s).complete
<1>1. Cardinality(s.frags) - 1 \in Nat
  BY FS_CardinalityType, FS_EmptySet
<1>2. AckSendInterval \in Nat /\ MaxAcksSent = 2
  BY AssemblerAssumption DEF MaxAcksSent
<1> DEFINE none == {}
           last == Cardinality(s.frags) - 1
<1>3. Completed(s) = [s EXCEPT !.complete = TRUE, !.frags = none, !.total = last,
                               !.age = 0, !.ackAge = AckSendInterval, !.acksSent = 0]
  BY DEF Completed
<1>4. none \in SUBSET Fragment /\ last \in Nat
  BY <1>1
<1> HIDE DEF none, last
<1>5. Completed(s) =
        [complete |-> TRUE, frags |-> none, total |-> last, key |-> s.key,
         expire |-> s.expire, age |-> 0, ackAge |-> AckSendInterval, acksSent |-> 0]
  BY <1>3 DEF AssemblySet
<1> QED
  BY <1>2, <1>4, <1>5 DEF AssemblySet


(* An ack is sent: its count and its date change.                          *)
LEMMA WithAckSentType ==
  ASSUME NEW s \in AssemblySet, s.acksSent < MaxAcksSent
  PROVE  /\ WithAckSent(s) \in AssemblySet
         /\ WithAckSent(s).complete = s.complete /\ WithAckSent(s).frags = s.frags
<1> DEFINE sent == s.acksSent + 1
<1>1. sent \in 0 .. MaxAcksSent /\ 0 \in 0 .. AckSendInterval
  BY AssemblerAssumption DEF AssemblySet, MaxAcksSent
<1>2. WithAckSent(s) = [s EXCEPT !.ackAge = 0, !.acksSent = sent]
  BY DEF WithAckSent
<1> HIDE DEF sent
<1>3. WithAckSent(s) =
        [complete |-> s.complete, frags |-> s.frags, total |-> s.total, key |-> s.key,
         expire |-> s.expire, age |-> s.age, ackAge |-> 0, acksSent |-> sent]
  BY <1>2 DEF AssemblySet
<1> QED
  BY <1>1, <1>3 DEF AssemblySet

(* The sets grow older, and change in nothing else.                        *)
LEMMA AgedSets ==
  ASSUME AssemblerAges, NEW q \in DOMAIN pending, pending[q] \in AssemblySet
  PROVE  /\ pending'[q] \in AssemblySet
         /\ pending'[q].complete = pending[q].complete
         /\ pending'[q].frags = pending[q].frags
<1> DEFINE s == pending[q]
           age == Older(s.age, StaleLimit(s))
           ackAge == Older(s.ackAge, AckSendInterval)
<1>1. age \in Nat /\ ackAge \in 0 .. AckSendInterval
  BY AssemblerAssumption DEF AssemblySet, Older
<1>2. pending'[q] = [s EXCEPT !.age = age, !.ackAge = ackAge]
  BY DEF AssemblerAges
<1>3. s \in AssemblySet
  OBVIOUS
<1> HIDE DEF s, age, ackAge
<1>4. pending'[q] =
        [complete |-> s.complete, frags |-> s.frags, total |-> s.total, key |-> s.key,
         expire |-> s.expire, age |-> age, ackAge |-> ackAge, acksSent |-> s.acksSent]
  BY <1>2, <1>3 DEF AssemblySet
<1> QED
  BY <1>1, <1>3, <1>4 DEF AssemblySet, s

(* The acks of a set, whether or not it is complete.                       *)
LEMMA GenerateAckType ==
  ASSUME NEW s \in AssemblySet, IsFiniteSet(s.frags) \/ s.complete
  PROVE  /\ IsFiniteSet(GenerateAck(s))
         /\ GenerateAck(s) \subseteq [bytes : Nat, bits : SUBSET Nat]
<1>1. CASE s.complete
  <2>1. GenerateAck(s) = {CreateComplete(s.total)} /\ s.total \in Nat
    BY <1>1 DEF GenerateAck, AssemblySet
  <2>2. AckSizeFromFragTotal(s.total) \in Nat
    BY <2>1, AckSizeType
  <2>3. Positions(AckSizeFromFragTotal(s.total)) \subseteq Nat
    BY DEF Positions
  <2>4. CreateComplete(s.total) \in [bytes : Nat, bits : SUBSET Nat]
    BY <2>2, <2>3 DEF CreateComplete, Ack
  <2>5. IsFiniteSet({CreateComplete(s.total)})
    BY FS_Singleton
  <2> QED
    BY <2>1, <2>4, <2>5
<1>2. CASE ~ s.complete
  <2> DEFINE able == {g \in s.frags : ~ AckPanics(s, g)}
             ackOf == [g \in able |-> AckFrom(s, g)]
  <2>1. GenerateAck(s) = {AckFrom(s, g) : g \in able}
    BY <1>2 DEF GenerateAck
  <2>2. ackOf \in Surjection(able, GenerateAck(s))
    BY <2>1 DEF Surjection
  <2>3. IsFiniteSet(able)
    BY <1>2, FS_Subset
  <2>4. IsFiniteSet(GenerateAck(s))
    BY <2>2, <2>3, FS_Surjection
  <2>5. \A g \in s.frags : AckSizeFromFragTotal(g.total) \in Nat /\ g.id \in Nat
    BY AckSizeType DEF AssemblySet, Fragment
  <2>6. Ids(s.frags) \in SUBSET Nat
    BY <2>5 DEF Ids
  <2>7. \A g \in able : AckFrom(s, g) \in [bytes : Nat, bits : SUBSET Nat]
    BY <2>5, <2>6 DEF AckFrom, CreateFromFragIds, Ack
  <2> QED
    BY <2>1, <2>4, <2>7
<1> QED
  BY <1>1, <1>2

-----------------------------------------------------------------------------
(* What a set that waits reports.                                          *)

(* A set of fragments has no more ids than fragments.                      *)
LEMMA FewIds ==
  ASSUME NEW frags, IsFiniteSet(frags)
  PROVE  IsFiniteSet(Ids(frags)) /\ Cardinality(Ids(frags)) <= Cardinality(frags)
<1> DEFINE idOf == [f \in frags |-> f.id]
<1>1. idOf \in Surjection(frags, Ids(frags))
  BY DEF Ids, Surjection
<1> QED
  BY <1>1, FS_Surjection

(* Too few fragments lack an id.                                           *)
LEMMA LacksOne ==
  ASSUME NEW frags, IsFiniteSet(frags), NEW total \in Nat, Cardinality(frags) <= total
  PROVE  ~ (0 .. total \subseteq Ids(frags))
<1>1. IsFiniteSet(Ids(frags)) /\ Cardinality(Ids(frags)) <= Cardinality(frags)
  BY FewIds
<1>2. Cardinality(0 .. total) = total + 1
  BY FS_Interval
<1>3. Cardinality(frags) \in Nat /\ Cardinality(Ids(frags)) \in Nat
  BY <1>1, FS_CardinalityType
<1> SUFFICES ASSUME 0 .. total \subseteq Ids(frags) PROVE FALSE
  OBVIOUS
<1>4. Cardinality(0 .. total) <= Cardinality(Ids(frags))
  BY <1>1, FS_Subset
<1> QED
  BY <1>1, <1>2, <1>3, <1>4

(* The ack of a set that waits, taken from its fragment f, reports         *)
(* something.                                                              *)
LEMMA ReportsSomething ==
  ASSUME NEW s, IsFiniteSet(s.frags), NEW f \in s.frags, f.total \in Nat,
         Cardinality(s.frags) <= f.total, HasBitForLast(f.total)
  PROVE  MissingIter(AckFrom(s, f), f.total) # {}
<1>1. f.total # 0
  <2>1. Cardinality(s.frags) \in Nat /\ Cardinality(s.frags) # 0
    BY FS_CardinalityType, FS_EmptySet
  <2> QED
    BY <2>1
<1>2. f.total % BitsPerByte # 0
  BY <1>1 DEF HasBitForLast
<1>3. ~ (0 .. f.total \subseteq Ids(s.frags))
  BY LacksOne
<1> QED
  BY <1>2, <1>3, NothingMissing DEF AckFrom
=============================================================================
