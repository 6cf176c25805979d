----------------------- MODULE ReliableTransferProofs -----------------------
(***************************************************************************)
(* What the two ends of a reliable transfer guarantee together, for any    *)
(* number of messages, of fragments, of losses and of repetitions, for all *)
(* delays.                                                                 *)
(*                                                                         *)
(* The chain of the argument: a fragment under way, or in a set of the     *)
(* receiver, is one its message was ever cut into (SentOf); so a set that  *)
(* waits lacks one of them (Partial); so an ack that reports nothing       *)
(* missing comes from a message that was delivered (Tells), and so does    *)
(* the last ack of the sender, and what it concludes from that.            *)
(*                                                                         *)
(* The conclusion is drawn message by message, for those an ack can tell   *)
(* the truth about (Believable): the last fragment has a bit in the ack,   *)
(* and the ciphertext makes as many fragments as the plaintext.            *)
(***************************************************************************)
EXTENDS ReliableTransfer, FragmentAssemblerProofs

(* resend_packets has something to send.                                   *)
Resendable(m) == m.key /\ CanFragment(m.len)

(* The fragments that may ever be sent of an accepted message.             *)
SentOf(q) ==
  LET m == accepted[q]
  IN  FirstTransmission(q, m) \cup
        (IF Resendable(m) THEN Retransmission(q, [msg |-> m]) ELSE {})

(* An option holds one value or none.                                      *)
AtMostOne(S) == \A x, y \in S : x = y

TrackerInv ==
  /\ nextSeqId \in 0 .. MaxMessages /\ senderPanicked \in BOOLEAN
  /\ DOMAIN accepted \subseteq 0 .. nextSeqId - 1
  /\ \A q \in DOMAIN accepted :
       accepted[q] \in Outgoing /\ CanFragment(WireLen(accepted[q]))
  /\ DOMAIN sets \subseteq DOMAIN accepted
  /\ \A q \in DOMAIN sets :
       /\ sets[q] \in SentDataSet /\ sets[q].msg = accepted[q] /\ accepted[q].key
       /\ AtMostOne(sets[q].lastAck) /\ AtMostOne(sets[q].oldest)

(* A set that waits has fragments of its message, and fewer than one of    *)
(* them says there are.                                                    *)
Partial(s, q) ==
  /\ s.frags \subseteq SentOf(q) /\ IsFiniteSet(s.frags)
  /\ \E f \in s.frags : Cardinality(s.frags) <= f.total

AssemblerInv ==
  /\ delivered \in [Seq -> [intact : 0 .. MaxCopies, garbled : 0 .. MaxCopies]]
  /\ receiverPanicked \in BOOLEAN
  /\ \A q \in Seq : Copies(q) > 0 => q \in DOMAIN accepted
  /\ DOMAIN pending \subseteq DOMAIN accepted
  /\ \A q \in DOMAIN pending :
       /\ pending[q] \in AssemblySet
       /\ IF pending[q].complete THEN Copies(q) > 0 ELSE Partial(pending[q], q)

NetInv ==
  /\ \A f \in fragNet : f.seq \in DOMAIN accepted /\ f \in SentOf(f.seq)
  /\ ackNet \subseteq AckPacket /\ \A p \in ackNet : p.seq \in DOMAIN accepted
  /\ losses \in 0 .. MaxLosses /\ dups \in 0 .. MaxDups

ClockInv ==
  /\ inProcess \subseteq Ends /\ sinceProcess \in [Ends -> 0 .. MaxIdle]
  /\ connected \in BOOLEAN /\ sentEarly \subseteq Messages

(* The ciphertext makes as many fragments as the plaintext, which is what  *)
(* is sent again.                                                          *)
OneTotal(m) == Resendable(m) => FragTotal(WireLen(m)) = FragTotal(m.len)

(* The acks of m can be believed.                                          *)
Believable(m) == OneTotal(m) /\ (Resendable(m) => HasBitForLast(FragTotal(m.len)))

(* If the ack a reports nothing missing of the message q, it is true.      *)
Tells(a, q) ==
  LET m == accepted[q]
  IN  Resendable(m) /\ Believable(m) /\ MissingIter(a, FragTotal(m.len)) = {}
        => Copies(q) > 0

BelievedInv ==
  /\ \A p \in ackNet : Tells(p.ack, p.seq)
  /\ \A q \in DOMAIN sets :
       /\ \A a \in sets[q].lastAck : Tells(a, q)
       /\ sets[q].done /\ Believable(accepted[q]) => Copies(q) > 0

(* What is sent again of m never meets, in a set, what was sent first in   *)
(* another form.                                                           *)
Unmixed(m) == m.key /\ m.encryption => FragTotal(WireLen(m)) = 0 /\ OneTotal(m)

IntactInv ==
  \A q \in DOMAIN accepted : Unmixed(accepted[q]) => delivered[q].garbled = 0

(* The inductive invariant.                                                *)
TransferInv ==
  TrackerInv /\ AssemblerInv /\ NetInv /\ ClockInv /\ BelievedInv /\ IntactInv

-----------------------------------------------------------------------------
(* Facts about messages and their fragments.                               *)

(* The last id of what can be fragmented.                                  *)
LEMMA FragTotalType ==
  ASSUME NEW len, CanFragment(len)
  PROVE  FragTotal(len) \in Nat
BY FragmentationAssumption DEF CanFragment, FragTotal

(* The fields of a message.                                                *)
LEMMA MessageType ==
  ASSUME NEW m \in Outgoing
  PROVE  m.len \in Nat /\ {m.encryption, m.key, m.expires} \subseteq BOOLEAN
BY TrackerAssumption

(* Fragments of one transmission.                                          *)
LEMMA FragmentsType ==
  ASSUME NEW q \in Seq, NEW total \in Nat, NEW key \in BOOLEAN, NEW expire \in BOOLEAN,
         NEW enc \in BOOLEAN
  PROVE  /\ IsFiniteSet(Fragments(q, total, key, expire, enc))
         /\ \A f \in Fragments(q, total, key, expire, enc) :
              /\ f \in Fragment /\ f.seq = q /\ f.id \in 0 .. f.total
              /\ f.total = total /\ f.enc = enc
<1> DEFINE frags == Fragments(q, total, key, expire, enc)
           frag == [i \in 0 .. total |->
                      [seq |-> q, id |-> i, total |-> total, key |-> key,
                       expire |-> expire, enc |-> enc]]
<1>1. \A f \in frags : /\ f.id \in 0 .. total /\ f = frag[f.id]
                       /\ f \in Fragment /\ f.seq = q /\ f.total = total /\ f.enc = enc
  BY DEF Fragments, Fragment
<1>2. frag \in Surjection(0 .. total, frags)
  <2>1. \A i \in 0 .. total : frag[i] \in frags
    BY DEF Fragments
  <2> QED
    BY <1>1, <2>1 DEF Surjection
<1>3. IsFiniteSet(0 .. total)
  BY FS_Interval
<1>4. IsFiniteSet(frags)
  BY <1>2, <1>3, FS_Surjection
<1> QED
  BY <1>1, <1>4

(* Fragments of the first transmission.                                    *)
LEMMA FirstTransmissionType ==
  ASSUME NEW q \in Seq, NEW m \in Outgoing, CanFragment(WireLen(m))
  PROVE  /\ FragTotal(WireLen(m)) \in Nat
         /\ IsFiniteSet(FirstTransmission(q, m))
         /\ \A f \in FirstTransmission(q, m) :
              /\ f \in Fragment /\ f.seq = q /\ f.id \in 0 .. f.total
              /\ f.total = FragTotal(WireLen(m)) /\ f.enc = m.encryption
<1> DEFINE total == FragTotal(WireLen(m))
<1>1. total \in Nat
  BY FragTotalType
<1>2. m.key \in BOOLEAN /\ m.expires \in BOOLEAN /\ m.encryption \in BOOLEAN
  BY MessageType
<1>3. FirstTransmission(q, m) = Fragments(q, total, m.key, m.expires, m.encryption)
  BY DEF FirstTransmission
<1> HIDE DEF total
<1>4. /\ IsFiniteSet(FirstTransmission(q, m))
      /\ \A f \in FirstTransmission(q, m) :
           /\ f \in Fragment /\ f.seq = q /\ f.id \in 0 .. f.total
           /\ f.total = total /\ f.enc = m.encryption
  BY <1>1, <1>2, <1>3, FragmentsType
<1> QED
  BY <1>1, <1>4 DEF total

(* Fragments sent again.                                                   *)
LEMMA RetransmissionType ==
  ASSUME NEW q \in Seq, NEW s, s.msg \in Outgoing, CanFragment(s.msg.len)
  PROVE  /\ FragTotal(s.msg.len) \in Nat
         /\ IsFiniteSet(Retransmission(q, s))
         /\ \A f \in Retransmission(q, s) :
              /\ f \in Fragment /\ f.seq = q /\ f.id \in 0 .. f.total
              /\ f.total = FragTotal(s.msg.len) /\ ~ f.enc
<1> DEFINE total == FragTotal(s.msg.len)
<1>1. total \in Nat
  BY FragTotalType
<1>2. s.msg.expires \in BOOLEAN /\ FALSE \in BOOLEAN
  BY MessageType
<1>3. Retransmission(q, s) = Fragments(q, total, FALSE, s.msg.expires, FALSE)
  BY DEF Retransmission
<1> HIDE DEF total
<1>4. \A key, enc \in BOOLEAN :
        /\ IsFiniteSet(Fragments(q, total, key, s.msg.expires, enc))
        /\ \A f \in Fragments(q, total, key, s.msg.expires, enc) :
             /\ f \in Fragment /\ f.seq = q /\ f.id \in 0 .. f.total
             /\ f.total = total /\ f.enc = enc
  BY <1>1, <1>2, FragmentsType
<1>5. /\ IsFiniteSet(Retransmission(q, s))
      /\ \A f \in Retransmission(q, s) :
           /\ f \in Fragment /\ f.seq = q /\ f.id \in 0 .. f.total
           /\ f.total = total /\ f.enc = FALSE
  BY <1>2, <1>3, <1>4, Zenon
<1> QED
  BY <1>1, <1>5 DEF total

(* The sequence ids in use.                                                *)
LEMMA AcceptedIds ==
  ASSUME TrackerInv
  PROVE  DOMAIN accepted \subseteq Messages /\ Messages = Seq /\ IsFiniteSet(Messages)
<1>1. MaxMessages \in Nat /\ Seq = Messages
  BY TrackerAssumption, TransferAssumption
<1>2. IsFiniteSet(0 .. MaxMessages - 1)
  BY <1>1, FS_Interval
<1> QED
  BY <1>1, <1>2 DEF TrackerInv, Messages

(* Every fragment of a message is one of its datagrams.                    *)
LEMMA SentOfType ==
  ASSUME TrackerInv, NEW q \in DOMAIN accepted
  PROVE  /\ q \in Seq /\ accepted[q] \in Outgoing
         /\ FragTotal(WireLen(accepted[q])) \in Nat
         /\ \A f \in SentOf(q) :
              /\ f \in Fragment /\ f.seq = q /\ f.id \in 0 .. f.total
              /\ OneTotal(accepted[q]) => f.total = FragTotal(WireLen(accepted[q]))
              /\ f.enc => accepted[q].encryption
              /\ ~ accepted[q].key => f.enc = accepted[q].encryption
<1> DEFINE m == accepted[q]
           first == FragTotal(WireLen(m))
<1>1. q \in Seq /\ m \in Outgoing /\ CanFragment(WireLen(m))
  BY AcceptedIds DEF TrackerInv
<1>2. first \in Nat /\ m.key \in BOOLEAN /\ m.encryption \in BOOLEAN
  BY <1>1, FragTotalType, MessageType
<1>3. \A f \in FirstTransmission(q, m) :
        /\ f \in Fragment /\ f.seq = q /\ f.id \in 0 .. f.total /\ f.total = first
        /\ f.enc = m.encryption
  BY <1>1, FirstTransmissionType
<1>4. ASSUME Resendable(m), NEW f \in Retransmission(q, [msg |-> m])
      PROVE  /\ f \in Fragment /\ f.seq = q /\ f.id \in 0 .. f.total
             /\ f.total = FragTotal(m.len) /\ ~ f.enc
  <2> DEFINE s == [msg |-> m]
  <2>1. s.msg = m /\ f \in Retransmission(q, s)
    BY <1>4
  <2> HIDE DEF s
  <2>2. s.msg \in Outgoing /\ CanFragment(s.msg.len)
    BY <1>1, <1>4, <2>1 DEF Resendable
  <2>3. /\ f \in Fragment /\ f.seq = q /\ f.id \in 0 .. f.total
        /\ f.total = FragTotal(s.msg.len) /\ ~ f.enc
    BY <1>1, <2>1, <2>2, RetransmissionType
  <2> QED
    BY <2>1, <2>3
<1> HIDE DEF first
<1>5. ASSUME NEW f \in SentOf(q)
      PROVE  /\ f \in Fragment /\ f.seq = q /\ f.id \in 0 .. f.total
             /\ OneTotal(m) => f.total = first
             /\ f.enc => m.encryption
             /\ ~ m.key => f.enc = m.encryption
  BY <1>2, <1>3, <1>4, <1>5 DEF SentOf, OneTotal, Resendable, first
<1> QED
  BY <1>1, <1>2, <1>5 DEF first

-----------------------------------------------------------------------------
(* What a step leaves alone.                                               *)

(* The messages that were accepted are the same ones afterwards.           *)
Grows ==
  /\ DOMAIN accepted \subseteq DOMAIN accepted'
  /\ \A q \in DOMAIN accepted : accepted'[q] = accepted[q]

(* What was delivered stays delivered.                                     *)
StaysDelivered == \A q \in Seq : Copies(q) > 0 => Copies(q)' > 0

(* A message may still be sent as the same fragments.                      *)
LEMMA SentOfGrows ==
  ASSUME Grows, NEW q \in DOMAIN accepted
  PROVE  SentOf(q)' = SentOf(q) /\ \A s : Partial(s, q)' = Partial(s, q)
<1>1. accepted'[q] = accepted[q]
  BY DEF Grows
<1>2. SentOf(q)' = SentOf(q)
  BY <1>1 DEF SentOf
<1> QED
  BY <1>2 DEF Partial

(* What an ack tells stays true.                                           *)
LEMMA TellsGrows ==
  ASSUME Grows, StaysDelivered, NEW q \in Seq, q \in DOMAIN accepted, NEW a, Tells(a, q)
  PROVE  Tells(a, q)'
<1>1. accepted'[q] = accepted[q] /\ (Copies(q) > 0 => Copies(q)' > 0)
  BY DEF Grows, StaysDelivered
<1> QED
  BY <1>1 DEF Tells

(* The sender does nothing.                                                *)
LEMMA TrackerRests ==
  ASSUME TrackerInv, UNCHANGED trackerVars
  PROVE  TrackerInv' /\ Grows
BY DEF TrackerInv, trackerVars, Grows

(* The receiver does nothing.                                              *)
LEMMA AssemblerRests ==
  ASSUME TrackerInv, AssemblerInv, UNCHANGED assemblerVars, Grows
  PROVE  AssemblerInv' /\ StaysDelivered
<1>1. UNCHANGED <<pending, delivered, receiverPanicked>>
  BY DEF assemblerVars
<1>2. \A q \in Seq : Copies(q)' = Copies(q)
  BY <1>1 DEF Copies
<1>3. \A q \in DOMAIN pending : Partial(pending[q], q)' = Partial(pending[q], q)
  <2> SUFFICES ASSUME NEW q \in DOMAIN pending
               PROVE  Partial(pending[q], q)' = Partial(pending[q], q)
    OBVIOUS
  <2>1. SentOf(q)' = SentOf(q)
    BY SentOfGrows DEF AssemblerInv
  <2> QED
    BY <1>1, <2>1 DEF Partial
<1>4. DOMAIN pending \subseteq Seq
  BY AcceptedIds DEF AssemblerInv
<1>5. \A q \in DOMAIN pending :
        IF pending[q].complete THEN Copies(q)' > 0 ELSE Partial(pending[q], q)'
  BY <1>2, <1>3, <1>4 DEF AssemblerInv
<1> QED
  BY <1>1, <1>2, <1>5 DEF AssemblerInv, Grows, StaysDelivered

(* What is concluded from acks that were true remains true.                *)
LEMMA BelievedStep ==
  ASSUME TrackerInv, Grows, StaysDelivered,
         \A p \in ackNet' : p.seq \in DOMAIN accepted /\ Tells(p.ack, p.seq),
         \A q \in DOMAIN sets' :
           \/ /\ q \in DOMAIN accepted
              /\ \A a \in sets'[q].lastAck : Tells(a, q)
              /\ sets'[q].done /\ Believable(accepted[q]) => Copies(q) > 0
           \/ sets'[q].lastAck = {} /\ ~ sets'[q].done
  PROVE  BelievedInv'
<1>1. DOMAIN accepted \subseteq Seq
  BY AcceptedIds
<1>2. ASSUME NEW p \in ackNet' PROVE Tells(p.ack, p.seq)'
  BY <1>1, TellsGrows
<1>3. ASSUME NEW q \in DOMAIN sets'
      PROVE  /\ \A a \in sets'[q].lastAck : Tells(a, q)'
             /\ sets'[q].done /\ Believable(accepted'[q]) => Copies(q)' > 0
  <2>1. CASE /\ q \in DOMAIN accepted
             /\ \A a \in sets'[q].lastAck : Tells(a, q)
             /\ sets'[q].done /\ Believable(accepted[q]) => Copies(q) > 0
    <3>1. q \in Seq /\ accepted'[q] = accepted[q]
      BY <1>1, <2>1 DEF Grows
    <3>2. ASSUME NEW a \in sets'[q].lastAck PROVE Tells(a, q)'
      BY <2>1, <3>1, <3>2, TellsGrows
    <3> QED
      BY <2>1, <3>1, <3>2 DEF StaysDelivered
  <2>2. CASE sets'[q].lastAck = {} /\ ~ sets'[q].done
    BY <2>2
  <2> QED
    BY <1>3, <2>1, <2>2
<1> QED
  BY <1>2, <1>3 DEF BelievedInv

(* What was believed so far.                                               *)
LEMMA BelievedSoFar ==
  ASSUME TrackerInv, NetInv, BelievedInv
  PROVE  /\ \A p \in ackNet : p.seq \in DOMAIN accepted /\ Tells(p.ack, p.seq)
         /\ \A q \in DOMAIN sets :
              /\ q \in DOMAIN accepted
              /\ \A a \in sets[q].lastAck : Tells(a, q)
              /\ sets[q].done /\ Believable(accepted[q]) => Copies(q) > 0
BY DEF TrackerInv, NetInv, BelievedInv

(* Nothing is delivered of a message that is new.                          *)
LEMMA IntactRests ==
  ASSUME TrackerInv, TrackerInv', AssemblerInv, IntactInv, Grows, UNCHANGED delivered
  PROVE  IntactInv'
<1> SUFFICES ASSUME NEW q \in DOMAIN accepted', Unmixed(accepted'[q])
             PROVE  delivered'[q].garbled = 0
  BY DEF IntactInv
<1>1. CASE q \in DOMAIN accepted
  BY <1>1 DEF IntactInv, Grows
<1>2. CASE q \notin DOMAIN accepted
  <2>1. q \in Seq
    BY TrackerAssumption, TransferAssumption DEF TrackerInv, Messages
  <2>2. ~ (Copies(q) > 0) /\ delivered[q] \in [intact : 0 .. MaxCopies, garbled : 0 .. MaxCopies]
    BY <1>2, <2>1 DEF AssemblerInv
  <2> QED
    BY <2>2 DEF Copies, MaxCopies
<1> QED
  BY <1>1, <1>2

(* The network loses no more than it may.                                  *)
LEMMA LossesBounded ==
  ASSUME losses \in 0 .. MaxLosses, NEW sent, IsFiniteSet(sent), NEW lost \in SUBSET sent,
         losses + Cardinality(lost) <= MaxLosses
  PROVE  losses + Cardinality(lost) \in 0 .. MaxLosses
<1>1. Cardinality(lost) \in Nat
  BY FS_Subset, FS_CardinalityType
<1> QED
  BY <1>1, TransferAssumption

(* What is sent of the accepted messages may be under way.                 *)
LEMMA FragmentsSent ==
  ASSUME TrackerInv, NetInv, Grows, NEW frags, IsFiniteSet(frags),
         \A f \in frags : f.seq \in DOMAIN accepted' /\ f \in SentOf(f.seq)',
         TransmitFragments(frags), UNCHANGED <<ackNet, dups>>
  PROVE  NetInv'
<1>1. losses' \in 0 .. MaxLosses /\ fragNet' \subseteq fragNet \cup frags
  <2>1. CASE connected
    <3>1. PICK lost \in SUBSET frags :
            /\ losses + Cardinality(lost) <= MaxLosses
            /\ losses' = losses + Cardinality(lost)
            /\ fragNet' = fragNet \cup (frags \ lost)
      BY <2>1 DEF TransmitFragments
    <3> QED
      BY <3>1, LossesBounded DEF NetInv
  <2>2. CASE ~ connected
    BY <2>2 DEF TransmitFragments, NetInv
  <2> QED
    BY <2>1, <2>2
<1>2. ASSUME NEW f \in fragNet' PROVE f.seq \in DOMAIN accepted' /\ f \in SentOf(f.seq)'
  BY <1>1, SentOfGrows DEF NetInv, Grows
<1> QED
  BY <1>1, <1>2 DEF NetInv, Grows

(* The network is at rest, or has handed a datagram over.                  *)
LEMMA NetRests ==
  ASSUME NetInv, Grows, fragNet' \subseteq fragNet, ackNet' \subseteq ackNet,
         UNCHANGED losses, UNCHANGED dups \/ (dups < MaxDups /\ dups' = dups + 1)
  PROVE  NetInv'
<1>1. dups' \in 0 .. MaxDups
  BY TransferAssumption DEF NetInv
<1>2. ASSUME NEW f \in fragNet' PROVE f.seq \in DOMAIN accepted' /\ f \in SentOf(f.seq)'
  BY SentOfGrows DEF NetInv, Grows
<1> QED
  BY <1>1, <1>2 DEF NetInv, Grows

(* The ends enter and leave process(), and read the clock.                 *)
LEMMA ClockRead ==
  ASSUME ClockInv, NEW end \in Ends, Enter(end) \/ Leave(end),
         connected' \in BOOLEAN, sentEarly' \subseteq Messages
  PROVE  ClockInv'
BY TransferAssumption DEF ClockInv, Enter, Leave, ReadsClock

-----------------------------------------------------------------------------
(* The steps of the sender.                                                *)

(* What is kept of a new message.                                          *)
LEMMA NewSentDataSetType ==
  ASSUME NEW m \in Outgoing, NEW since \in Nat
  PROVE  /\ NewSentDataSet(m, since) \in SentDataSet
         /\ NewSentDataSet(m, since).msg = m /\ NewSentDataSet(m, since).lastAck = {}
         /\ NewSentDataSet(m, since).oldest = {} /\ ~ NewSentDataSet(m, since).done
<1> DEFINE age == IF m.expires THEN AtMost(since, Expiration + 1) ELSE 0
           sentAge == AtMost(since, ResendDelay)
<1>1. age \in Nat /\ sentAge \in 0 .. ResendDelay /\ 0 \in 0 .. CleanupDelay
  BY TrackerAssumption DEF AtMost
<1>2. NewSentDataSet(m, since) =
        [msg |-> m, age |-> age, sentAge |-> sentAge, lastAck |-> {}, ackAge |-> 0,
         oldest |-> {}, done |-> FALSE]
  BY DEF NewSentDataSet
<1> HIDE DEF age, sentAge
<1> QED
  BY <1>1, <1>2 DEF SentDataSet

(* A message is accepted, and tracked when it is a key one.                *)
LEMMA SendDataStep ==
  ASSUME TransferInv, NEW m \in Outgoing, connected \/ EarlySend,
         SendData(m, connected, sinceProcess["sender"], FirstTransmission(nextSeqId, m))
  PROVE  /\ TrackerInv' /\ Grows
         /\ \A f \in FirstTransmission(nextSeqId, m) :
              f.seq \in DOMAIN accepted' /\ f \in SentOf(f.seq)'
         /\ IsFiniteSet(FirstTransmission(nextSeqId, m))
         /\ \A q \in DOMAIN sets' :
              \/ q \in DOMAIN sets /\ sets'[q] = sets[q]
              \/ q \notin DOMAIN accepted /\ sets'[q].lastAck = {} /\ ~ sets'[q].done
<1> DEFINE new == NewSentDataSet(m, sinceProcess["sender"])
<1>1. PICK q : q = nextSeqId
  OBVIOUS
<1>2. /\ q \in 0 .. MaxMessages /\ q < MaxMessages /\ q \notin DOMAIN accepted
      /\ q \in Messages /\ Messages = Seq /\ CanFragment(WireLen(m))
  BY <1>1, TrackerAssumption, TransferAssumption
     DEF TransferInv, TrackerInv, SendData, CanSend, Messages
<1>3. /\ DOMAIN accepted' = DOMAIN accepted \cup {q}
      /\ accepted'[q] = m /\ \A r \in DOMAIN accepted : accepted'[r] = accepted[r]
      /\ nextSeqId' = q + 1 /\ UNCHANGED senderPanicked
  BY <1>1, <1>2 DEF SendData
<1>4. Grows
  BY <1>3 DEF Grows
<1>5. new \in SentDataSet /\ new.msg = m /\ new.lastAck = {} /\ new.oldest = {} /\ ~ new.done
  <2>1. sinceProcess["sender"] \in Nat
    BY TransferAssumption DEF TransferInv, ClockInv, Ends
  <2> QED
    BY <2>1, NewSentDataSetType
<1>6. \A r \in DOMAIN sets' :
        \/ r \in DOMAIN sets /\ sets'[r] = sets[r]
        \/ r = q /\ m.key /\ sets'[r] = new
  BY <1>1 DEF SendData
<1>7. /\ IsFiniteSet(FirstTransmission(q, m))
      /\ \A f \in FirstTransmission(q, m) : f.seq = q
  BY <1>2, FirstTransmissionType
<1>8. FirstTransmission(q, m) \subseteq SentOf(q)'
  BY <1>3 DEF SentOf
<1>9. TrackerInv'
  <2>1. /\ nextSeqId' \in 0 .. MaxMessages /\ senderPanicked' \in BOOLEAN
        /\ DOMAIN accepted' \subseteq 0 .. nextSeqId' - 1
    BY <1>1, <1>2, <1>3, TrackerAssumption DEF TransferInv, TrackerInv
  <2>2. \A r \in DOMAIN accepted' :
          accepted'[r] \in Outgoing /\ CanFragment(WireLen(accepted'[r]))
    BY <1>2, <1>3 DEF TransferInv, TrackerInv
  <2> HIDE DEF new
  <2>3. \A r \in DOMAIN sets' :
          /\ r \in DOMAIN accepted'
          /\ sets'[r] \in SentDataSet /\ sets'[r].msg = accepted'[r] /\ accepted'[r].key
          /\ AtMostOne(sets'[r].lastAck) /\ AtMostOne(sets'[r].oldest)
    BY <1>3, <1>5, <1>6 DEF TransferInv, TrackerInv, AtMostOne
  <2> QED
    BY <2>1, <2>2, <2>3 DEF TrackerInv
<1> QED
  BY <1>1, <1>2, <1>3, <1>4, <1>5, <1>6, <1>7, <1>8, <1>9

(* The application sends a message, or fails to.                           *)
LEMMA AppSendsStep ==
  ASSUME TransferInv, AppSends
  PROVE  TransferInv'
<1>1. UNCHANGED <<assemblerVars, ackNet, dups, inProcess, sinceProcess, connected>>
  BY DEF AppSends
<1>2. PICK m \in Outgoing :
        \/ /\ SendData(m, connected, sinceProcess["sender"], FirstTransmission(nextSeqId, m))
           /\ TransmitFragments(FirstTransmission(nextSeqId, m))
        \/ SendDataFails(m, connected) /\ UNCHANGED <<losses, fragNet>>
  BY DEF AppSends
<1>3. /\ TrackerInv' /\ Grows /\ NetInv'
      /\ \A q \in DOMAIN sets' :
           \/ q \in DOMAIN sets /\ sets'[q] = sets[q]
           \/ q \notin DOMAIN accepted /\ sets'[q].lastAck = {} /\ ~ sets'[q].done
  <2>1. CASE /\ SendData(m, connected, sinceProcess["sender"], FirstTransmission(nextSeqId, m))
             /\ TransmitFragments(FirstTransmission(nextSeqId, m))
    <3>1. /\ TrackerInv' /\ Grows
          /\ \A f \in FirstTransmission(nextSeqId, m) :
               f.seq \in DOMAIN accepted' /\ f \in SentOf(f.seq)'
          /\ IsFiniteSet(FirstTransmission(nextSeqId, m))
          /\ \A q \in DOMAIN sets' :
               \/ q \in DOMAIN sets /\ sets'[q] = sets[q]
               \/ q \notin DOMAIN accepted /\ sets'[q].lastAck = {} /\ ~ sets'[q].done
      BY <2>1, SendDataStep DEF AppSends
    <3>2. NetInv'
      BY <1>1, <2>1, <3>1, FragmentsSent DEF TransferInv
    <3> QED
      BY <3>1, <3>2
  <2>2. CASE SendDataFails(m, connected) /\ UNCHANGED <<losses, fragNet>>
    <3>1. UNCHANGED <<sets, accepted, senderPanicked>> /\ nextSeqId' = nextSeqId + 1
          /\ nextSeqId < MaxMessages
      BY <2>2 DEF SendDataFails
    <3>2. Grows
      BY <3>1 DEF Grows
    <3>3. NetInv'
      <4>1. /\ NetInv /\ fragNet' \subseteq fragNet /\ ackNet' \subseteq ackNet
            /\ UNCHANGED losses /\ UNCHANGED dups
        BY <1>1, <2>2 DEF TransferInv
      <4> QED
        BY <3>2, <4>1, NetRests
    <3>4. TrackerInv'
      BY <3>1, TrackerAssumption DEF TransferInv, TrackerInv
    <3> QED
      BY <3>1, <3>2, <3>3, <3>4
  <2> QED
    BY <1>2, <2>1, <2>2
<1>4. AssemblerInv' /\ StaysDelivered
  BY <1>1, <1>3, AssemblerRests DEF TransferInv
<1>5. ClockInv'
  <2>1. sentEarly' \subseteq Messages
    <3>1. DOMAIN accepted' \subseteq Messages
      BY <1>3, TrackerAssumption DEF TrackerInv, Messages
    <3> QED
      BY <3>1 DEF AppSends, TransferInv, ClockInv
  <2> QED
    BY <1>1, <2>1 DEF TransferInv, ClockInv
<1>6. BelievedInv'
  <2>1. /\ \A p \in ackNet : p.seq \in DOMAIN accepted /\ Tells(p.ack, p.seq)
        /\ \A q \in DOMAIN sets :
             /\ q \in DOMAIN accepted
             /\ \A a \in sets[q].lastAck : Tells(a, q)
             /\ sets[q].done /\ Believable(accepted[q]) => Copies(q) > 0
    BY BelievedSoFar DEF TransferInv
  <2>2. \A q \in DOMAIN sets' :
          \/ /\ q \in DOMAIN accepted
             /\ \A a \in sets'[q].lastAck : Tells(a, q)
             /\ sets'[q].done /\ Believable(accepted[q]) => Copies(q) > 0
          \/ sets'[q].lastAck = {} /\ ~ sets'[q].done
    BY <1>3, <2>1
  <2> QED
    BY <1>1, <1>3, <1>4, <2>1, <2>2, BelievedStep DEF TransferInv
<1>7. IntactInv'
  BY <1>1, <1>3, IntactRests DEF TransferInv, assemblerVars
<1> QED
  BY <1>3, <1>4, <1>5, <1>6, <1>7 DEF TransferInv

(* The sender does nothing to the messages, and nothing new is sent.       *)
LEMMA RestsBut ==
  ASSUME TransferInv, UNCHANGED <<assemblerVars, trackerVars>>, ClockInv',
         fragNet' \subseteq fragNet, ackNet' \subseteq ackNet,
         UNCHANGED losses, UNCHANGED dups \/ (dups < MaxDups /\ dups' = dups + 1)
  PROVE  TransferInv'
<1>1. TrackerInv' /\ Grows
  BY TrackerRests DEF TransferInv
<1>2. AssemblerInv' /\ StaysDelivered
  BY <1>1, AssemblerRests DEF TransferInv
<1>3. NetInv'
  BY <1>1, NetRests DEF TransferInv
<1>4. BelievedInv'
  <2>1. UNCHANGED sets
    BY DEF trackerVars
  <2>2. /\ \A p \in ackNet : p.seq \in DOMAIN accepted /\ Tells(p.ack, p.seq)
        /\ \A q \in DOMAIN sets :
             /\ q \in DOMAIN accepted
             /\ \A a \in sets[q].lastAck : Tells(a, q)
             /\ sets[q].done /\ Believable(accepted[q]) => Copies(q) > 0
    BY BelievedSoFar DEF TransferInv
  <2> QED
    BY <1>1, <1>2, <2>1, <2>2, BelievedStep DEF TransferInv
<1>5. IntactInv'
  BY <1>1, IntactRests DEF TransferInv, assemblerVars
<1> QED
  BY <1>1, <1>2, <1>3, <1>4, <1>5 DEF TransferInv

(* The handshake ends.                                                     *)
LEMMA SenderConnectsStep ==
  ASSUME TransferInv, SenderConnects
  PROVE  TransferInv'
<1>1. ClockInv'
  <2>1. connected' \in BOOLEAN /\ sentEarly' \subseteq Messages
    BY DEF SenderConnects, TransferInv, ClockInv
  <2> QED
    BY <2>1, ClockRead DEF SenderConnects, TransferInv, Ends
<1> QED
  BY <1>1, RestsBut DEF SenderConnects, netVars

(* What is tracked of a message, field by field.                           *)
LEMMA SentDataSetFields ==
  ASSUME NEW msg \in Outgoing, NEW age \in Nat, NEW sentAge \in 0 .. ResendDelay,
         NEW lastAck, lastAck \subseteq [bytes : Nat, bits : SUBSET Nat],
         NEW ackAge \in 0 .. CleanupDelay, NEW oldest, oldest \subseteq 0 .. ResendDelay,
         NEW done \in BOOLEAN
  PROVE  [msg |-> msg, age |-> age, sentAge |-> sentAge, lastAck |-> lastAck,
          ackAge |-> ackAge, oldest |-> oldest, done |-> done] \in SentDataSet
<1>1. lastAck \in SUBSET [bytes : Nat, bits : SUBSET Nat] /\ oldest \in SUBSET (0 .. ResendDelay)
  OBVIOUS
<1> QED
  BY <1>1, Zenon DEF SentDataSet

(* An ack is kept in place of the one before.                              *)
LEMMA ReceivedAckType ==
  ASSUME NEW q \in DOMAIN sets, sets[q] \in SentDataSet, ~ sets[q].done,
         NEW ack, ack \in [bytes : Nat, bits : SUBSET Nat], ReceiveAck(q, ack)
  PROVE  /\ sets'[q] \in SentDataSet /\ sets'[q].msg = sets[q].msg /\ ~ sets'[q].done
         /\ sets'[q].lastAck = {ack} /\ sets'[q].oldest \in {{0}, sets[q].oldest}
<1> DEFINE s == sets[q]
           last == {ack}
           oldest == IF s.oldest = {} THEN {0} ELSE s.oldest
<1>1. /\ last \subseteq [bytes : Nat, bits : SUBSET Nat]
      /\ 0 \in 0 .. ResendDelay /\ 0 \in 0 .. CleanupDelay
  BY TrackerAssumption
<1>2. oldest \subseteq 0 .. ResendDelay /\ oldest \in {{0}, s.oldest}
  BY <1>1 DEF SentDataSet
<1>3. sets'[q] = [s EXCEPT !.lastAck = last, !.ackAge = 0, !.oldest = oldest]
  BY DEF ReceiveAck
<1>4. /\ s.msg \in Outgoing /\ s.age \in Nat /\ s.sentAge \in 0 .. ResendDelay
      /\ s.done \in BOOLEAN
  BY DEF SentDataSet
<1>5. s \in SentDataSet
  OBVIOUS
<1> HIDE DEF s, last, oldest
<1>6. sets'[q] = [msg |-> s.msg, age |-> s.age, sentAge |-> s.sentAge, lastAck |-> last,
                  ackAge |-> 0, oldest |-> oldest, done |-> s.done]
  BY <1>3, <1>5 DEF SentDataSet
<1>7. sets'[q] \in SentDataSet
  <2>1. [msg |-> s.msg, age |-> s.age, sentAge |-> s.sentAge, lastAck |-> last,
         ackAge |-> 0, oldest |-> oldest, done |-> s.done] \in SentDataSet
    BY <1>1, <1>2, <1>4, SentDataSetFields, Zenon
  <2> QED
    BY <1>6, <2>1, Zenon
<1> QED
  BY <1>2, <1>6, <1>7 DEF last, s

(* An ack arrives: it tells the truth, and is the last one from now on.    *)
LEMMA SenderReceivesAckStep ==
  ASSUME TransferInv, SenderReceivesAck
  PROVE  TransferInv'
<1>1. PICK p \in ackNet : ReceiveAck(p.seq, p.ack) /\ Take(p, ackNet, ackNet')
  BY DEF SenderReceivesAck
<1> DEFINE q == p.seq
<1>2. /\ UNCHANGED <<nextSeqId, accepted, senderPanicked>>
      /\ UNCHANGED <<assemblerVars, fragNet, losses, connected, sentEarly>>
  BY <1>1 DEF ReceiveAck, SenderReceivesAck
<1>3. p.ack \in [bytes : Nat, bits : SUBSET Nat] /\ q \in DOMAIN accepted /\ Tells(p.ack, q)
  BY DEF TransferInv, NetInv, BelievedInv, AckPacket
<1>4. /\ DOMAIN sets' = DOMAIN sets
      /\ \A r \in DOMAIN sets :
           \/ sets'[r] = sets[r]
           \/ /\ r = q
              /\ sets'[r] \in SentDataSet /\ sets'[r].msg = sets[r].msg /\ ~ sets'[r].done
              /\ sets'[r].lastAck = {p.ack} /\ sets'[r].oldest \in {{0}, sets[r].oldest}
  <2>1. /\ DOMAIN sets' = DOMAIN sets
        /\ \A r \in DOMAIN sets : sets'[r] = sets[r] \/ (r = q /\ ~ sets[r].done)
    BY <1>1 DEF ReceiveAck
  <2>2. ASSUME q \in DOMAIN sets, ~ sets[q].done
        PROVE  /\ sets'[q] \in SentDataSet /\ sets'[q].msg = sets[q].msg /\ ~ sets'[q].done
               /\ sets'[q].lastAck = {p.ack} /\ sets'[q].oldest \in {{0}, sets[q].oldest}
    <3>1. sets[q] \in SentDataSet
      BY <2>2 DEF TransferInv, TrackerInv
    <3> QED
      BY <1>1, <1>3, <2>2, <3>1, ReceivedAckType
  <2> QED
    BY <2>1, <2>2
<1>5. Grows
  BY <1>2 DEF Grows
<1>6. TrackerInv'
  <2>1. \A r \in DOMAIN sets' :
          /\ sets'[r] \in SentDataSet /\ sets'[r].msg = accepted[r] /\ accepted[r].key
          /\ AtMostOne(sets'[r].lastAck) /\ AtMostOne(sets'[r].oldest)
    BY <1>4 DEF TransferInv, TrackerInv, AtMostOne
  <2> QED
    BY <1>2, <1>4, <2>1 DEF TransferInv, TrackerInv
<1>7. AssemblerInv' /\ StaysDelivered
  BY <1>2, <1>5, AssemblerRests DEF TransferInv
<1>8. ackNet' \subseteq ackNet
  BY <1>1 DEF Take
<1>9. NetInv'
  <2>1. UNCHANGED dups \/ (dups < MaxDups /\ dups' = dups + 1)
    BY <1>1 DEF Take
  <2> QED
    BY <1>2, <1>5, <1>8, <2>1, NetRests DEF TransferInv
<1>10. ClockInv'
  <2>1. connected' \in BOOLEAN /\ sentEarly' \subseteq Messages
    BY <1>2 DEF TransferInv, ClockInv
  <2> QED
    BY <2>1, ClockRead DEF SenderReceivesAck, TransferInv, Ends
<1>11. BelievedInv'
  <2>1. /\ \A r \in ackNet : r.seq \in DOMAIN accepted /\ Tells(r.ack, r.seq)
        /\ \A r \in DOMAIN sets :
             /\ r \in DOMAIN accepted
             /\ \A a \in sets[r].lastAck : Tells(a, r)
             /\ sets[r].done /\ Believable(accepted[r]) => Copies(r) > 0
    BY BelievedSoFar DEF TransferInv
  <2>2. \A r \in DOMAIN sets' :
          /\ r \in DOMAIN accepted
          /\ \A a \in sets'[r].lastAck : Tells(a, r)
          /\ sets'[r].done /\ Believable(accepted[r]) => Copies(r) > 0
    BY <1>3, <1>4, <2>1
  <2> QED
    BY <1>5, <1>7, <1>8, <2>1, <2>2, BelievedStep DEF TransferInv
<1>12. IntactInv'
  BY <1>2, <1>5, <1>6, IntactRests DEF TransferInv, assemblerVars
<1> QED
  BY <1>6, <1>7, <1>9, <1>10, <1>11, <1>12 DEF TransferInv

(* What is missing is sent again, and what is not is received.             *)
LEMMA AfterResendType ==
  ASSUME NEW s \in SentDataSet
  PROVE  /\ AfterResend(s) \in SentDataSet /\ AfterResend(s).msg = s.msg
         /\ AfterResend(s).lastAck = s.lastAck /\ AfterResend(s).oldest = {}
         /\ AfterResend(s).done <=> MissingIds(s) = {}
<1> DEFINE none == {}
           done == (MissingIds(s) = {})
<1>1. AfterResend(s) = [s EXCEPT !.sentAge = 0, !.oldest = none, !.done = done]
  BY DEF AfterResend
<1>2. /\ none \subseteq 0 .. ResendDelay /\ 0 \in 0 .. ResendDelay /\ done \in BOOLEAN
      /\ none = {} /\ (done <=> MissingIds(s) = {})
  BY TrackerAssumption
<1>3. /\ s.msg \in Outgoing /\ s.age \in Nat /\ s.ackAge \in 0 .. CleanupDelay
      /\ s.lastAck \subseteq [bytes : Nat, bits : SUBSET Nat]
  BY DEF SentDataSet
<1> HIDE DEF none, done
<1>4. AfterResend(s) =
        [msg |-> s.msg, age |-> s.age, sentAge |-> 0, lastAck |-> s.lastAck,
         ackAge |-> s.ackAge, oldest |-> none, done |-> done]
  BY <1>1 DEF SentDataSet
<1>5. [msg |-> s.msg, age |-> s.age, sentAge |-> 0, lastAck |-> s.lastAck,
       ackAge |-> s.ackAge, oldest |-> none, done |-> done] \in SentDataSet
  BY <1>2, <1>3, SentDataSetFields, Zenon
<1>6. AfterResend(s) \in SentDataSet
  BY <1>4, <1>5, Zenon
<1> QED
  BY <1>2, <1>4, <1>6

(* A set with nothing to send again has an ack that says so.               *)
LEMMA NothingToResend ==
  ASSUME NEW s \in SentDataSet, CanFragment(s.msg.len), MissingIds(s) = {}
  PROVE  \E a \in s.lastAck : MissingIter(a, FragTotal(s.msg.len)) = {}
<1>1. FragTotal(s.msg.len) \in Nat
  BY FragTotalType
<1>2. s.lastAck # {}
  BY <1>1 DEF MissingIds
<1> QED
  BY <1>2 DEF MissingIds

(* What is sent again belongs to messages that may be sent so.             *)
LEMMA ResentAreSent ==
  ASSUME TransferInv, NEW some \in SUBSET (ResentSeqs \ Unsendable)
  PROVE  LET frags == UNION {ResentFragments(q) : q \in some}
         IN  /\ IsFiniteSet(frags)
             /\ \A f \in frags : f.seq \in DOMAIN accepted /\ f \in SentOf(f.seq)
<1>1. \A q \in some :
        /\ q \in DOMAIN sets /\ q \in DOMAIN accepted /\ q \in Seq
        /\ sets[q] \in SentDataSet /\ sets[q].msg = accepted[q]
        /\ accepted[q] \in Outgoing /\ Resendable(accepted[q])
  BY AcceptedIds DEF ResentSeqs, Unsendable, TransferInv, TrackerInv, Resendable
<1>2. ASSUME NEW q \in some
      PROVE  /\ IsFiniteSet(ResentFragments(q))
             /\ \A f \in ResentFragments(q) : f.seq = q /\ f \in SentOf(q)
  <2>1. /\ IsFiniteSet(Retransmission(q, sets[q]))
        /\ \A f \in Retransmission(q, sets[q]) : f.seq = q
    <3> DEFINE s == sets[q]
    <3>1. s.msg \in Outgoing /\ CanFragment(s.msg.len)
      BY <1>1 DEF Resendable
    <3> HIDE DEF s
    <3>2. IsFiniteSet(Retransmission(q, s)) /\ \A f \in Retransmission(q, s) : f.seq = q
      BY <1>1, <3>1, RetransmissionType
    <3> QED
      BY <3>2 DEF s
  <2>2. ResentFragments(q) \subseteq Retransmission(q, sets[q])
    BY DEF ResentFragments
  <2>3. IsFiniteSet(ResentFragments(q))
    BY <2>1, <2>2, FS_Subset
  <2>4. Retransmission(q, sets[q]) \subseteq SentOf(q)
    BY <1>1 DEF Retransmission, SentOf
  <2> QED
    BY <2>1, <2>2, <2>3, <2>4
<1>3. IsFiniteSet({ResentFragments(q) : q \in some})
  <2> DEFINE resent == [q \in some |-> ResentFragments(q)]
  <2>1. resent \in Surjection(some, {ResentFragments(q) : q \in some})
    BY DEF Surjection
  <2>2. IsFiniteSet(some)
    <3>1. some \subseteq Messages /\ IsFiniteSet(Messages)
      BY <1>1, AcceptedIds DEF TransferInv
    <3> QED
      BY <3>1, FS_Subset
  <2> QED
    BY <2>1, <2>2, FS_Surjection
<1>4. IsFiniteSet(UNION {ResentFragments(q) : q \in some})
  BY <1>2, <1>3, FS_UNION
<1> QED
  BY <1>1, <1>2, <1>4

(* Some sets are forgotten, and of some others what is missing is sent     *)
(* again.                                                                  *)
LEMMA SomeAreSentAgain ==
  ASSUME TransferInv, NEW some \in SUBSET (ResentSeqs \ Unsendable), NEW frags,
         frags = UNION {ResentFragments(q) : q \in some},
         TransmitFragments(frags), Leave("sender"), senderPanicked' \in BOOLEAN,
         UNCHANGED <<nextSeqId, accepted>>,
         UNCHANGED <<assemblerVars, ackNet, dups, connected, sentEarly>>,
         DOMAIN sets' \subseteq DOMAIN sets,
         \A q \in DOMAIN sets' :
           \/ sets'[q] = sets[q]
           \/ q \in some /\ sets'[q] = AfterResend(sets[q])
  PROVE  TransferInv'
<1>1. Grows
  BY DEF Grows
<1>2. ASSUME NEW q \in DOMAIN sets'
      PROVE  /\ q \in DOMAIN sets /\ sets'[q] \in SentDataSet /\ sets'[q].msg = sets[q].msg
             /\ sets'[q].lastAck = sets[q].lastAck
             /\ sets'[q].oldest \in {{}, sets[q].oldest}
             /\ \/ sets'[q].done = sets[q].done
                \/ q \in some /\ (sets'[q].done <=> MissingIds(sets[q]) = {})
  <2>1. q \in DOMAIN sets /\ sets[q] \in SentDataSet
    BY DEF TransferInv, TrackerInv
  <2>2. CASE sets'[q] = sets[q]
    BY <2>1, <2>2
  <2>3. CASE q \in some /\ sets'[q] = AfterResend(sets[q])
    BY <2>1, <2>3, AfterResendType
  <2> QED
    BY <2>2, <2>3
<1>3. TrackerInv'
  <2>1. \A q \in DOMAIN sets' :
          /\ q \in DOMAIN accepted
          /\ sets'[q] \in SentDataSet /\ sets'[q].msg = accepted[q] /\ accepted[q].key
          /\ AtMostOne(sets'[q].lastAck) /\ AtMostOne(sets'[q].oldest)
    BY <1>2 DEF TransferInv, TrackerInv, AtMostOne
  <2> QED
    BY <2>1 DEF TransferInv, TrackerInv
<1>4. AssemblerInv' /\ StaysDelivered
  BY <1>1, AssemblerRests DEF TransferInv
<1>5. NetInv'
  <2>1. /\ IsFiniteSet(frags)
        /\ \A f \in frags : f.seq \in DOMAIN accepted /\ f \in SentOf(f.seq)
    BY ResentAreSent
  <2>2. \A f \in frags : f.seq \in DOMAIN accepted' /\ f \in SentOf(f.seq)'
    BY <1>1, <2>1, SentOfGrows DEF Grows
  <2> QED
    BY <1>1, <2>1, <2>2, FragmentsSent DEF TransferInv
<1>6. ClockInv'
  <2>1. connected' \in BOOLEAN /\ sentEarly' \subseteq Messages
    BY DEF TransferInv, ClockInv
  <2> QED
    BY <2>1, ClockRead DEF TransferInv, Ends
<1>7. BelievedInv'
  <2>1. /\ \A r \in ackNet : r.seq \in DOMAIN accepted /\ Tells(r.ack, r.seq)
        /\ \A r \in DOMAIN sets :
             /\ r \in DOMAIN accepted
             /\ \A a \in sets[r].lastAck : Tells(a, r)
             /\ sets[r].done /\ Believable(accepted[r]) => Copies(r) > 0
    BY BelievedSoFar DEF TransferInv
  <2>2. ASSUME NEW q \in some, MissingIds(sets[q]) = {}, Believable(accepted[q])
        PROVE  Copies(q) > 0
    <3>1. /\ q \in DOMAIN sets /\ sets[q] \in SentDataSet /\ sets[q].msg = accepted[q]
          /\ accepted[q].key /\ CanFragment(sets[q].msg.len)
      BY DEF ResentSeqs, Unsendable, TransferInv, TrackerInv
    <3>2. PICK a \in sets[q].lastAck : MissingIter(a, FragTotal(sets[q].msg.len)) = {}
      BY <2>2, <3>1, NothingToResend
    <3> QED
      BY <2>1, <2>2, <3>1, <3>2 DEF Tells, Resendable
  <2>3. \A q \in DOMAIN sets' :
          /\ q \in DOMAIN accepted
          /\ \A a \in sets'[q].lastAck : Tells(a, q)
          /\ sets'[q].done /\ Believable(accepted[q]) => Copies(q) > 0
    BY <1>2, <2>1, <2>2
  <2> QED
    BY <1>1, <1>4, <2>1, <2>3, BelievedStep DEF TransferInv
<1>8. IntactInv'
  BY <1>1, <1>3, IntactRests DEF TransferInv, assemblerVars
<1> QED
  BY <1>3, <1>4, <1>5, <1>6, <1>7, <1>8 DEF TransferInv

(* What is expired or done is forgotten, what is missing sent again.       *)
LEMMA SenderTicksStep ==
  ASSUME TransferInv, SenderTicks
  PROVE  TransferInv'
<1> DEFINE resent == UNION {ResentFragments(q) : q \in ResentSeqs}
<1>1. PICK frags : frags = resent
  OBVIOUS
<1>2. /\ TrackerTick(frags) /\ TransmitFragments(frags) /\ Leave("sender")
      /\ UNCHANGED <<assemblerVars, ackNet, dups, connected, sentEarly>>
  BY <1>1 DEF SenderTicks
<1>3. Unsendable = {} /\ UNCHANGED <<nextSeqId, accepted, senderPanicked>>
  BY <1>2 DEF TrackerTick
<1>4. /\ DOMAIN sets' \subseteq DOMAIN sets
      /\ \A q \in DOMAIN sets' :
           \/ sets'[q] = sets[q]
           \/ q \in ResentSeqs /\ sets'[q] = AfterResend(sets[q])
  BY <1>2 DEF TrackerTick
<1>5. senderPanicked' \in BOOLEAN
  BY <1>3 DEF TransferInv, TrackerInv
<1> QED
  BY <1>1, <1>2, <1>3, <1>4, <1>5, SomeAreSentAgain

(* The sender panics: nothing is forgotten, some of it sent again.         *)
LEMMA SenderPanicsStep ==
  ASSUME TransferInv, SenderPanics
  PROVE  TransferInv'
<1>1. PICK before \in SUBSET ResentSeqs :
        LET frags == UNION {ResentFragments(q) : q \in before}
        IN  TrackerPanic(before, frags) /\ TransmitFragments(frags)
  BY DEF SenderPanics
<1> DEFINE resent == UNION {ResentFragments(q) : q \in before}
<1>2. PICK frags : frags = resent
  OBVIOUS
<1>3. TrackerPanic(before, frags) /\ TransmitFragments(frags)
  BY <1>1, <1>2
<1>4. Leave("sender") /\ UNCHANGED <<assemblerVars, ackNet, dups, connected, sentEarly>>
  BY DEF SenderPanics
<1>5. /\ before \in SUBSET (ResentSeqs \ Unsendable)
      /\ UNCHANGED <<nextSeqId, accepted>> /\ senderPanicked' \in BOOLEAN
  BY <1>3 DEF TrackerPanic
<1>6. /\ DOMAIN sets' \subseteq DOMAIN sets
      /\ \A q \in DOMAIN sets' :
           \/ sets'[q] = sets[q]
           \/ q \in before /\ sets'[q] = AfterResend(sets[q])
  BY <1>3 DEF TrackerPanic
<1> QED
  BY <1>2, <1>3, <1>4, <1>5, <1>6, SomeAreSentAgain

-----------------------------------------------------------------------------
(* The steps of the receiver.                                              *)

(* The set of a fragment that was under way, once the fragment is in it.   *)
LEMMA SetWithFragment ==
  ASSUME TransferInv, NEW f \in fragNet, ~ KnownSet(f).complete
  PROVE  LET s == WithFragment(KnownSet(f), f) IN
         /\ f.seq \in DOMAIN accepted /\ f.seq \in Seq /\ f.total \in Nat
         /\ s \in AssemblySet /\ ~ s.complete
         /\ s.frags \subseteq SentOf(f.seq) /\ IsFiniteSet(s.frags) /\ f \in s.frags
         /\ \A g \in s.frags : g = f \/ g.id # f.id
<1> DEFINE k == KnownSet(f)
<1>1. f.seq \in DOMAIN accepted /\ f.seq \in Seq /\ f \in SentOf(f.seq) /\ f \in Fragment
  BY SentOfType DEF TransferInv, NetInv
<1>2. k \in AssemblySet /\ k.frags \subseteq SentOf(f.seq) /\ IsFiniteSet(k.frags)
  <2>1. CASE f.seq \in DOMAIN pending
    BY <2>1 DEF KnownSet, TransferInv, AssemblerInv, Partial
  <2>2. CASE f.seq \notin DOMAIN pending
    BY <1>1, <2>2, NewSetType, FS_EmptySet DEF KnownSet
  <2> QED
    BY <2>1, <2>2
<1>3. ~ k.complete
  OBVIOUS
<1> HIDE DEF k
<1>4. /\ WithFragment(k, f) \in AssemblySet
      /\ WithFragment(k, f).complete = k.complete
      /\ WithFragment(k, f).frags = {g \in k.frags : g.id # f.id} \cup {f}
      /\ IsFiniteSet(WithFragment(k, f).frags)
  BY <1>1, <1>2, WithFragmentType
<1>5. f.total \in Nat
  BY <1>1 DEF Fragment
<1> QED
  BY <1>1, <1>2, <1>3, <1>4, <1>5 DEF k

(* A message that is not mixed is delivered as it was sent.                *)
LEMMA DeliveredIntact ==
  ASSUME TransferInv, NEW q \in DOMAIN accepted, Unmixed(accepted[q]),
         NEW s, s.frags \subseteq SentOf(q), NEW f \in s.frags,
         \A g \in s.frags : g = f \/ g.id # f.id
  PROVE  ~ IsMixed(s)
<1> DEFINE m == accepted[q]
           first == FragTotal(WireLen(m))
<1>1. /\ m \in Outgoing /\ first \in Nat
      /\ \A g \in s.frags :
           /\ g \in Fragment /\ g.id \in 0 .. g.total
           /\ OneTotal(m) => g.total = first
           /\ g.enc => m.encryption
           /\ ~ m.key => g.enc = m.encryption
  BY SentOfType DEF TransferInv
<1>2. CASE ~ m.key
  BY <1>1, <1>2 DEF IsMixed
<1>3. CASE ~ m.encryption
  BY <1>1, <1>3 DEF IsMixed, Fragment
<1>4. CASE m.key /\ m.encryption
  <2>1. first = 0 /\ OneTotal(m)
    BY <1>4 DEF Unmixed
  <2> HIDE DEF m, first
  <2>2. \A g \in s.frags : g = f
    BY <1>1, <2>1
  <2> QED
    BY <2>2 DEF IsMixed
<1> QED
  BY <1>1, <1>2, <1>3, <1>4, MessageType

(* The message of a full set is delivered.                                 *)
LEMMA DeliverStep ==
  ASSUME TransferInv, NEW q \in DOMAIN accepted, q \in Seq, NEW s, Deliver(q, s),
         Unmixed(accepted[q]) => ~ IsMixed(s)
  PROVE  /\ delivered' \in [Seq -> [intact : 0 .. MaxCopies, garbled : 0 .. MaxCopies]]
         /\ Copies(q)' > 0 /\ StaysDelivered
         /\ \A r \in Seq \ {q} : delivered'[r] = delivered[r]
         /\ Unmixed(accepted[q]) => delivered'[q].garbled = 0
<1>1. \A n \in 0 .. MaxCopies : OneMore(n) \in 0 .. MaxCopies /\ OneMore(n) > 0
  BY DEF OneMore, MaxCopies
<1>2. \/ delivered' = [delivered EXCEPT ![q].garbled = OneMore(@)] /\ IsMixed(s)
      \/ delivered' = [delivered EXCEPT ![q].intact = OneMore(@)]
  BY DEF Deliver
<1>3. delivered \in [Seq -> [intact : 0 .. MaxCopies, garbled : 0 .. MaxCopies]]
  BY DEF TransferInv, AssemblerInv
<1>4. /\ delivered' \in [Seq -> [intact : 0 .. MaxCopies, garbled : 0 .. MaxCopies]]
      /\ \A r \in Seq \ {q} : delivered'[r] = delivered[r]
  BY <1>1, <1>2, <1>3
<1>5. Copies(q)' > 0
  BY <1>1, <1>2, <1>3 DEF Copies, MaxCopies
<1>6. StaysDelivered
  BY <1>4, <1>5 DEF StaysDelivered, Copies
<1>7. ASSUME Unmixed(accepted[q]) PROVE delivered'[q].garbled = 0
  <2>1. delivered[q].garbled = 0
    BY <1>7 DEF TransferInv, IntactInv
  <2> QED
    BY <1>2, <1>3, <1>7, <2>1
<1> QED
  BY <1>4, <1>5, <1>6, <1>7

(* A fragment is added to its set, whose message may be delivered.         *)
LEMMA PushStep ==
  ASSUME TransferInv, NEW f \in fragNet, Push(f, TRUE), UNCHANGED accepted
  PROVE  AssemblerInv' /\ StaysDelivered /\ IntactInv'
<1> DEFINE k == KnownSet(f)
           s == WithFragment(KnownSet(f), f)
           q == f.seq
<1>1. /\ DOMAIN pending \subseteq DOMAIN accepted /\ DOMAIN accepted \subseteq Seq
      /\ Grows /\ q \in DOMAIN accepted /\ q \in Seq
  BY AcceptedIds DEF TransferInv, AssemblerInv, Grows, NetInv
<1>2. CASE PushComplete(f)
  <2>1. UNCHANGED assemblerVars
    BY <1>2 DEF PushComplete
  <2>2. AssemblerInv' /\ StaysDelivered
    BY <1>1, <2>1, AssemblerRests DEF TransferInv
  <2>3. IntactInv'
    BY <2>1 DEF TransferInv, IntactInv, assemblerVars
  <2> QED
    BY <2>2, <2>3
<1>3. CASE ~ k.complete /\ PushIncomplete(f)
  <2>1. /\ f.total \in Nat /\ s \in AssemblySet /\ ~ s.complete
        /\ s.frags \subseteq SentOf(q) /\ IsFiniteSet(s.frags) /\ f \in s.frags
    BY <1>3, SetWithFragment
  <2>2. pending' = Put(q, s) /\ UNCHANGED <<delivered, receiverPanicked>>
    BY <1>3 DEF PushIncomplete
  <2>3. Partial(s, q)
    <3>1. ~ (Cardinality(s.frags) > f.total)
      BY <1>3 DEF PushIncomplete, IsFull
    <3> QED
      BY <2>1, <3>1, FS_CardinalityType DEF Partial
  <2> HIDE DEF s, q
  <2>4. DOMAIN pending' = DOMAIN pending \cup {q}
        /\ \A r \in DOMAIN pending' : pending'[r] = IF r = q THEN s ELSE pending[r]
    BY <2>2 DEF Put
  <2>5. \A r \in Seq : Copies(r)' = Copies(r)
    BY <2>2 DEF Copies
  <2>6. \A r \in DOMAIN pending' :
          /\ pending'[r] \in AssemblySet
          /\ IF pending'[r].complete THEN Copies(r)' > 0 ELSE Partial(pending'[r], r)
    BY <1>1, <2>1, <2>3, <2>4, <2>5 DEF TransferInv, AssemblerInv
  <2>7. AssemblerInv'
    <3>1. \A r \in DOMAIN pending' :
            IF pending'[r].complete THEN Copies(r)' > 0 ELSE Partial(pending[r], r)'
      BY <1>1, <2>4, <2>6 DEF Partial, SentOf
    <3> QED
      BY <1>1, <2>2, <2>4, <2>5, <2>6, <3>1 DEF TransferInv, AssemblerInv
  <2>8. StaysDelivered /\ IntactInv'
    BY <2>2, <2>5 DEF StaysDelivered, TransferInv, IntactInv
  <2> QED
    BY <2>7, <2>8
<1>4. CASE ~ k.complete /\ PushFull(f, TRUE) /\ pending' = Drop({q}) /\ UNCHANGED delivered
  <2>1. DOMAIN pending' \subseteq DOMAIN pending
        /\ \A r \in DOMAIN pending' : pending'[r] = pending[r]
    BY <1>4 DEF Drop
  <2>2. UNCHANGED receiverPanicked /\ \A r \in Seq : Copies(r)' = Copies(r)
    BY <1>4 DEF PushFull, Copies
  <2>3. \A r \in DOMAIN pending' :
          IF pending'[r].complete THEN Copies(r)' > 0 ELSE Partial(pending[r], r)'
    BY <1>1, <2>1, <2>2 DEF TransferInv, AssemblerInv, Partial, SentOf
  <2> QED
    BY <1>1, <1>4, <2>1, <2>2, <2>3
       DEF StaysDelivered, TransferInv, AssemblerInv, IntactInv
<1>5. CASE /\ ~ k.complete /\ PushFull(f, TRUE)
           /\ pending' = Put(q, Completed(s)) /\ Deliver(q, s)
  <2>1. /\ s \in AssemblySet /\ s.frags \subseteq SentOf(q) /\ IsFiniteSet(s.frags)
        /\ f \in s.frags /\ \A g \in s.frags : g = f \/ g.id # f.id
    BY <1>5, SetWithFragment
  <2>2. UNCHANGED receiverPanicked
    BY <1>5 DEF PushFull
  <2>3. Completed(s) \in AssemblySet /\ Completed(s).complete
    BY <2>1, CompletedType
  <2> HIDE DEF s, q
  <2>4. Unmixed(accepted[q]) => ~ IsMixed(s)
    BY <1>1, <2>1, DeliveredIntact
  <2>5. /\ delivered' \in [Seq -> [intact : 0 .. MaxCopies, garbled : 0 .. MaxCopies]]
        /\ Copies(q)' > 0 /\ StaysDelivered
        /\ \A r \in Seq \ {q} : delivered'[r] = delivered[r]
        /\ Unmixed(accepted[q]) => delivered'[q].garbled = 0
    BY <1>1, <1>5, <2>4, DeliverStep
  <2>6. DOMAIN pending' = DOMAIN pending \cup {q}
        /\ \A r \in DOMAIN pending' : pending'[r] = IF r = q THEN Completed(s) ELSE pending[r]
    BY <1>5 DEF Put
  <2>7. \A r \in DOMAIN pending' :
          IF pending'[r].complete THEN Copies(r)' > 0 ELSE Partial(pending[r], r)'
    BY <1>1, <2>3, <2>5, <2>6 DEF TransferInv, AssemblerInv, StaysDelivered, Partial, SentOf
  <2>8. \A r \in Seq : Copies(r)' > 0 => r \in DOMAIN accepted
    BY <1>1, <2>5 DEF TransferInv, AssemblerInv, Copies
  <2>9. AssemblerInv'
    BY <1>1, <2>2, <2>3, <2>5, <2>6, <2>7, <2>8 DEF TransferInv, AssemblerInv
  <2>10. IntactInv'
    BY <1>1, <2>5 DEF TransferInv, IntactInv
  <2> QED
    BY <2>5, <2>9, <2>10
<1> QED
  BY <1>2, <1>3, <1>4, <1>5 DEF Push, PushIncomplete, PushFull

(* A fragment arrives.                                                     *)
LEMMA ReceiverReceivesFragmentStep ==
  ASSUME TransferInv, ReceiverReceivesFragment
  PROVE  TransferInv'
<1>1. PICK f \in fragNet : Push(f, TRUE) /\ Take(f, fragNet, fragNet')
  BY DEF ReceiverReceivesFragment
<1>2. Enter("receiver") /\ UNCHANGED <<trackerVars, ackNet, losses, connected, sentEarly>>
  BY DEF ReceiverReceivesFragment
<1>3. TrackerInv' /\ Grows
  BY <1>2, TrackerRests DEF TransferInv
<1>4. UNCHANGED accepted /\ UNCHANGED sets
  BY <1>2 DEF trackerVars
<1>5. AssemblerInv' /\ StaysDelivered /\ IntactInv'
  BY <1>1, <1>4, PushStep
<1>6. NetInv'
  <2>1. fragNet' \subseteq fragNet /\ (UNCHANGED dups \/ (dups < MaxDups /\ dups' = dups + 1))
    BY <1>1 DEF Take
  <2> QED
    BY <1>2, <1>3, <2>1, NetRests DEF TransferInv
<1>7. ClockInv'
  <2>1. connected' \in BOOLEAN /\ sentEarly' \subseteq Messages
    BY <1>2 DEF TransferInv, ClockInv
  <2> QED
    BY <1>2, <2>1, ClockRead DEF TransferInv, Ends
<1>8. BelievedInv'
  <2>1. /\ \A r \in ackNet : r.seq \in DOMAIN accepted /\ Tells(r.ack, r.seq)
        /\ \A r \in DOMAIN sets :
             /\ r \in DOMAIN accepted
             /\ \A a \in sets[r].lastAck : Tells(a, r)
             /\ sets[r].done /\ Believable(accepted[r]) => Copies(r) > 0
    BY BelievedSoFar DEF TransferInv
  <2> QED
    BY <1>2, <1>3, <1>4, <1>5, <2>1, BelievedStep DEF TransferInv
<1> QED
  BY <1>3, <1>5, <1>6, <1>7, <1>8 DEF TransferInv

(* The acks that are due tell the truth.                                   *)
LEMMA DueAcksTell ==
  ASSUME TransferInv, NEW q \in DueSeqs
  PROVE  /\ q \in DOMAIN accepted /\ IsFiniteSet(AckPackets(q))
         /\ \A p \in AckPackets(q) : p.seq = q /\ p \in AckPacket /\ Tells(p.ack, q)
<1> DEFINE s == pending[q]
           m == accepted[q]
<1>1. /\ q \in DOMAIN pending /\ q \in DOMAIN accepted /\ q \in Seq /\ s \in AssemblySet
      /\ s.complete => Copies(q) > 0
      /\ ~ s.complete => Partial(s, q)
  BY AcceptedIds DEF DueSeqs, TransferInv, AssemblerInv
<1>2. IsFiniteSet(GenerateAck(s)) /\ GenerateAck(s) \subseteq [bytes : Nat, bits : SUBSET Nat]
  BY <1>1, GenerateAckType DEF Partial
<1>3. IsFiniteSet(AckPackets(q))
  <2> DEFINE packet == [a \in GenerateAck(s) |-> [seq |-> q, ack |-> a]]
  <2>1. packet \in Surjection(GenerateAck(s), AckPackets(q))
    BY DEF Surjection, AckPackets
  <2> QED
    BY <1>2, <2>1, FS_Surjection
<1>4. \A p \in AckPackets(q) : p.seq = q /\ p.ack \in GenerateAck(s) /\ p \in AckPacket
  BY <1>1, <1>2 DEF AckPackets, AckPacket
<1>5. ASSUME NEW a \in GenerateAck(s), ~ s.complete, Resendable(m), Believable(m)
      PROVE  MissingIter(a, FragTotal(m.len)) # {}
  <2>1. PICK f \in s.frags : a = AckFrom(s, f)
    BY <1>5 DEF GenerateAck
  <2>2. /\ FragTotal(m.len) \in Nat /\ HasBitForLast(FragTotal(m.len))
        /\ \A g \in SentOf(q) : g.total = FragTotal(m.len)
    BY <1>1, <1>5, SentOfType DEF TransferInv, Believable, OneTotal
  <2>3. /\ IsFiniteSet(s.frags) /\ f.total = FragTotal(m.len)
        /\ Cardinality(s.frags) <= f.total
    BY <1>1, <1>5, <2>2 DEF Partial
  <2> HIDE DEF s, m
  <2> QED
    BY <2>1, <2>2, <2>3, ReportsSomething
<1>6. \A a \in GenerateAck(s) : Tells(a, q)
  BY <1>1, <1>5 DEF Tells
<1> QED
  BY <1>1, <1>3, <1>4, <1>6

(* Stale sets are forgotten, and the acks that are due are sent.           *)
LEMMA ReceiverTicksStep ==
  ASSUME TransferInv, ReceiverTicks
  PROVE  TransferInv'
<1>1. PICK acks \in SUBSET UNION {AckPackets(q) : q \in DueSeqs} :
        AssemblerTick(acks) /\ TransmitAcks(acks)
  BY DEF ReceiverTicks
<1>2. /\ Leave("receiver")
      /\ UNCHANGED <<trackerVars, fragNet, dups, connected, sentEarly>>
      /\ UNCHANGED <<delivered, receiverPanicked>>
  BY <1>1 DEF ReceiverTicks, AssemblerTick
<1>3. TrackerInv' /\ Grows
  BY <1>2, TrackerRests DEF TransferInv
<1>4. \A r \in Seq : Copies(r)' = Copies(r)
  BY <1>2 DEF Copies
<1>5. StaysDelivered
  BY <1>4 DEF StaysDelivered
<1>6. AssemblerInv'
  <2>1. DOMAIN pending \subseteq DOMAIN accepted /\ DOMAIN accepted \subseteq Seq
    BY AcceptedIds DEF TransferInv, AssemblerInv
  <2>2. DOMAIN pending' \subseteq DOMAIN pending
        /\ \A r \in DOMAIN pending' :
             \/ pending'[r] = pending[r]
             \/ r \in DueSeqs /\ pending'[r] = WithAckSent(pending[r])
    BY <1>1 DEF AssemblerTick
  <2>3. \A r \in DOMAIN pending' :
          /\ pending'[r] \in AssemblySet
          /\ pending'[r].complete = pending[r].complete
          /\ pending'[r].frags = pending[r].frags
    BY <2>2, WithAckSentType DEF DueSeqs, AckDue, TransferInv, AssemblerInv
  <2>4. UNCHANGED accepted
    BY <1>2 DEF trackerVars
  <2>5. \A r \in DOMAIN pending' :
          IF pending'[r].complete THEN Copies(r)' > 0 ELSE Partial(pending[r], r)'
    BY <1>4, <2>1, <2>2, <2>3, <2>4 DEF TransferInv, AssemblerInv, Partial, SentOf
  <2> QED
    BY <1>2, <1>4, <2>1, <2>2, <2>3, <2>4, <2>5 DEF TransferInv, AssemblerInv
<1>7. PICK lost \in SUBSET acks :
        /\ losses + Cardinality(lost) <= MaxLosses
        /\ losses' = losses + Cardinality(lost)
        /\ ackNet' = ackNet \cup (acks \ lost)
  BY <1>1 DEF TransmitAcks
<1>8. \A p \in acks : p.seq \in DOMAIN accepted /\ p \in AckPacket /\ Tells(p.ack, p.seq)
  BY DueAcksTell
<1>9. NetInv'
  <2>1. IsFiniteSet(acks)
    <3>1. IsFiniteSet(DueSeqs)
      <4>1. DueSeqs \subseteq Messages /\ IsFiniteSet(Messages)
        BY AcceptedIds DEF DueSeqs, TransferInv, AssemblerInv
      <4> QED
        BY <4>1, FS_Subset
    <3> DEFINE packets == [q \in DueSeqs |-> AckPackets(q)]
    <3>2. packets \in Surjection(DueSeqs, {AckPackets(q) : q \in DueSeqs})
      BY DEF Surjection
    <3>3. IsFiniteSet({AckPackets(q) : q \in DueSeqs})
      BY <3>1, <3>2, FS_Surjection
    <3>4. IsFiniteSet(UNION {AckPackets(q) : q \in DueSeqs})
      BY <3>3, DueAcksTell, FS_UNION
    <3> QED
      BY <3>4, FS_Subset
  <2>2. losses' \in 0 .. MaxLosses
    BY <1>7, <2>1, LossesBounded DEF TransferInv, NetInv
  <2>3. ASSUME NEW f \in fragNet' PROVE f.seq \in DOMAIN accepted' /\ f \in SentOf(f.seq)'
    BY <1>2, <1>3, SentOfGrows DEF TransferInv, NetInv, Grows
  <2> QED
    BY <1>2, <1>3, <1>7, <1>8, <2>2, <2>3 DEF TransferInv, NetInv, Grows
<1>10. ClockInv'
  <2>1. connected' \in BOOLEAN /\ sentEarly' \subseteq Messages
    BY <1>2 DEF TransferInv, ClockInv
  <2> QED
    BY <1>2, <2>1, ClockRead DEF TransferInv, Ends
<1>11. BelievedInv'
  <2>1. /\ \A r \in ackNet : r.seq \in DOMAIN accepted /\ Tells(r.ack, r.seq)
        /\ \A r \in DOMAIN sets :
             /\ r \in DOMAIN accepted
             /\ \A a \in sets[r].lastAck : Tells(a, r)
             /\ sets[r].done /\ Believable(accepted[r]) => Copies(r) > 0
    BY BelievedSoFar DEF TransferInv
  <2>2. \A r \in ackNet' : r.seq \in DOMAIN accepted /\ Tells(r.ack, r.seq)
    BY <1>7, <1>8, <2>1
  <2>3. UNCHANGED sets
    BY <1>2 DEF trackerVars
  <2> QED
    BY <1>3, <1>5, <2>1, <2>2, <2>3, BelievedStep DEF TransferInv
<1>12. IntactInv'
  BY <1>2, <1>3, IntactRests DEF TransferInv
<1> QED
  BY <1>3, <1>6, <1>9, <1>10, <1>11, <1>12 DEF TransferInv

(* The receiver panics.                                                    *)
LEMMA ReceiverPanicsStep ==
  ASSUME TransferInv, ReceiverPanics
  PROVE  TransferInv'
<1>1. UNCHANGED <<pending, delivered>> /\ receiverPanicked' = TRUE
  BY DEF ReceiverPanics, AssemblerPanic
<1>2. Leave("receiver") /\ UNCHANGED <<trackerVars, netVars, connected, sentEarly>>
  BY DEF ReceiverPanics
<1>3. TrackerInv' /\ Grows
  BY <1>2, TrackerRests DEF TransferInv
<1>4. \A r \in Seq : Copies(r)' = Copies(r)
  BY <1>1 DEF Copies
<1>5. StaysDelivered
  BY <1>4 DEF StaysDelivered
<1>6. AssemblerInv'
  <2>1. DOMAIN pending \subseteq DOMAIN accepted /\ DOMAIN accepted \subseteq Seq
    BY AcceptedIds DEF TransferInv, AssemblerInv
  <2>2. UNCHANGED accepted
    BY <1>2 DEF trackerVars
  <2>3. \A r \in DOMAIN pending' :
          IF pending'[r].complete THEN Copies(r)' > 0 ELSE Partial(pending[r], r)'
    BY <1>1, <1>4, <2>1, <2>2 DEF TransferInv, AssemblerInv, Partial, SentOf
  <2> QED
    BY <1>1, <1>4, <2>1, <2>2, <2>3 DEF TransferInv, AssemblerInv
<1>7. NetInv'
  BY <1>2, <1>3, NetRests DEF TransferInv, netVars
<1>8. ClockInv'
  <2>1. connected' \in BOOLEAN /\ sentEarly' \subseteq Messages
    BY <1>2 DEF TransferInv, ClockInv
  <2> QED
    BY <1>2, <2>1, ClockRead DEF TransferInv, Ends
<1>9. BelievedInv'
  <2>1. /\ \A r \in ackNet : r.seq \in DOMAIN accepted /\ Tells(r.ack, r.seq)
        /\ \A r \in DOMAIN sets :
             /\ r \in DOMAIN accepted
             /\ \A a \in sets[r].lastAck : Tells(a, r)
             /\ sets[r].done /\ Believable(accepted[r]) => Copies(r) > 0
    BY BelievedSoFar DEF TransferInv
  <2>2. UNCHANGED <<ackNet, sets>>
    BY <1>2 DEF trackerVars, netVars
  <2> QED
    BY <1>3, <1>5, <2>1, <2>2, BelievedStep DEF TransferInv
<1>10. IntactInv'
  BY <1>1, <1>3, IntactRests DEF TransferInv
<1> QED
  BY <1>3, <1>6, <1>7, <1>8, <1>9, <1>10 DEF TransferInv

-----------------------------------------------------------------------------
(* Time passes.                                                            *)

(* A tracked message grows older, and changes in nothing else.             *)
LEMMA AgedSentData ==
  ASSUME TrackerAges, NEW q \in DOMAIN sets, sets[q] \in SentDataSet, AtMostOne(sets[q].oldest)
  PROVE  /\ sets'[q] \in SentDataSet /\ sets'[q].msg = sets[q].msg
         /\ sets'[q].lastAck = sets[q].lastAck /\ sets'[q].done = sets[q].done
         /\ AtMostOne(sets'[q].oldest)
<1> DEFINE s == sets[q]
           age == IF s.msg.expires THEN Aged(s.age, Expiration + 1) ELSE 0
           sentAge == IF s.done THEN s.sentAge ELSE Aged(s.sentAge, ResendDelay)
           ackAge == IF s.lastAck = {} THEN s.ackAge ELSE Aged(s.ackAge, CleanupDelay)
           oldest == {Aged(o, ResendDelay) : o \in s.oldest}
<1>1. /\ s.msg \in Outgoing /\ s.age \in Nat /\ s.sentAge \in 0 .. ResendDelay
      /\ s.ackAge \in 0 .. CleanupDelay /\ s.done \in BOOLEAN
      /\ s.lastAck \subseteq [bytes : Nat, bits : SUBSET Nat]
      /\ s.oldest \subseteq 0 .. ResendDelay
  BY DEF SentDataSet
<1>2. /\ age \in Nat /\ sentAge \in 0 .. ResendDelay /\ ackAge \in 0 .. CleanupDelay
      /\ oldest \subseteq 0 .. ResendDelay
  BY <1>1, TrackerAssumption DEF Aged
<1>3. AtMostOne(oldest)
  BY DEF AtMostOne
<1>4. sets'[q] = [s EXCEPT !.age = age, !.sentAge = sentAge, !.ackAge = ackAge,
                           !.oldest = oldest]
  BY DEF TrackerAges
<1>5. s \in SentDataSet
  OBVIOUS
<1> HIDE DEF s, age, sentAge, ackAge, oldest
<1>6. sets'[q] = [msg |-> s.msg, age |-> age, sentAge |-> sentAge, lastAck |-> s.lastAck,
                  ackAge |-> ackAge, oldest |-> oldest, done |-> s.done]
  BY <1>4, <1>5 DEF SentDataSet
<1>7. sets'[q] \in SentDataSet
  <2>1. [msg |-> s.msg, age |-> age, sentAge |-> sentAge, lastAck |-> s.lastAck,
         ackAge |-> ackAge, oldest |-> oldest, done |-> s.done] \in SentDataSet
    BY <1>1, <1>2, SentDataSetFields, Zenon
  <2> QED
    BY <1>6, <2>1, Zenon
<1> QED
  BY <1>3, <1>6, <1>7 DEF s

(* A unit of time passes, between two calls of process().                  *)
LEMMA TimePassesStep ==
  ASSUME TransferInv, TimePasses
  PROVE  TransferInv'
<1>1. /\ AssemblerAges /\ TrackerAges
      /\ sinceProcess' = [e \in Ends |-> AtMost(sinceProcess[e] + 1, MaxIdle)]
      /\ UNCHANGED <<netVars, inProcess, connected, sentEarly>>
  BY DEF TimePasses
<1>2. /\ UNCHANGED <<nextSeqId, accepted, senderPanicked>> /\ DOMAIN sets' = DOMAIN sets
      /\ UNCHANGED <<delivered, receiverPanicked>> /\ DOMAIN pending' = DOMAIN pending
  BY <1>1 DEF AssemblerAges, TrackerAges
<1>3. \A q \in DOMAIN sets :
        /\ sets'[q] \in SentDataSet /\ sets'[q].msg = sets[q].msg
        /\ sets'[q].lastAck = sets[q].lastAck /\ sets'[q].done = sets[q].done
        /\ AtMostOne(sets'[q].oldest)
  BY <1>1, AgedSentData DEF TransferInv, TrackerInv
<1>4. Grows
  BY <1>2 DEF Grows
<1>5. TrackerInv'
  BY <1>2, <1>3 DEF TransferInv, TrackerInv
<1>6. \A r \in Seq : Copies(r)' = Copies(r)
  BY <1>2 DEF Copies
<1>7. StaysDelivered
  BY <1>6 DEF StaysDelivered
<1>8. AssemblerInv'
  <2>1. DOMAIN pending \subseteq DOMAIN accepted /\ DOMAIN accepted \subseteq Seq
    BY AcceptedIds DEF TransferInv, AssemblerInv
  <2>2. \A r \in DOMAIN pending :
          /\ pending'[r] \in AssemblySet
          /\ pending'[r].complete = pending[r].complete
          /\ pending'[r].frags = pending[r].frags
    BY <1>1, AgedSets DEF TransferInv, AssemblerInv
  <2>3. \A r \in DOMAIN pending' :
          IF pending'[r].complete THEN Copies(r)' > 0 ELSE Partial(pending[r], r)'
    BY <1>2, <1>6, <2>1, <2>2 DEF TransferInv, AssemblerInv, Partial, SentOf
  <2> QED
    BY <1>2, <1>6, <2>1, <2>2, <2>3 DEF TransferInv, AssemblerInv
<1>9. NetInv'
  BY <1>1, <1>4, NetRests DEF TransferInv, netVars
<1>10. ClockInv'
  <2>1. \A e \in Ends : AtMost(sinceProcess[e] + 1, MaxIdle) \in 0 .. MaxIdle
    BY TransferAssumption DEF TransferInv, ClockInv, AtMost
  <2> QED
    BY <1>1, <2>1 DEF TransferInv, ClockInv
<1>11. BelievedInv'
  <2>1. /\ \A r \in ackNet : r.seq \in DOMAIN accepted /\ Tells(r.ack, r.seq)
        /\ \A r \in DOMAIN sets :
             /\ r \in DOMAIN accepted
             /\ \A a \in sets[r].lastAck : Tells(a, r)
             /\ sets[r].done /\ Believable(accepted[r]) => Copies(r) > 0
    BY BelievedSoFar DEF TransferInv
  <2>2. \A r \in DOMAIN sets' :
          /\ r \in DOMAIN accepted
          /\ \A a \in sets'[r].lastAck : Tells(a, r)
          /\ sets'[r].done /\ Believable(accepted[r]) => Copies(r) > 0
    BY <1>2, <1>3, <2>1
  <2>3. UNCHANGED ackNet
    BY <1>1 DEF netVars
  <2> QED
    BY <1>4, <1>7, <2>1, <2>2, <2>3, BelievedStep DEF TransferInv
<1>12. IntactInv'
  BY <1>2, <1>4, <1>5, IntactRests DEF TransferInv
<1> QED
  BY <1>5, <1>8, <1>9, <1>10, <1>11, <1>12 DEF TransferInv

-----------------------------------------------------------------------------
(* The theorems.                                                           *)

(* Each step of either end, and of time, preserves the invariant.          *)
LEMMA TransferStep ==
  ASSUME TransferInv, [Next]_vars
  PROVE  TransferInv'
<1>1. CASE UNCHANGED vars
  <2>1. UNCHANGED <<assemblerVars, trackerVars, netVars, inProcess, sinceProcess, connected,
                    sentEarly>>
    BY <1>1 DEF vars
  <2>2. ClockInv'
    BY <2>1 DEF TransferInv, ClockInv
  <2> QED
    BY <2>1, <2>2, RestsBut DEF netVars
<1> QED
  BY <1>1, AppSendsStep, SenderConnectsStep, SenderReceivesAckStep, SenderTicksStep,
     SenderPanicsStep, ReceiverReceivesFragmentStep, ReceiverTicksStep, ReceiverPanicsStep,
     TimePassesStep
     DEF Next

(* At first nothing is sent, delivered or known.                           *)
LEMMA TransferStart ==
  ASSUME Init
  PROVE  TransferInv
<1>1. /\ DOMAIN pending = {} /\ DOMAIN sets = {} /\ DOMAIN accepted = {} /\ nextSeqId = 0
      /\ delivered = [q \in Seq |-> [intact |-> 0, garbled |-> 0]]
  BY DEF Init, AssemblerInit, TrackerInit
<1>2. /\ fragNet = {} /\ ackNet = {} /\ losses = 0 /\ dups = 0
      /\ inProcess = {} /\ sinceProcess = [e \in Ends |-> 0] /\ sentEarly = {}
  BY DEF Init
<1>3. /\ receiverPanicked \in BOOLEAN /\ senderPanicked \in BOOLEAN /\ connected \in BOOLEAN
  BY DEF Init, AssemblerInit, TrackerInit
<1>4. TrackerInv
  <2>1. nextSeqId \in 0 .. MaxMessages
    BY <1>1, TrackerAssumption
  <2> QED
    BY <1>1, <1>3, <2>1 DEF TrackerInv
<1>5. AssemblerInv
  <2>1. delivered \in [Seq -> [intact : 0 .. MaxCopies, garbled : 0 .. MaxCopies]]
    BY <1>1 DEF MaxCopies
  <2>2. \A q \in Seq : Copies(q) = 0
    BY <1>1 DEF Copies
  <2> QED
    BY <1>1, <1>3, <2>1, <2>2 DEF AssemblerInv
<1>6. NetInv
  BY <1>2, TransferAssumption DEF NetInv
<1>7. ClockInv
  BY <1>2, <1>3, TransferAssumption DEF ClockInv
<1>8. BelievedInv /\ IntactInv
  BY <1>1, <1>2 DEF BelievedInv, IntactInv
<1> QED
  BY <1>4, <1>5, <1>6, <1>7, <1>8 DEF TransferInv

(* The inductive invariant: what is under way, held and believed agrees    *)
(* with what was sent and delivered, in every state.                       *)
THEOREM TransferInvariance == Spec => []TransferInv
BY TransferStart, TransferStep, PTL DEF Spec

(* The variables keep their types.                                         *)
THEOREM TransferTypes == Spec => []TypeOK
<1>1. TransferInv => TypeOK
  <2> SUFFICES ASSUME TransferInv PROVE TypeOK
    OBVIOUS
  <2>1. fragNet \subseteq Fragment
    BY SentOfType DEF TransferInv, NetInv
  <2>2. \A q \in DOMAIN sets :
          Cardinality(sets[q].lastAck) <= 1 /\ Cardinality(sets[q].oldest) <= 1
    <3>1. ASSUME NEW S, AtMostOne(S) PROVE Cardinality(S) <= 1
      <4>1. CASE S = {}
        BY <4>1, FS_EmptySet
      <4>2. CASE S # {}
        <5>1. PICK x : x \in S
          BY <4>2
        <5>2. S = {x}
          BY <3>1, <5>1 DEF AtMostOne
        <5> QED
          BY <5>2, FS_Singleton
      <4> QED
        BY <4>1, <4>2
    <3> QED
      BY <3>1 DEF TransferInv, TrackerInv
  <2> QED
    BY <2>1, <2>2 DEF TransferInv, TrackerInv, AssemblerInv, NetInv, ClockInv, TypeOK
<1> QED
  BY <1>1, TransferInvariance, PTL

(* Of a message whose acks can be believed, is_seq_id_received tells the   *)
(* truth, whatever the other messages are.                                 *)
ReceivedIfBelievable ==
  \A q \in Messages : IsSeqIdReceived(q) /\ Believable(accepted[q]) => Copies(q) > 0

THEOREM BelievableIsDelivered == Spec => []ReceivedIfBelievable
<1>1. TransferInv => ReceivedIfBelievable
  BY DEF TransferInv, BelievedInv, IsSeqIdReceived, ReceivedIfBelievable
<1> QED
  BY <1>1, TransferInvariance, PTL

(* is_seq_id_received tells the truth of every message, when the           *)
(* application sends none whose acks cannot be believed.                   *)
THEOREM ReceivedIsDelivered ==
  ASSUME \A m \in Outgoing : Believable(m)
  PROVE  Spec => []ReceivedMeansDelivered
<1>1. TransferInv => ReceivedMeansDelivered
  BY DEF TransferInv, TrackerInv, BelievedInv, IsSeqIdReceived, ReceivedMeansDelivered
<1> QED
  BY <1>1, TransferInvariance, PTL

(* A message of which no resent fragment can meet one of another form is   *)
(* delivered as it was sent, whatever the other messages are.              *)
IntactIfUnmixed ==
  \A q \in Seq : delivered[q].garbled > 0 => q \in DOMAIN accepted /\ ~ Unmixed(accepted[q])

THEOREM UnmixedIsIntact == Spec => []IntactIfUnmixed
<1>1. TransferInv => IntactIfUnmixed
  <2> SUFFICES ASSUME TransferInv, NEW q \in Seq, delivered[q].garbled > 0
               PROVE  q \in DOMAIN accepted /\ ~ Unmixed(accepted[q])
    BY DEF IntactIfUnmixed
  <2>1. delivered[q] \in [intact : 0 .. MaxCopies, garbled : 0 .. MaxCopies]
    BY DEF TransferInv, AssemblerInv
  <2>2. Copies(q) > 0
    BY <2>1 DEF Copies, MaxCopies
  <2>3. q \in DOMAIN accepted
    BY <2>2 DEF TransferInv, AssemblerInv
  <2> QED
    BY <2>1, <2>3 DEF TransferInv, IntactInv
<1> QED
  BY <1>1, TransferInvariance, PTL

(* What is delivered is what was sent, when the application sends no key   *)
(* message that is encrypted and longer than one fragment.                 *)
THEOREM DeliveredIsIntact ==
  ASSUME \A m \in Outgoing : Unmixed(m)
  PROVE  Spec => []IntactDelivery
<1>1. TransferInv /\ IntactIfUnmixed => IntactDelivery
  <2> SUFFICES ASSUME TransferInv, IntactIfUnmixed, NEW q \in Seq
               PROVE  delivered[q].garbled = 0
    BY DEF IntactDelivery
  <2>1. ~ (delivered[q].garbled > 0)
    BY DEF TransferInv, TrackerInv, IntactIfUnmixed
  <2>2. delivered[q] \in [intact : 0 .. MaxCopies, garbled : 0 .. MaxCopies]
    BY DEF TransferInv, AssemblerInv
  <2> QED
    BY <2>1, <2>2 DEF MaxCopies
<1> QED
  BY <1>1, TransferInvariance, UnmixedIsIntact, PTL

-----------------------------------------------------------------------------
(* The sender keeps its promise.                                           *)

(* A key message whose acks can be believed is kept until it is delivered. *)
KeptIfBelievable ==
  \A q \in DOMAIN accepted :
    /\ Believable(accepted[q]) /\ accepted[q].key /\ ~ accepted[q].expires
    /\ Copies(q) = 0
    => q \in DOMAIN sets

(* The sender forgets only what may expire and what it knows to be         *)
(* received, and goes on knowing it until then.                            *)
LEMMA Forgets ==
  ASSUME TransferInv, Next, NEW q \in DOMAIN sets
  PROVE  /\ q \in DOMAIN sets' /\ sets[q].done => sets'[q].done
         /\ q \notin DOMAIN sets' => accepted[q].expires \/ sets[q].done
<1>1. /\ sets[q] \in SentDataSet /\ sets[q].msg = accepted[q] /\ q \in DOMAIN accepted
      /\ q # nextSeqId
  <2>1. q \in 0 .. nextSeqId - 1 /\ nextSeqId \in Nat
    BY TrackerAssumption DEF TransferInv, TrackerInv
  <2> QED
    BY <2>1 DEF TransferInv, TrackerInv
<1>2. CASE AppSends
  <2>1. q \in DOMAIN sets' /\ sets'[q] = sets[q]
    BY <1>1, <1>2 DEF AppSends, SendData, SendDataFails
  <2> QED
    BY <2>1
<1>3. CASE SenderReceivesAck
  <2>1. PICK p \in ackNet : ReceiveAck(p.seq, p.ack)
    BY <1>3 DEF SenderReceivesAck
  <2>2. q \in DOMAIN sets' /\ (sets'[q] = sets[q] \/ ~ sets[q].done)
    BY <2>1 DEF ReceiveAck
  <2> QED
    BY <2>2
<1>4. CASE SenderTicks
  <2>1. sets' = [r \in {t \in DOMAIN sets : ~ Removed(sets[t])} |->
                   IF r \in ResentSeqs THEN AfterResend(sets[r]) ELSE sets[r]]
    BY <1>4 DEF SenderTicks, TrackerTick
  <2>2. CASE Removed(sets[q])
    BY <1>1, <2>1, <2>2 DEF Removed, IsExpired, IsCleanable
  <2>3. CASE ~ Removed(sets[q])
    BY <2>1, <2>3 DEF ResentSeqs, Resent
  <2> QED
    BY <2>2, <2>3
<1>5. CASE TimePasses
  <2>1. q \in DOMAIN sets' /\ sets'[q].done = sets[q].done
    BY <1>1, <1>5, AgedSentData DEF TimePasses, TrackerAges, TransferInv, TrackerInv
  <2> QED
    BY <2>1
<1>6. CASE SenderPanics
  <2>1. PICK before \in SUBSET ResentSeqs :
          sets' = [r \in DOMAIN sets |->
                     IF r \in before THEN AfterResend(sets[r]) ELSE sets[r]]
    BY <1>6 DEF SenderPanics, TrackerPanic
  <2> QED
    BY <1>1, <2>1 DEF ResentSeqs, Resent
<1>7. CASE UNCHANGED sets
  BY <1>7
<1> QED
  BY <1>2, <1>3, <1>4, <1>5, <1>6, <1>7
     DEF Next, SenderConnects, ReceiverReceivesFragment,
         ReceiverTicks, ReceiverPanics, trackerVars

(* What was accepted and delivered remains so.                             *)
LEMMA NextGrows ==
  ASSUME TransferInv, Next
  PROVE  Grows /\ StaysDelivered
<1>1. Grows
  <2>1. CASE AppSends
    <3>1. nextSeqId \notin DOMAIN accepted
      BY TrackerAssumption DEF TransferInv, TrackerInv
    <3>2. UNCHANGED accepted \/ /\ DOMAIN accepted' = DOMAIN accepted \cup {nextSeqId}
                                /\ \A q \in DOMAIN accepted : accepted'[q] = accepted[q]
      BY <2>1, <3>1 DEF AppSends, SendData, SendDataFails
    <3> QED
      BY <3>2 DEF Grows
  <2>2. CASE UNCHANGED accepted
    BY <2>2 DEF Grows
  <2> QED
    BY <2>1, <2>2
       DEF Next, SenderConnects, SenderReceivesAck, ReceiveAck, SenderTicks, TrackerTick,
           SenderPanics, TrackerPanic, ReceiverReceivesFragment, ReceiverTicks,
           ReceiverPanics, TimePasses, TrackerAges, trackerVars
<1>2. StaysDelivered
  <2>1. CASE ReceiverReceivesFragment
    <3>1. PICK f \in fragNet : Push(f, TRUE)
      BY <2>1 DEF ReceiverReceivesFragment
    <3>2. UNCHANGED accepted
      BY <2>1 DEF ReceiverReceivesFragment, trackerVars
    <3> QED
      BY <3>1, <3>2, PushStep
  <2>2. CASE UNCHANGED delivered
    BY <2>2 DEF StaysDelivered, Copies
  <2> QED
    BY <2>1, <2>2
       DEF Next, AppSends, SenderConnects, SenderReceivesAck, SenderTicks, SenderPanics,
           ReceiverTicks, AssemblerTick, ReceiverPanics, AssemblerPanic, TimePasses,
           AssemblerAges, assemblerVars
<1> QED
  BY <1>1, <1>2

(* A message that is new is tracked if it is a key one.                    *)
LEMMA NewIsTracked ==
  ASSUME TransferInv, Next, NEW q \in DOMAIN accepted', q \notin DOMAIN accepted
  PROVE  AppSends /\ q = nextSeqId /\ (accepted'[q].key => q \in DOMAIN sets')
<1>1. AppSends
  BY DEF Next, SenderConnects, SenderReceivesAck, ReceiveAck, SenderTicks, TrackerTick,
         SenderPanics, TrackerPanic, ReceiverReceivesFragment, ReceiverTicks,
         ReceiverPanics, TimePasses, TrackerAges, trackerVars
<1>2. PICK m \in Outgoing :
        SendData(m, connected, sinceProcess["sender"], FirstTransmission(nextSeqId, m))
  BY <1>1 DEF AppSends, SendDataFails
<1>3. q = nextSeqId /\ accepted'[q] = m
  BY <1>2 DEF SendData
<1>4. m.key => q \in DOMAIN sets'
  BY <1>2, <1>3 DEF SendData
<1> QED
  BY <1>1, <1>3, <1>4

(* The invariant, message by message.                                      *)
LEMMA KeptStep ==
  ASSUME TransferInv, KeptIfBelievable, [Next]_vars
  PROVE  KeptIfBelievable'
<1>1. CASE UNCHANGED vars
  <2>1. UNCHANGED <<accepted, sets, delivered>>
    BY <1>1 DEF vars, trackerVars, assemblerVars
  <2> QED
    BY <2>1 DEF KeptIfBelievable, Copies
<1>2. CASE Next
  <2> SUFFICES ASSUME NEW q \in DOMAIN accepted',
                      Believable(accepted'[q]), accepted'[q].key, ~ accepted'[q].expires,
                      Copies(q)' = 0
               PROVE  q \in DOMAIN sets'
    BY DEF KeptIfBelievable
  <2>1. CASE q \notin DOMAIN accepted
    BY <1>2, <2>1, NewIsTracked
  <2>2. CASE q \in DOMAIN accepted
    <3>1. accepted'[q] = accepted[q] /\ q \in Seq /\ StaysDelivered
      BY <1>2, <2>2, NextGrows, AcceptedIds DEF Grows, TransferInv
    <3>2. Copies(q) = 0
      <4>1. ~ (Copies(q) > 0)
        BY <3>1 DEF StaysDelivered
      <4>2. delivered[q] \in [intact : 0 .. MaxCopies, garbled : 0 .. MaxCopies]
        BY <3>1 DEF TransferInv, AssemblerInv
      <4> QED
        BY <4>1, <4>2 DEF Copies, MaxCopies
    <3>3. q \in DOMAIN sets
      BY <2>2, <3>1, <3>2 DEF KeptIfBelievable
    <3>4. ~ sets[q].done
      BY <3>1, <3>2, <3>3 DEF TransferInv, BelievedInv
    <3> QED
      BY <1>2, <3>1, <3>3, <3>4, Forgets
  <2> QED
    BY <2>1, <2>2
<1> QED
  BY <1>1, <1>2

(* Of the messages whose acks can be believed, the sender gives up no key  *)
(* one that neither expires nor is delivered, whatever the others are.     *)
THEOREM BelievableIsKept == Spec => []KeptIfBelievable
<1>1. Init => KeptIfBelievable
  BY DEF Init, TrackerInit, KeptIfBelievable
<1>2. TransferInv /\ KeptIfBelievable /\ [Next]_vars => KeptIfBelievable'
  BY KeptStep
<1> QED
  BY <1>1, <1>2, TransferInvariance, PTL DEF Spec

(* A key message that does not expire is kept until it is delivered, when  *)
(* the application sends none whose acks cannot be believed.               *)
THEOREM KeptIsDelivered ==
  ASSUME \A m \in Outgoing : Believable(m)
  PROVE  Spec => []KeptUntilDelivered
<1>1. TransferInv /\ KeptIfBelievable => KeptUntilDelivered
  BY DEF TransferInv, TrackerInv, KeptIfBelievable, KeptUntilDelivered
<1> QED
  BY <1>1, TransferInvariance, BelievableIsKept, PTL

-----------------------------------------------------------------------------
(* The transfer implements the promise.                                    *)

Delivered == {q \in Seq : Copies(q) > 0}
Confirmed == {q \in DOMAIN sets : sets[q].done}
Expiring  == {q \in DOMAIN accepted : accepted[q].expires}

(* A step that changes nothing of what the promise is about.               *)
LEMMA PromiseStutters ==
  ASSUME UNCHANGED <<DOMAIN accepted, DOMAIN sets, Delivered, Confirmed, Expiring>>
  PROVE  UNCHANGED Promise!vars
BY DEF Promise!vars, Delivered, Confirmed, Expiring

(* A message is accepted.                                                  *)
LEMMA PromiseSend ==
  ASSUME NEW q \in Messages, q \notin DOMAIN accepted,
         DOMAIN accepted' = DOMAIN accepted \cup {q},
         DOMAIN sets' \in {DOMAIN sets, DOMAIN sets \cup {q}},
         Expiring' \in {Expiring, Expiring \cup {q}},
         UNCHANGED <<Delivered, Confirmed>>
  PROVE  Promise!Next
<1>1. Promise!Send(q)
  BY DEF Promise!Send, Delivered, Confirmed, Expiring
<1> QED
  BY <1>1 DEF Promise!Next

(* A message is delivered for the first time.                              *)
LEMMA PromiseDeliver ==
  ASSUME NEW q \in Messages, q \in DOMAIN accepted, q \notin Delivered,
         Delivered' = Delivered \cup {q},
         UNCHANGED <<DOMAIN accepted, DOMAIN sets, Confirmed, Expiring>>
  PROVE  Promise!Next
<1>1. Promise!Deliver(q)
  BY DEF Promise!Deliver, Delivered, Confirmed, Expiring
<1> QED
  BY <1>1 DEF Promise!Next

(* The sender has concluded and forgotten.                                 *)
LEMMA PromiseSettle ==
  ASSUME DOMAIN sets \subseteq Messages, DOMAIN sets' \subseteq DOMAIN sets,
         Confirmed' \subseteq Delivered, Confirmed \cap DOMAIN sets' \subseteq Confirmed',
         DOMAIN sets \ DOMAIN sets' \subseteq Confirmed \cup Expiring,
         UNCHANGED <<DOMAIN accepted, Delivered, Expiring>>
  PROVE  Promise!Next
<1>1. PICK learnt : learnt = Confirmed'
  OBVIOUS
<1>2. PICK forgotten : forgotten = DOMAIN sets \ DOMAIN sets'
  OBVIOUS
<1>3. learnt \subseteq DOMAIN sets' /\ Confirmed \subseteq DOMAIN sets
  BY <1>1 DEF Confirmed
<1>4. /\ learnt \subseteq DOMAIN sets \cap Delivered
      /\ forgotten \subseteq Confirmed \cup (DOMAIN sets \cap Expiring)
      /\ DOMAIN sets' = DOMAIN sets \ forgotten
      /\ Confirmed' = (Confirmed \cup learnt) \ forgotten
  BY <1>1, <1>2, <1>3
<1>5. Promise!Settle(learnt, forgotten)
  BY <1>4 DEF Promise!Settle, Delivered, Confirmed, Expiring
<1>6. learnt \in SUBSET Messages /\ forgotten \in SUBSET Messages
  BY <1>2, <1>3
<1> QED
  BY <1>5, <1>6 DEF Promise!Next

(* Copies that nobody was given before.                                    *)
LEMMA DeliveredMore ==
  ASSUME TransferInv, Next
  PROVE  \/ UNCHANGED Delivered
         \/ /\ ReceiverReceivesFragment
            /\ \E q \in Seq : /\ q \in DOMAIN accepted /\ q \notin Delivered
                              /\ Delivered' = Delivered \cup {q}
<1>1. CASE UNCHANGED delivered
  BY <1>1 DEF Delivered, Copies
<1>2. CASE ReceiverReceivesFragment
  <2>1. PICK f \in fragNet : Push(f, TRUE)
    BY <1>2 DEF ReceiverReceivesFragment
  <2> DEFINE s == WithFragment(KnownSet(f), f)
             q == f.seq
  <2>2. CASE Deliver(q, s)
    <3>1. q \in DOMAIN accepted /\ q \in Seq
      BY AcceptedIds DEF TransferInv, NetInv
    <3>2. /\ StaysDelivered
          /\ \A r \in Seq \ {q} : delivered'[r] = delivered[r]
      <4> HIDE DEF s, q
      <4>1. delivered \in [Seq -> [intact : 0 .. MaxCopies, garbled : 0 .. MaxCopies]]
        BY DEF TransferInv, AssemblerInv
      <4>2. \A r \in Seq \ {q} : delivered'[r] = delivered[r]
        BY <2>2, <3>1, <4>1 DEF Deliver
      <4> QED
        BY <1>2, <4>2, NextGrows
    <3> HIDE DEF s, q
    <3>3. \A r \in Seq \ {q} : r \in Delivered' <=> r \in Delivered
      BY <3>2 DEF Delivered, Copies
    <3>4. q \in Delivered => q \in Delivered'
      BY <3>1, <3>2 DEF Delivered, StaysDelivered
    <3>5. Delivered \subseteq Seq /\ Delivered' \subseteq Seq
      BY DEF Delivered
    <3>6. CASE q \in Delivered \/ q \notin Delivered'
      <4>1. Delivered' = Delivered
        BY <3>1, <3>3, <3>4, <3>5, <3>6
      <4> QED
        BY <4>1
    <3>7. CASE q \notin Delivered /\ q \in Delivered'
      <4>1. Delivered' = Delivered \cup {q}
        BY <3>1, <3>3, <3>5, <3>7
      <4> QED
        BY <1>2, <3>1, <3>7, <4>1
    <3> QED
      BY <3>6, <3>7
  <2> QED
    BY <1>1, <2>1, <2>2 DEF Push, PushComplete, PushIncomplete, PushFull, assemblerVars
<1> QED
  BY <1>1, <1>2
     DEF Next, AppSends, SenderConnects, SenderReceivesAck, SenderTicks, SenderPanics,
         ReceiverTicks, AssemblerTick, ReceiverPanics, AssemblerPanic, TimePasses,
         AssemblerAges, assemblerVars

(* Each step of the transfer is one of the promise, or none of its         *)
(* concern.                                                                *)
LEMMA PromiseStep ==
  ASSUME \A m \in Outgoing : Believable(m), TransferInv, TransferInv', Next
  PROVE  Promise!Next \/ UNCHANGED Promise!vars
<1>1. /\ DOMAIN sets \subseteq DOMAIN accepted /\ DOMAIN accepted \subseteq Messages
      /\ Messages = Seq /\ DOMAIN sets' \subseteq DOMAIN accepted'
  BY AcceptedIds DEF TransferInv, TrackerInv
<1>2. CASE AppSends
  <2>1. UNCHANGED Delivered
    BY <1>2 DEF AppSends, assemblerVars, Delivered, Copies
  <2>2. CASE UNCHANGED <<sets, accepted>>
    BY <2>1, <2>2, PromiseStutters DEF Confirmed, Expiring
  <2>3. ASSUME NEW m \in Outgoing,
               SendData(m, connected, sinceProcess["sender"], FirstTransmission(nextSeqId, m))
        PROVE  Promise!Next
    <3>1. PICK q \in Messages : q = nextSeqId /\ q \notin DOMAIN accepted
      BY <2>3, TrackerAssumption DEF SendData, Messages, TransferInv, TrackerInv
    <3>2. /\ DOMAIN accepted' = DOMAIN accepted \cup {q}
          /\ \A r \in DOMAIN accepted : accepted'[r] = accepted[r]
      BY <2>3, <3>1 DEF SendData
    <3>3. /\ DOMAIN sets' \in {DOMAIN sets, DOMAIN sets \cup {q}}
          /\ \A r \in DOMAIN sets : sets'[r] = sets[r]
      BY <1>1, <2>3, <3>1 DEF SendData
    <3>4. q \in DOMAIN sets' => ~ sets'[q].done
      <4>1. q \notin DOMAIN sets
        BY <1>1, <3>1
      <4> QED
        BY <2>3, <3>1, <4>1 DEF SendData, NewSentDataSet
    <3>5. Expiring' \in {Expiring, Expiring \cup {q}}
      <4>1. Expiring' \subseteq Expiring \cup {q} /\ Expiring \subseteq Expiring'
        BY <3>2 DEF Expiring
      <4> QED
        BY <4>1
    <3>6. Confirmed' = Confirmed
      BY <3>3, <3>4 DEF Confirmed
    <3> QED
      BY <2>1, <3>1, <3>2, <3>3, <3>5, <3>6, PromiseSend
  <2> QED
    BY <1>2, <2>2, <2>3 DEF AppSends, SendDataFails
<1>3. CASE ReceiverReceivesFragment
  <2>1. UNCHANGED <<DOMAIN accepted, DOMAIN sets, Confirmed, Expiring>>
    BY <1>3 DEF ReceiverReceivesFragment, trackerVars, Confirmed, Expiring
  <2>2. CASE UNCHANGED Delivered
    BY <2>1, <2>2, PromiseStutters
  <2>3. ASSUME NEW q \in Seq, q \in DOMAIN accepted, q \notin Delivered,
               Delivered' = Delivered \cup {q}
        PROVE  Promise!Next
    BY <1>1, <2>1, <2>3, PromiseDeliver
  <2> QED
    BY <2>2, <2>3, DeliveredMore
<1>4. CASE ~ AppSends /\ ~ ReceiverReceivesFragment
  <2>1. UNCHANGED accepted /\ DOMAIN sets' \subseteq DOMAIN sets
    BY <1>4 DEF Next, SenderConnects, SenderReceivesAck, ReceiveAck, SenderTicks,
         TrackerTick, SenderPanics, TrackerPanic, ReceiverTicks, ReceiverPanics, TimePasses,
         TrackerAges, trackerVars
  <2>2. UNCHANGED Delivered
    BY <1>4, DeliveredMore
  <2>3. UNCHANGED <<DOMAIN accepted, Expiring>>
    BY <2>1 DEF Expiring
  <2>4. Confirmed' \subseteq Delivered
    <3>1. \A q \in DOMAIN sets' : sets'[q].done => Copies(q)' > 0
      BY <2>1 DEF TransferInv, TrackerInv, BelievedInv
    <3>2. Confirmed' \subseteq Delivered'
      BY <1>1, <2>1, <3>1 DEF Confirmed, Delivered
    <3> QED
      BY <2>2, <3>2
  <2>5. Confirmed \cap DOMAIN sets' \subseteq Confirmed'
    BY Forgets DEF Confirmed
  <2>6. DOMAIN sets \ DOMAIN sets' \subseteq Confirmed \cup Expiring
    <3> SUFFICES ASSUME NEW q \in DOMAIN sets, q \notin DOMAIN sets'
                 PROVE  q \in Confirmed \/ q \in Expiring
      OBVIOUS
    <3> QED
      BY <1>1, Forgets DEF Confirmed, Expiring
  <2> QED
    BY <1>1, <2>1, <2>2, <2>3, <2>4, <2>5, <2>6, PromiseSettle
<1> QED
  BY <1>2, <1>3, <1>4

(* What is delivered was sent; what the sender confirms was delivered; and *)
(* it forgets only what it has confirmed, or what may expire: the transfer *)
(* implements the safety part of the promise.                              *)
THEOREM PromiseIsKeptSafely ==
  ASSUME \A m \in Outgoing : Believable(m)
  PROVE  Spec => PromiseSafe
<1>1. Init => Promise!Init
  <2> SUFFICES ASSUME Init PROVE Promise!Init
    OBVIOUS
  <2>1. DOMAIN accepted = {} /\ DOMAIN sets = {}
    BY DEF Init, TrackerInit
  <2>2. \A q \in Seq : Copies(q) = 0
    BY DEF Init, AssemblerInit, Copies
  <2> QED
    BY <2>1, <2>2 DEF Promise!Init
<1>2. TransferInv /\ TransferInv' /\ [Next]_vars => [Promise!Next]_(Promise!vars)
  <2> SUFFICES ASSUME TransferInv, TransferInv', [Next]_vars
               PROVE  Promise!Next \/ UNCHANGED Promise!vars
    OBVIOUS
  <2>1. CASE UNCHANGED vars
    <3>1. UNCHANGED <<accepted, sets, delivered>>
      BY <2>1 DEF vars, trackerVars, assemblerVars
    <3> QED
      BY <3>1, PromiseStutters DEF Delivered, Confirmed, Expiring, Copies
  <2> QED
    BY <2>1, PromiseStep
<1> QED
  BY <1>1, <1>2, TransferInvariance, PTL DEF Spec, PromiseSafe, Promise!SafeSpec
=============================================================================
