------------------------------ MODULE Receiver ------------------------------
(***************************************************************************)
(* The FragmentAssembler of one socket on its own, fed with any of a set   *)
(* of fragments in any order and any number of times: whatever the sender  *)
(* and the network do, they can do no more than this.  The acks it ever    *)
(* sends are kept, because any of them may reach the sender at any time.   *)
(***************************************************************************)
EXTENDS FragmentAssembler

CONSTANTS
  Incoming,      \* the fragments that may arrive
  TotalOf        \* frag_total of each message

(* The packet parser refuses a fragment whose id is beyond frag_total      *)
(* (packet.rs); all the fragments of a message agree on its frag_total.    *)
ASSUME ReceiverAssumption ==
  /\ TotalOf \in [Seq -> Nat]
  /\ Incoming \subseteq Fragment
  /\ \A f \in Incoming : f.total = TotalOf[f.seq] /\ f.id \in 0 .. f.total

VARIABLE ackLog      \* history: every ack sent

receiverVars == <<assemblerVars, ackLog>>

ReceiverInit ==
  /\ AssemblerInit
  /\ ackLog = {}

Arrives(f) ==
  /\ Push(f, TRUE)
  /\ UNCHANGED ackLog

Ticks ==
  \E acks \in SUBSET UNION {AckPackets(q) : q \in DueSeqs} :
    /\ AssemblerTick(acks)
    /\ ackLog' = ackLog \cup acks

Panics ==
  /\ AssemblerPanic
  /\ UNCHANGED ackLog

Ages ==
  /\ AssemblerAges
  /\ UNCHANGED ackLog

ReceiverNext ==
  \/ \E f \in Incoming : Arrives(f)
  \/ Ticks
  \/ Panics
  \/ Ages

ReceiverSpec == ReceiverInit /\ [][ReceiverNext]_receiverVars

-----------------------------------------------------------------------------
(* Properties                                                              *)

IsDelivered(q) == delivered[q].intact + delivered[q].garbled > 0

(* The types of the variables.                                             *)
ReceiverTypeOK ==
  /\ DOMAIN pending \subseteq Seq
  /\ \A q \in DOMAIN pending : pending[q] \in AssemblySet
  /\ delivered \in [Seq -> [intact : 0 .. MaxCopies, garbled : 0 .. MaxCopies]]
  /\ receiverPanicked \in BOOLEAN
  /\ \A p \in ackLog : p.seq \in Seq

(* A set never waits with all its fragments: if it is not complete, one of *)
(* them is missing.                                                        *)
NoFullSetWaits ==
  \A q \in DOMAIN pending :
    ~ pending[q].complete => 0 .. TotalOf[q] # Ids(pending[q].frags)

(* An ack that reports no fragment missing is sent only for a message the  *)
(* application was given, so a sender that believes it is not misled.      *)
(* This needs a bit for the last fragment: see HasBitForLast.              *)
CompleteAckMeansDelivered ==
  \A p \in ackLog :
    HasBitForLast(TotalOf[p.seq]) /\ MissingIter(p.ack, TotalOf[p.seq]) = {}
      => IsDelivered(p.seq)

(* The ack a set would send reports exactly the fragments it lacks,        *)
(* whatever the order they came in and whichever of them the hash map      *)
(* yields first, and building it does not panic.  It fails for a           *)
(* frag_total that is a positive multiple of the width of a byte, whose    *)
(* last fragment has no bit.                                               *)
AcksAreExact ==
  \A q \in DOMAIN pending : HasBitForLast(TotalOf[q]) =>
    LET s == pending[q]
    IN  /\ ~ s.complete => ~ AckMayPanic(s)
        /\ \A a \in GenerateAck(s) :
             MissingIter(a, TotalOf[q]) =
               IF s.complete THEN {} ELSE (0 .. TotalOf[q]) \ Ids(s.frags)

(* While the receiver remembers that a message is complete, fragments that *)
(* are sent again do not make it be delivered a second time; and a set is  *)
(* forgotten only with nothing delivered or StaleComplete later.           *)
NoCopyWhileRemembered ==
  [][\A q \in DOMAIN pending : pending[q].complete =>
       /\ delivered'[q] = delivered[q]
       /\ q \in DOMAIN pending' \/ pending[q].age = StaleComplete]_receiverVars
=============================================================================
