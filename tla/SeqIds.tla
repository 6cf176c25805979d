------------------------------- MODULE SeqIds -------------------------------
(***************************************************************************)
(* The sequence ids of rbtl-tcp: u32, given out in order, and started over *)
(* after the last.  A message is counted as it was sent; its sequence id   *)
(* is what remains of that number.                                         *)
(***************************************************************************)
EXTENDS Integers

CONSTANT SeqIdBound   \* the number of sequence ids; 2^32

ASSUME SeqIdAssumption == SeqIdBound \in Nat /\ SeqIdBound > 2

(* What wrapping_add(1) makes of out_seq_id after n messages.              *)
SeqIdOf(n) == n % SeqIdBound

WrappingSub(a, b) == (a - b) % SeqIdBound

(* Mutant of IsNotAfter: ids are compared as if they never started over.   *)
IsNotAfterPlainly(seqId, okSeqId) == seqId <= okSeqId

(* is_seq_id_received, of two sequence ids: SeqId::MAX / 2 is rounded.     *)
IsNotAfter(seqId, okSeqId) == WrappingSub(okSeqId, seqId) < (SeqIdBound - 1) \div 2
=============================================================================
