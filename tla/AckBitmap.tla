----------------------------- MODULE AckBitmap -----------------------------
(***************************************************************************)
(* The payload of an Ack packet (rbtl-rudp, fragment/ack.rs): one bit per  *)
(* fragment of a message, packed in bytes.                                 *)
(*                                                                         *)
(* A message of n fragments has frag_total = n - 1: the last fragment has  *)
(* the id frag_total.  The bytes are kept as their number and the set of   *)
(* the bit positions that are 1; bit p is bit p % BitsPerByte of the byte  *)
(* p \div BitsPerByte.                                                     *)
(***************************************************************************)
EXTENDS Integers

CONSTANT BitsPerByte        \* 8 in the code

ASSUME BitsPerByteAssumption == BitsPerByte \in Nat \ {0}

(* Number of bytes allocated for an ack.                                   *)
AckSizeFromFragTotal(fragTotal) ==
  IF fragTotal % BitsPerByte = 0
    THEN fragTotal \div BitsPerByte
    ELSE fragTotal \div BitsPerByte + 1

Positions(bytes) == 0 .. bytes * BitsPerByte - 1

Ack(bytes, bits) == [bytes |-> bytes, bits |-> bits]

(* All the bytes are 0xFF.                                                 *)
CreateComplete(fragTotal) ==
  LET bytes == AckSizeFromFragTotal(fragTotal)
  IN  Ack(bytes, Positions(bytes))

(* Setting the bit of a fragment beyond the allocated bytes is an index    *)
(* out of bounds: the thread panics.                                       *)
CreatePanics(ids, fragTotal) ==
  ~ (ids \subseteq Positions(AckSizeFromFragTotal(fragTotal)))

CreateFromFragIds(ids, fragTotal) ==
  Ack(AckSizeFromFragTotal(fragTotal), ids)

(* The bytes of an ack have a bit for the last fragment of the message.    *)
HasBitForLast(fragTotal) == fragTotal = 0 \/ fragTotal % BitsPerByte # 0

(* Mutant of MissingIter: stops one fragment short of the last.            *)
MissingIterShort(ack, fragTotal) ==
  {p \in Positions(ack.bytes) : p \notin ack.bits /\ p < fragTotal}

(* The fragments an ack reports missing: the 0 bits of the bytes it has,   *)
(* up to the last fragment of the message.                                 *)
MissingIter(ack, fragTotal) ==
  {p \in Positions(ack.bytes) : p \notin ack.bits /\ p <= fragTotal}
=============================================================================
