------------------------------ MODULE ByteOrder -----------------------------
(***************************************************************************)
(* Bytes, and the numbers of two and of four bytes that both protocols     *)
(* write with byteorder's BigEndian.                                       *)
(***************************************************************************)
EXTENDS Integers, Sequences

Byte == 0 .. 255
U16 == {n \in Nat : n < 65536}
U32 == {n \in Nat : n \div 65536 < 65536}

WriteU16(n) == <<n \div 256, n % 256>>
ReadU16(b) == b[1] * 256 + b[2]
WriteU32(n) == WriteU16(n \div 65536) \o WriteU16(n % 65536)
ReadU32(b) == ReadU16(<<b[1], b[2]>>) * 65536 + ReadU16(<<b[3], b[4]>>)
=============================================================================
