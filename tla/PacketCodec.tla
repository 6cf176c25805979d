---------------------------- MODULE PacketCodec ----------------------------
(***************************************************************************)
(* How a datagram of rbtl-rudp says what it is (protocol/packet.rs): by    *)
(* the bytes frag_id and frag_total of its header.  A fragment has         *)
(* frag_id <= frag_total; the other packets are written with frag_id 255   *)
(* and a frag_total of their own.  A packet is kept as its variant, and on *)
(* the wire as this pair.                                                  *)
(***************************************************************************)
EXTENDS Integers

MaxByte == 255

(* The frag_total of the packets that are not fragments.                   *)
FragTotalOf ==
  [Ack |-> 0, Syn |-> 1, SynAck |-> 2, End |-> 3, Abort |-> 4, Heartbeat |-> 10]

ControlVariants == DOMAIN FragTotalOf

(* to_bytes                                                                *)
FragmentLayout(fragId, fragTotal) == <<fragId, fragTotal>>
ControlLayout(variant) == <<MaxByte, FragTotalOf[variant]>>

(* attempt_from_bytes: the reserved pairs are tried first.                 *)
IsControl(layout, variant) == layout = ControlLayout(variant)
IsFragment(layout) ==
  layout[1] <= layout[2] /\ \A v \in ControlVariants : ~ IsControl(layout, v)
=============================================================================
