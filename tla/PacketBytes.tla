----------------------------- MODULE PacketBytes -----------------------------
(***************************************************************************)
(* The datagrams of rbtl-rudp (protocol/packet.rs): what to_bytes writes   *)
(* for each variant of a packet, what attempt_from_bytes makes of any      *)
(* datagram.  A datagram is the bytes after its checksum, and its checksum *)
(* stands for the bytes it was computed over.                              *)
(***************************************************************************)
EXTENDS PacketCodec, ByteOrder

PacketCommonHeaderSize == 12   \* PACKET_COMMON_HEADER_SIZE
PacketCrc32Size == 4           \* PACKET_CRC32_SIZE
MaxRcvUdpDataSize == 1400      \* MAX_RCV_UDP_DATA_SIZE

Identity == [1 .. 4 -> Byte]
PubKey == [1 .. 32 -> Byte]

PacketVariant ==
  {f \in [kind : {"Fragment"}, seqId : U32, fragId : Byte, fragTotal : Byte, flags : U16,
          data : Seq(Byte)] : f.fragId <= f.fragTotal}
  \cup [kind : {"Ack"}, seqId : U32, slice : Seq(Byte)]
  \cup [kind : {"Syn", "SynAck"}, pubKey : PubKey]
  \cup [kind : {"End", "Abort"}, lastSeqId : U32]
  \cup [kind : {"Heartbeat"}]

Packet == [src : Identity, dst : Identity, variant : PacketVariant]

Datagram == [crc : Seq(Byte), bytes : Seq(Byte)]

-----------------------------------------------------------------------------
(* The bytes that a variant needs after the common header.                 *)
SizeAfterHeader ==
  [Fragment |-> 4, Ack |-> 4, Syn |-> 32, SynAck |-> 32, End |-> 4, Abort |-> 4,
   Heartbeat |-> 0]

UdpPacketSize(v) ==
  PacketCrc32Size + PacketCommonHeaderSize + SizeAfterHeader[v.kind]
  + (IF v.kind = "Fragment" THEN Len(v.data) ELSE IF v.kind = "Ack" THEN Len(v.slice) ELSE 0)

Layout(v) ==
  IF v.kind = "Fragment" THEN FragmentLayout(v.fragId, v.fragTotal) ELSE ControlLayout(v.kind)

Flags(v) == IF v.kind = "Fragment" THEN WriteU16(v.flags) ELSE <<0, 0>>

AfterHeader(v) ==
  CASE v.kind = "Fragment"          -> WriteU32(v.seqId) \o v.data
    [] v.kind = "Ack"               -> WriteU32(v.seqId) \o v.slice
    [] v.kind \in {"Syn", "SynAck"} -> v.pubKey
    [] v.kind \in {"End", "Abort"}  -> WriteU32(v.lastSeqId)
    [] v.kind = "Heartbeat"         -> <<>>

ToBytes(p) ==
  LET bytes == p.src \o p.dst \o Layout(p.variant) \o Flags(p.variant) \o AfterHeader(p.variant)
  IN  [crc |-> bytes, bytes |-> bytes]

-----------------------------------------------------------------------------
Ok(packet) == [ok |-> packet]
Err(error) == [err |-> error]

(* The kinds a pair of frag_id and frag_total stands for: one or none.     *)
Kinds(layout) ==
  {v \in ControlVariants : IsControl(layout, v)}
  \cup (IF IsFragment(layout) THEN {"Fragment"} ELSE {})

(* What was read of a kind.                                                *)
Read(kind, layout, flags, data) ==
  CASE kind = "Fragment" ->
         [kind |-> kind, seqId |-> ReadU32(SubSeq(data, 1, 4)), fragId |-> layout[1],
          fragTotal |-> layout[2], flags |-> flags, data |-> SubSeq(data, 5, Len(data))]
    [] kind = "Ack" ->
         [kind |-> kind, seqId |-> ReadU32(SubSeq(data, 1, 4)),
          slice |-> SubSeq(data, 5, Len(data))]
    [] kind \in {"Syn", "SynAck"} -> [kind |-> kind, pubKey |-> SubSeq(data, 1, 32)]
    [] kind \in {"End", "Abort"} ->
         [kind |-> kind, lastSeqId |-> ReadU32(SubSeq(data, 1, 4))]
    [] kind = "Heartbeat" -> [kind |-> kind]

(* The rest of attempt_from_bytes for a datagram that is not damaged.      *)
Understood(bytes) ==
  LET layout == <<bytes[9], bytes[10]>>
      data   == SubSeq(bytes, PacketCommonHeaderSize + 1, Len(bytes))
      kind   == CHOOSE k \in Kinds(layout) : TRUE
  IN  IF Kinds(layout) = {} THEN Err("InvalidFragLayout")
      ELSE IF Len(data) < SizeAfterHeader[kind] THEN Err("NotBigEnough")
      ELSE Ok([src |-> SubSeq(bytes, 1, 4), dst |-> SubSeq(bytes, 5, 8),
               variant |-> Read(kind, layout, ReadU16(<<bytes[11], bytes[12]>>), data)])

AttemptFromBytes(d) ==
  IF Len(d.bytes) < PacketCommonHeaderSize THEN Err("NotBigEnough")
  ELSE IF d.crc # d.bytes THEN Err("InvalidCrc")
  ELSE Understood(d.bytes)
=============================================================================
