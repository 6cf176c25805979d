-------------------------- MODULE WireFormatProofs --------------------------
(***************************************************************************)
(* What is written is read back, for both protocols.  A datagram of rudp   *)
(* is either refused or a packet that could have been written: for every   *)
(* packet, every content and every datagram (PacketBytes).  The stream of  *)
(* tcp is read as the messages that were written, for all messages and     *)
(* however it is cut (Ingester).                                           *)
(***************************************************************************)
EXTENDS PacketBytes, Ingester, SelectionsProofs

-----------------------------------------------------------------------------
(* Datagrams.                                                              *)

(* The kinds of packets that are not fragments.                            *)
LEMMA Controls == ControlVariants = {"Ack", "Syn", "SynAck", "End", "Abort", "Heartbeat"}
BY DEF ControlVariants, FragTotalOf

(* How many bytes a kind of packet needs.                                  *)
LEMMA Sizes ==
  ASSUME NEW k \in ControlVariants \cup {"Fragment"}
  PROVE  SizeAfterHeader[k] \in Nat /\ SizeAfterHeader[k] <= 32
BY Controls DEF SizeAfterHeader

(* The kinds of packets.                                                   *)
LEMMA KindsOfVariants ==
  ASSUME NEW v \in PacketVariant
  PROVE  v.kind \in ControlVariants \cup {"Fragment"}
BY Controls DEF PacketVariant

(* Arrays are sequences of their length.                                   *)
LEMMA Arrays ==
  ASSUME NEW S, NEW n \in Nat, NEW s \in [1 .. n -> S]
  PROVE  s \in Seq(S) /\ Len(s) = n
OBVIOUS

(* Where the elements of the parts of a packet are in all of it.           *)
Places(S, s, t, l, f, d) ==
  LET all == s \o t \o l \o f \o d
  IN  /\ all \in Seq(S) /\ Len(all) = 12 + Len(d)
      /\ \A i \in 1 .. 4 : all[i] = s[i] /\ all[4 + i] = t[i]
      /\ \A i \in 1 .. 2 : all[8 + i] = l[i] /\ all[10 + i] = f[i]
      /\ \A i \in 1 .. Len(d) : all[12 + i] = d[i]

(* They are there whatever the parts contain.                              *)
LEMMA Joined ==
  ASSUME NEW S, NEW s \in Seq(S), NEW t \in Seq(S), NEW l \in Seq(S), NEW f \in Seq(S),
         NEW d \in Seq(S), Len(s) = 4, Len(t) = 4, Len(l) = 2, Len(f) = 2
  PROVE  Places(S, s, t, l, f, d)
<1> DEFINE st == s \o t
           stl == st \o l
           stlf == stl \o f
           all == stlf \o d
<1>1. /\ st \in Seq(S) /\ Len(st) = Len(s) + Len(t)
      /\ \A i \in 1 .. Len(s) + Len(t) : st[i] = IF i <= Len(s) THEN s[i] ELSE t[i - Len(s)]
  BY ConcatProperties, Zenon
<1> HIDE DEF st
<1>2. /\ stl \in Seq(S) /\ Len(stl) = Len(st) + Len(l)
      /\ \A i \in 1 .. Len(st) + Len(l) :
           stl[i] = IF i <= Len(st) THEN st[i] ELSE l[i - Len(st)]
  <2>1. st \in Seq(S)
    BY <1>1
  <2> QED BY <2>1, ConcatProperties, Zenon
<1> HIDE DEF stl
<1>3. /\ stlf \in Seq(S) /\ Len(stlf) = Len(stl) + Len(f)
      /\ \A i \in 1 .. Len(stl) + Len(f) :
           stlf[i] = IF i <= Len(stl) THEN stl[i] ELSE f[i - Len(stl)]
  <2>1. stl \in Seq(S)
    BY <1>2
  <2> QED BY <2>1, ConcatProperties, Zenon
<1> HIDE DEF stlf
<1>4. /\ all \in Seq(S) /\ Len(all) = Len(stlf) + Len(d)
      /\ \A i \in 1 .. Len(stlf) + Len(d) :
           all[i] = IF i <= Len(stlf) THEN stlf[i] ELSE d[i - Len(stlf)]
  <2>1. stlf \in Seq(S)
    BY <1>3
  <2> QED BY <2>1, ConcatProperties, Zenon
<1> HIDE DEF all
<1>5. Len(st) = 8 /\ Len(stl) = 10 /\ Len(stlf) = 12 /\ Len(d) \in Nat
  BY <1>1, <1>2, <1>3, LenProperties
<1>6. \A i \in 1 .. 4 : st[i] = s[i] /\ st[4 + i] = t[i]
  BY <1>1
<1>7. \A i \in 1 .. 12 : all[i] = IF i <= 8 THEN st[i] ELSE IF i <= 10 THEN l[i - 8] ELSE f[i - 10]
  <2>1. \A i \in 1 .. 12 : all[i] = stlf[i]
    BY <1>4, <1>5
  <2>2. \A i \in 1 .. 12 : stlf[i] = IF i <= 10 THEN stl[i] ELSE f[i - 10]
    BY <1>3, <1>5
  <2>3. \A i \in 1 .. 10 : stl[i] = IF i <= 8 THEN st[i] ELSE l[i - 8]
    BY <1>2, <1>5
  <2> QED BY <2>1, <2>2, <2>3
<1>8. \A i \in 1 .. 4 : all[i] = s[i] /\ all[4 + i] = t[i]
  BY <1>6, <1>7
<1>9. \A i \in 1 .. 2 : all[8 + i] = l[i] /\ all[10 + i] = f[i]
  BY <1>7
<1>10. \A i \in 1 .. Len(d) : all[12 + i] = d[i]
  BY <1>4, <1>5
<1> QED
  BY <1>4, <1>5, <1>8, <1>9, <1>10 DEF Places, all, stlf, stl, st

(* A sequence of which another is the part from m on.                      *)
LEMMA Slice ==
  ASSUME NEW S, NEW s \in Seq(S), NEW t \in Seq(S), NEW m \in Nat \ {0}, NEW n \in Nat,
         n = m + Len(t) - 1, n <= Len(s),
         \A i \in 1 .. Len(t) : s[m + i - 1] = t[i]
  PROVE  SubSeq(s, m, n) = t
<1>1. \A i \in m .. n : s[i] \in S
  <2>1. \A i \in 1 .. Len(s) : s[i] \in S
    BY ElementOfSeq
  <2> QED BY <2>1, LenProperties
<1>2. Len(t) \in Nat
  BY LenProperties
<1>3. /\ SubSeq(s, m, n) \in Seq(S)
      /\ Len(SubSeq(s, m, n)) = IF m <= n THEN n - m + 1 ELSE 0
      /\ \A i \in 1 .. n - m + 1 : SubSeq(s, m, n)[i] = s[m + i - 1]
  BY <1>1, SubSeqProperties
<1>4. Len(SubSeq(s, m, n)) = Len(t)
  BY <1>2, <1>3
<1>5. \A i \in 1 .. Len(t) : SubSeq(s, m, n)[i] = t[i]
  BY <1>2, <1>3
<1> QED
  BY <1>3, <1>4, <1>5, SeqEqual

(* Numbers are read as they were written.                                  *)
LEMMA U16ReadBack ==
  ASSUME NEW n \in U16
  PROVE  /\ WriteU16(n) \in Seq(Byte) /\ Len(WriteU16(n)) = 2
         /\ ReadU16(WriteU16(n)) = n
<1>1. n \div 256 \in Byte /\ n % 256 \in Byte /\ n = ((n \div 256) * 256) + (n % 256)
  BY SMT DEF U16, Byte, MaxByte
<1> QED
  BY <1>1, SMT DEF WriteU16, ReadU16

(* A u32 is written as two u16.                                           *)
LEMMA U32ReadBack ==
  ASSUME NEW n \in U32
  PROVE  /\ WriteU32(n) \in Seq(Byte) /\ Len(WriteU32(n)) = 4
         /\ ReadU32(WriteU32(n)) = n
<1> DEFINE hi == n \div 65536
           lo == n % 65536
<1>1. hi \in U16 /\ lo \in U16 /\ n = (hi * 65536) + lo
  <2>1. n \in Nat /\ n < 65536 * 65536
    BY SMT DEF U32
  <2>2. hi \in Nat /\ lo \in Nat /\ lo < 65536 /\ n = (hi * 65536) + lo
    BY <2>1, SMT
  <2>3. hi < 65536
    BY <2>1, <2>2, SMT
  <2> QED BY <2>2, <2>3, SMT DEF U16
<1> HIDE DEF hi, lo
<1>2. \A k \in U16 : /\ WriteU16(k) \in Seq(Byte) /\ Len(WriteU16(k)) = 2
                     /\ ReadU16(WriteU16(k)) = k
  BY U16ReadBack
<1>3. /\ WriteU32(n) \in Seq(Byte) /\ Len(WriteU32(n)) = 4
      /\ \A i \in 1 .. 4 : WriteU32(n)[i] = IF i <= 2 THEN WriteU16(hi)[i] ELSE WriteU16(lo)[i - 2]
  BY <1>1, <1>2, ConcatProperties DEF WriteU32, hi, lo
<1>4. \A k \in U16 : <<WriteU16(k)[1], WriteU16(k)[2]>> = WriteU16(k)
  BY DEF WriteU16
<1>5. /\ <<WriteU32(n)[1], WriteU32(n)[2]>> = WriteU16(hi)
      /\ <<WriteU32(n)[3], WriteU32(n)[4]>> = WriteU16(lo)
  BY <1>1, <1>3, <1>4
<1>6. /\ ReadU16(<<WriteU32(n)[1], WriteU32(n)[2]>>) = hi
      /\ ReadU16(<<WriteU32(n)[3], WriteU32(n)[4]>>) = lo
  <2>1. ReadU16(WriteU16(hi)) = hi /\ ReadU16(WriteU16(lo)) = lo
    BY <1>1, <1>2
  <2> QED BY <1>5, <2>1
<1>7. ReadU32(WriteU32(n)) = hi * 65536 + lo
  BY <1>6, SMT DEF ReadU32
<1> QED
  BY <1>1, <1>3, <1>7, SMT

-----------------------------------------------------------------------------
(* The six reserved pairs are told apart, and no fragment has one of them, *)
(* not even the last one of a message of 256.                              *)
LEMMA KindsOfControls ==
  ASSUME NEW k \in ControlVariants
  PROVE  Kinds(ControlLayout(k)) = {k}
<1>1. \A u, v \in ControlVariants : FragTotalOf[u] = FragTotalOf[v] => u = v
  BY Controls DEF FragTotalOf
<1>2. {v \in ControlVariants : IsControl(ControlLayout(k), v)} = {k}
  BY <1>1 DEF IsControl, ControlLayout
<1>3. ~ IsFragment(ControlLayout(k))
  BY DEF IsFragment, IsControl
<1> QED
  BY <1>2, <1>3 DEF Kinds

(* The pair of a fragment stands for a fragment and nothing else.          *)
LEMMA KindsOfFragments ==
  ASSUME NEW i \in Byte, NEW t \in Byte, i <= t
  PROVE  Kinds(FragmentLayout(i, t)) = {"Fragment"}
<1>1. \A v \in ControlVariants : FragTotalOf[v] \in Nat /\ FragTotalOf[v] < MaxByte
  BY Controls DEF FragTotalOf, MaxByte
<1>2. \A v \in ControlVariants : ~ IsControl(FragmentLayout(i, t), v)
  <2> SUFFICES ASSUME NEW v \in ControlVariants, i = MaxByte, t = FragTotalOf[v]
      PROVE FALSE
    BY DEF IsControl, FragmentLayout, ControlLayout
  <2> QED BY <1>1 DEF MaxByte
<1>3. IsFragment(FragmentLayout(i, t))
  BY <1>2 DEF IsFragment, FragmentLayout
<1> QED
  BY <1>2, <1>3 DEF Kinds

(* What is written of a variant, and what it is read as.                   *)
Written(v) ==
  /\ Layout(v) \in Seq(Byte) /\ Len(Layout(v)) = 2
  /\ Flags(v) \in Seq(Byte) /\ Len(Flags(v)) = 2
  /\ AfterHeader(v) \in Seq(Byte)
  /\ Len(AfterHeader(v)) >= SizeAfterHeader[v.kind]
  /\ Kinds(Layout(v)) = {v.kind}
  /\ Read(v.kind, Layout(v), ReadU16(Flags(v)), AfterHeader(v)) = v
  /\ UdpPacketSize(v) = PacketCrc32Size + PacketCommonHeaderSize + Len(AfterHeader(v))

(* A sequence id, and what follows it.                                     *)
LEMMA NumberThenData ==
  ASSUME NEW n \in U32, NEW data \in Seq(Byte)
  PROVE  LET b == WriteU32(n) \o data
         IN  /\ b \in Seq(Byte) /\ Len(b) = 4 + Len(data)
             /\ ReadU32(SubSeq(b, 1, 4)) = n
             /\ SubSeq(b, 5, Len(b)) = data
<1> DEFINE b == WriteU32(n) \o data
<1>1. WriteU32(n) \in Seq(Byte) /\ Len(WriteU32(n)) = 4 /\ ReadU32(WriteU32(n)) = n
  BY U32ReadBack
<1>2. Len(data) \in Nat
  BY LenProperties
<1>3. /\ b \in Seq(Byte) /\ Len(b) = 4 + Len(data)
      /\ \A i \in 1 .. 4 + Len(data) :
           b[i] = IF i <= 4 THEN WriteU32(n)[i] ELSE data[i - 4]
  <2>1. /\ b \in Seq(Byte) /\ Len(b) = Len(WriteU32(n)) + Len(data)
        /\ \A i \in 1 .. Len(WriteU32(n)) + Len(data) :
             b[i] = IF i <= Len(WriteU32(n)) THEN WriteU32(n)[i] ELSE data[i - Len(WriteU32(n))]
    BY <1>1, ConcatProperties, Zenon
  <2> HIDE DEF b
  <2> QED BY <1>1, <2>1
<1> HIDE DEF b
<1>4. SubSeq(b, 1, 4) = WriteU32(n)
  BY <1>1, <1>2, <1>3, Slice
<1>5. SubSeq(b, 5, Len(b)) = data
  <2>1. \A i \in 1 .. Len(data) : b[5 + i - 1] = data[i]
    BY <1>2, <1>3
  <2> QED BY <1>2, <1>3, <2>1, Slice
<1> QED
  BY <1>1, <1>3, <1>4, <1>5 DEF b

(* A fragment is written so that it is read back.                          *)
LEMMA FragmentIsWritten ==
  ASSUME NEW v \in PacketVariant, v.kind = "Fragment"
  PROVE  Written(v)
<1>1. /\ v \in [kind : {"Fragment"}, seqId : U32, fragId : Byte, fragTotal : Byte,
                flags : U16, data : Seq(Byte)]
      /\ v.fragId <= v.fragTotal
  BY DEF PacketVariant
<1>2. Layout(v) = FragmentLayout(v.fragId, v.fragTotal) /\ Flags(v) = WriteU16(v.flags)
  BY DEF Layout, Flags
<1>3. Layout(v) \in Seq(Byte) /\ Len(Layout(v)) = 2
  BY <1>1, <1>2 DEF FragmentLayout
<1>4. Flags(v) \in Seq(Byte) /\ Len(Flags(v)) = 2 /\ ReadU16(Flags(v)) = v.flags
  BY <1>1, <1>2, U16ReadBack
<1>5. AfterHeader(v) = WriteU32(v.seqId) \o v.data
  BY DEF AfterHeader
<1>6. /\ AfterHeader(v) \in Seq(Byte) /\ Len(AfterHeader(v)) = 4 + Len(v.data)
      /\ ReadU32(SubSeq(AfterHeader(v), 1, 4)) = v.seqId
      /\ SubSeq(AfterHeader(v), 5, Len(AfterHeader(v))) = v.data
  BY <1>1, <1>5, NumberThenData
<1>7. Kinds(Layout(v)) = {v.kind}
  BY <1>1, <1>2, KindsOfFragments
<1>8. Read(v.kind, Layout(v), ReadU16(Flags(v)), AfterHeader(v)) = v
  <2>1. Layout(v)[1] = v.fragId /\ Layout(v)[2] = v.fragTotal
    BY <1>2 DEF FragmentLayout
  <2> QED BY <1>1, <1>4, <1>6, <2>1 DEF Read
<1>9. Len(v.data) \in Nat /\ SizeAfterHeader[v.kind] = 4
  BY <1>1, LenProperties DEF SizeAfterHeader
<1> QED
  BY <1>3, <1>4, <1>6, <1>7, <1>8, <1>9
  DEF Written, UdpPacketSize, PacketCrc32Size, PacketCommonHeaderSize

(* And so is every other packet.                                           *)
LEMMA ControlIsWritten ==
  ASSUME NEW v \in PacketVariant, v.kind # "Fragment"
  PROVE  Written(v)
<1>1. v.kind \in ControlVariants
  BY Controls DEF PacketVariant
<1>2. Layout(v) = ControlLayout(v.kind) /\ Flags(v) = <<0, 0>>
  BY DEF Layout, Flags
<1>3. Layout(v) \in Seq(Byte) /\ Len(Layout(v)) = 2
  BY <1>1, <1>2, Controls DEF ControlLayout, FragTotalOf, Byte, MaxByte
<1>4. Flags(v) \in Seq(Byte) /\ Len(Flags(v)) = 2
  BY <1>2 DEF Byte, MaxByte
<1>5. Kinds(Layout(v)) = {v.kind}
  BY <1>1, <1>2, KindsOfControls
<1> DEFINE size == SizeAfterHeader[v.kind]
           data == AfterHeader(v)
           more == IF v.kind = "Ack" THEN Len(v.slice) ELSE 0
<1>6. /\ data \in Seq(Byte) /\ size \in Nat /\ more \in Nat /\ Len(data) = size + more
      /\ Read(v.kind, Layout(v), ReadU16(Flags(v)), data) = v
  <2>1. CASE v \in [kind : {"Ack"}, seqId : U32, slice : Seq(Byte)]
    <3>1. data = WriteU32(v.seqId) \o v.slice
      BY <2>1 DEF AfterHeader
    <3>2. /\ data \in Seq(Byte) /\ Len(data) = 4 + Len(v.slice)
          /\ ReadU32(SubSeq(data, 1, 4)) = v.seqId
          /\ SubSeq(data, 5, Len(data)) = v.slice
      BY <2>1, <3>1, NumberThenData
    <3>3. Len(v.slice) \in Nat /\ size = 4 /\ more = Len(v.slice)
      BY <2>1, LenProperties DEF SizeAfterHeader
    <3>4. Read(v.kind, Layout(v), ReadU16(Flags(v)), data) = v
      BY <2>1, <3>2 DEF Read
    <3> QED BY <3>2, <3>3, <3>4
  <2>2. CASE v \in [kind : {"Syn", "SynAck"}, pubKey : PubKey]
    <3>1. data = v.pubKey /\ data \in Seq(Byte) /\ Len(data) = 32
      <4>1. v.pubKey \in [1 .. 32 -> Byte]
        BY <2>2 DEF PubKey
      <4>2. \A k : \A n \in Nat : k \in [1 .. n -> Byte] => k \in Seq(Byte) /\ Len(k) = n
        BY Arrays
      <4>3. 32 \in Nat
        OBVIOUS
      <4>4. v.pubKey \in Seq(Byte) /\ Len(v.pubKey) = 32
        BY <4>1, <4>2, <4>3, Zenon
      <4>5. data = v.pubKey
        BY <2>2 DEF AfterHeader
      <4> QED BY <4>4, <4>5
    <3>2. size = 32 /\ more = 0
      BY <2>2 DEF SizeAfterHeader
    <3>3. SubSeq(data, 1, 32) = data
      BY <3>1, SubSeqFull
    <3>4. Read(v.kind, Layout(v), ReadU16(Flags(v)), data) = v
      BY <2>2, <3>1, <3>3 DEF Read
    <3> QED BY <3>1, <3>2, <3>4
  <2>3. CASE v \in [kind : {"End", "Abort"}, lastSeqId : U32]
    <3>1. data = WriteU32(v.lastSeqId)
      BY <2>3 DEF AfterHeader
    <3>2. data \in Seq(Byte) /\ Len(data) = 4 /\ ReadU32(data) = v.lastSeqId
      BY <2>3, <3>1, U32ReadBack
    <3>3. size = 4 /\ more = 0
      BY <2>3 DEF SizeAfterHeader
    <3>4. SubSeq(data, 1, 4) = data
      BY <3>2, SubSeqFull
    <3>5. Read(v.kind, Layout(v), ReadU16(Flags(v)), data) = v
      BY <2>3, <3>2, <3>4 DEF Read
    <3> QED BY <3>2, <3>3, <3>5
  <2>4. CASE v \in [kind : {"Heartbeat"}]
    BY <2>4 DEF AfterHeader, SizeAfterHeader, Read
  <2> QED BY <2>1, <2>2, <2>3, <2>4 DEF PacketVariant
<1>7. UdpPacketSize(v) = PacketCrc32Size + PacketCommonHeaderSize + Len(data)
  BY <1>6 DEF UdpPacketSize, PacketCrc32Size, PacketCommonHeaderSize
<1> QED
  BY <1>3, <1>4, <1>5, <1>6, <1>7 DEF Written

-----------------------------------------------------------------------------
(* Where the parts of a packet are in its bytes.                           *)
LEMMA BytesOfPacket ==
  ASSUME NEW p \in Packet
  PROVE  LET b == ToBytes(p).bytes
             v == p.variant
         IN  /\ b \in Seq(Byte) /\ Len(b) = 12 + Len(AfterHeader(v))
             /\ SubSeq(b, 1, 4) = p.src /\ SubSeq(b, 5, 8) = p.dst
             /\ <<b[9], b[10]>> = Layout(v) /\ <<b[11], b[12]>> = Flags(v)
             /\ SubSeq(b, 13, Len(b)) = AfterHeader(v)
             /\ Written(v)
<1> DEFINE v == p.variant
           l == Layout(v)
           f == Flags(v)
           a == AfterHeader(v)
           b == ToBytes(p).bytes
<1>1. Written(v)
  BY FragmentIsWritten, ControlIsWritten DEF Packet
<1>2. /\ p.src \in Seq(Byte) /\ Len(p.src) = 4
      /\ p.dst \in Seq(Byte) /\ Len(p.dst) = 4
  <2>1. p.src \in [1 .. 4 -> Byte] /\ p.dst \in [1 .. 4 -> Byte]
    BY DEF Packet, Identity
  <2> QED BY <2>1, Arrays
<1>3. /\ l \in Seq(Byte) /\ Len(l) = 2 /\ f \in Seq(Byte) /\ Len(f) = 2
      /\ a \in Seq(Byte) /\ Len(a) \in Nat
  BY <1>1, LenProperties DEF Written
<1>4. b = p.src \o p.dst \o l \o f \o a
  BY DEF ToBytes
<1> HIDE DEF l, f, a, b
<1>5. /\ b \in Seq(Byte) /\ Len(b) = 12 + Len(a)
      /\ \A i \in 1 .. Len(a) : b[12 + i] = a[i]
      /\ \A i \in 1 .. 4 : b[i] = p.src[i] /\ b[4 + i] = p.dst[i]
      /\ \A i \in 1 .. 2 : b[8 + i] = l[i] /\ b[10 + i] = f[i]
  <2>1. Places(Byte, p.src, p.dst, l, f, a)
    BY <1>2, <1>3, Joined
  <2> QED BY <1>4, <2>1 DEF Places
<1>6. /\ \A i \in 1 .. 4 : b[i] = p.src[i] /\ b[4 + i] = p.dst[i]
      /\ b[9] = l[1] /\ b[10] = l[2] /\ b[11] = f[1] /\ b[12] = f[2]
  <2>1. b[8 + 1] = l[1] /\ b[8 + 2] = l[2] /\ b[10 + 1] = f[1] /\ b[10 + 2] = f[2]
    BY <1>5
  <2> QED BY <1>5, <2>1
<1>7. SubSeq(b, 1, 4) = p.src
  <2>1. ASSUME NEW i \in 1 .. Len(p.src) PROVE b[1 + i - 1] = p.src[i]
    <3>1. i \in 1 .. 4 /\ 1 + i - 1 = i
      BY <1>2
    <3>2. b[i] = p.src[i]
      BY <1>6, <3>1
    <3> QED BY <3>1, <3>2
  <2>2. 4 <= Len(b) /\ 8 <= Len(b)
    BY <1>3, <1>5
  <2> QED BY <1>2, <1>5, <2>1, <2>2, Slice
<1>8. SubSeq(b, 5, 8) = p.dst
  <2>1. ASSUME NEW i \in 1 .. Len(p.dst) PROVE b[5 + i - 1] = p.dst[i]
    <3>1. i \in 1 .. 4 /\ 5 + i - 1 = 4 + i
      BY <1>2
    <3>2. b[4 + i] = p.dst[i]
      BY <1>6, <3>1
    <3> QED BY <3>1, <3>2
  <2>2. 4 <= Len(b) /\ 8 <= Len(b)
    BY <1>3, <1>5
  <2> QED BY <1>2, <1>5, <2>1, <2>2, Slice
<1>9. SubSeq(b, 13, Len(b)) = a
  <2>1. \A i \in 1 .. Len(a) : b[13 + i - 1] = a[i]
    BY <1>3, <1>5
  <2> QED BY <1>3, <1>5, <2>1, Slice
<1>10. <<b[9], b[10]>> = l /\ <<b[11], b[12]>> = f
  BY <1>3, <1>6
<1> QED
  BY <1>1, <1>5, <1>7, <1>8, <1>9, <1>10 DEF l, f, a, b

-----------------------------------------------------------------------------
(* The theorems.                                                           *)

(* attempt_from_bytes reads every packet to_bytes writes as that packet:   *)
(* of every variant, with any identities and contents, and the last of 256 *)
(* fragments too, whose frag_id is the 255 of the reserved pairs.          *)
THEOREM ReadsWhatWasWritten ==
  \A p \in Packet : AttemptFromBytes(ToBytes(p)) = Ok(p)
<1> SUFFICES ASSUME NEW p \in Packet
    PROVE AttemptFromBytes(ToBytes(p)) = Ok(p)
  OBVIOUS
<1> DEFINE b == ToBytes(p).bytes
           v == p.variant
<1>1. /\ Len(b) = 12 + Len(AfterHeader(v)) /\ Len(AfterHeader(v)) \in Nat
      /\ SubSeq(b, 1, 4) = p.src /\ SubSeq(b, 5, 8) = p.dst
      /\ <<b[9], b[10]>> = Layout(v) /\ <<b[11], b[12]>> = Flags(v)
      /\ SubSeq(b, 13, Len(b)) = AfterHeader(v)
      /\ Written(v)
  BY BytesOfPacket, LenProperties DEF Written
<1>2. ToBytes(p).crc = b
  BY DEF ToBytes
<1> DEFINE layout == <<b[9], b[10]>>
           flags  == ReadU16(<<b[11], b[12]>>)
           data   == SubSeq(b, PacketCommonHeaderSize + 1, Len(b))
           kind   == CHOOSE k \in Kinds(layout) : TRUE
<1>3. Understood(b) =
        IF Kinds(layout) = {} THEN Err("InvalidFragLayout")
        ELSE IF Len(data) < SizeAfterHeader[kind] THEN Err("NotBigEnough")
        ELSE Ok([src |-> SubSeq(b, 1, 4), dst |-> SubSeq(b, 5, 8),
                 variant |-> Read(kind, layout, flags, data)])
  BY DEF Understood
<1> HIDE DEF b
<1>4. layout = Layout(v) /\ flags = ReadU16(Flags(v)) /\ data = AfterHeader(v)
  <2>1. PacketCommonHeaderSize + 1 = 13
    BY DEF PacketCommonHeaderSize
  <2>2. data = AfterHeader(v)
    BY <1>1, <2>1
  <2>3. layout = Layout(v)
    BY <1>1
  <2>4. flags = ReadU16(Flags(v))
    BY <1>1
  <2> QED BY <2>2, <2>3, <2>4
<1>5. Kinds(layout) = {v.kind}
  BY <1>1, <1>4 DEF Written
<1> HIDE DEF layout, flags, data
<1>6. kind = v.kind
  BY <1>5
<1> HIDE DEF kind
<1>7. ~ Len(data) < SizeAfterHeader[kind]
  <2>1. SizeAfterHeader[v.kind] \in Nat
    BY KindsOfVariants, Sizes DEF Packet
  <2> QED BY <1>1, <1>4, <1>6, <2>1 DEF Written
<1>8. Read(kind, layout, flags, data) = v
  BY <1>1, <1>4, <1>6 DEF Written
<1>9. p = [src |-> p.src, dst |-> p.dst, variant |-> v]
  BY DEF Packet
<1>10. Understood(b) = Ok(p)
  BY <1>1, <1>3, <1>5, <1>7, <1>8, <1>9
<1>11. ~ Len(b) < PacketCommonHeaderSize
  BY <1>1 DEF PacketCommonHeaderSize
<1> QED
  BY <1>2, <1>10, <1>11 DEF AttemptFromBytes, b

(* What to_bytes writes has the length udp_packet_size reserves for it, so *)
(* that no copy_from_slice panics; and a fragment of a message, or the Ack *)
(* of one, is never longer than what from_udp_socket receives.             *)
THEOREM PacketsFit ==
  ASSUME NEW p \in Packet
  PROVE  LET v == p.variant
         IN  /\ UdpPacketSize(v) = PacketCrc32Size + Len(ToBytes(p).bytes)
             /\ \/ v.kind = "Fragment" /\ Len(v.data) <= 1152
                \/ v.kind = "Ack" /\ Len(v.slice) <= 32
                \/ v.kind \notin {"Fragment", "Ack"}
                => UdpPacketSize(v) <= MaxRcvUdpDataSize
<1> DEFINE v == p.variant
<1>1. /\ Len(ToBytes(p).bytes) = 12 + Len(AfterHeader(v)) /\ Written(v)
  BY BytesOfPacket
<1>2. UdpPacketSize(v) = PacketCrc32Size + Len(ToBytes(p).bytes)
  <2>1. Len(AfterHeader(v)) \in Nat
    BY <1>1, LenProperties DEF Written
  <2> QED BY <1>1, <2>1 DEF Written, PacketCrc32Size, PacketCommonHeaderSize
<1> DEFINE size == SizeAfterHeader[v.kind]
<1>3. size \in Nat /\ size <= 32
  BY KindsOfVariants, Sizes DEF Packet
<1>4. /\ v.kind = "Fragment" => Len(v.data) \in Nat
      /\ v.kind = "Ack" => Len(v.slice) \in Nat
  BY LenProperties DEF Packet, PacketVariant
<1>5. UdpPacketSize(v) =
        4 + 12 + size + (IF v.kind = "Fragment" THEN Len(v.data)
                           ELSE IF v.kind = "Ack" THEN Len(v.slice) ELSE 0)
  BY DEF UdpPacketSize, PacketCrc32Size, PacketCommonHeaderSize
<1> DEFINE d == Len(v.data)
           a == Len(v.slice)
           total == UdpPacketSize(v)
           fragment == v.kind = "Fragment"
           ack == v.kind = "Ack"
<1> HIDE DEF size, d, a, total
<1>6. ASSUME \/ fragment /\ d <= 1152
             \/ ack /\ a <= 32
             \/ v.kind \notin {"Fragment", "Ack"}
      PROVE  total <= 1400
  <2>1. CASE fragment
    <3>1. total = 16 + size + d /\ d \in Nat /\ d <= 1152
      BY <1>3, <1>4, <1>5, <1>6, <2>1 DEF d, total
    <3> QED BY <1>3, <3>1, SMT
  <2>2. CASE ack
    <3>1. total = 16 + size + a /\ a \in Nat /\ a <= 32
      BY <1>3, <1>4, <1>5, <1>6, <2>2 DEF a, total
    <3> QED BY <1>3, <3>1, SMT
  <2>3. CASE ~ fragment /\ ~ ack
    <3>1. total = 16 + size
      BY <1>3, <1>5, <2>3 DEF total
    <3> QED BY <1>3, <3>1, SMT
  <2> QED BY <2>1, <2>2, <2>3
<1> QED
  BY <1>2, <1>6 DEF MaxRcvUdpDataSize, total, d, a

(* A part of some bytes.                                                   *)
LEMMA PartOfBytes ==
  ASSUME NEW b \in Seq(Byte), NEW m \in Nat \ {0}, NEW n \in Nat, n <= Len(b), m <= n + 1
  PROVE  /\ SubSeq(b, m, n) \in Seq(Byte) /\ Len(SubSeq(b, m, n)) = n - m + 1
         /\ SubSeq(b, m, n) \in [1 .. n - m + 1 -> Byte]
<1>1. \A i \in m .. n : b[i] \in Byte
  <2>1. \A i \in 1 .. Len(b) : b[i] \in Byte
    BY ElementOfSeq
  <2> QED BY <2>1, LenProperties
<1>2. /\ SubSeq(b, m, n) \in Seq(Byte)
      /\ Len(SubSeq(b, m, n)) = IF m <= n THEN n - m + 1 ELSE 0
  BY <1>1, SubSeqProperties
<1>3. Len(SubSeq(b, m, n)) = n - m + 1
  BY <1>2
<1> QED
  BY <1>2, <1>3, LenProperties

(* The first n bytes are an array.                                         *)
LEMMA FirstBytes ==
  ASSUME NEW b \in Seq(Byte), NEW n \in Nat, n <= Len(b)
  PROVE  SubSeq(b, 1, n) \in [1 .. n -> Byte]
<1>1. n - 1 + 1 = n
  OBVIOUS
<1>2. SubSeq(b, 1, n) \in [1 .. n - 1 + 1 -> Byte]
  BY PartOfBytes
<1> QED
  BY <1>1, <1>2

(* Bytes are read as numbers of their width.                               *)
LEMMA U16Read ==
  ASSUME NEW x \in Byte, NEW y \in Byte
  PROVE  ReadU16(<<x, y>>) \in U16
<1>1. (x * 256) + y \in U16
  BY SMT DEF U16, Byte, MaxByte
<1> QED
  BY <1>1 DEF ReadU16

(* A u32 from its four bytes.                                              *)
LEMMA U32Read ==
  ASSUME NEW b \in [1 .. 4 -> Byte]
  PROVE  ReadU32(b) \in U32
<1> DEFINE hi == ReadU16(<<b[1], b[2]>>)
           lo == ReadU16(<<b[3], b[4]>>)
<1>1. hi \in U16 /\ lo \in U16
  BY U16Read
<1>2. ReadU32(b) = (hi * 65536) + lo
  BY SMT DEF ReadU32
<1> HIDE DEF hi, lo
<1>3. (hi * 65536) + lo \in U32
  BY <1>1, SMT DEF U16, U32
<1> QED
  BY <1>2, <1>3

(* Whatever arrives is refused, or read as a packet that could have been   *)
(* written: a fragment that is read lies within its message, and a key,    *)
(* an identity and a number have the bytes they need.                      *)
THEOREM ReadsPacketsOnly ==
  ASSUME NEW d \in Datagram
  PROVE  \/ AttemptFromBytes(d) \in
              {Err("NotBigEnough"), Err("InvalidCrc"), Err("InvalidFragLayout")}
         \/ \E p \in Packet : AttemptFromBytes(d) = Ok(p)
<1> DEFINE b == d.bytes
           layout == <<b[9], b[10]>>
           flags  == ReadU16(<<b[11], b[12]>>)
           data   == SubSeq(b, PacketCommonHeaderSize + 1, Len(b))
           kind   == CHOOSE k \in Kinds(layout) : TRUE
<1>1. b \in Seq(Byte) /\ Len(b) \in Nat
  BY LenProperties DEF Datagram
<1>2. Understood(b) =
        IF Kinds(layout) = {} THEN Err("InvalidFragLayout")
        ELSE IF Len(data) < SizeAfterHeader[kind] THEN Err("NotBigEnough")
        ELSE Ok([src |-> SubSeq(b, 1, 4), dst |-> SubSeq(b, 5, 8),
                 variant |-> Read(kind, layout, flags, data)])
  BY DEF Understood
<1> DEFINE result == [src |-> SubSeq(b, 1, 4), dst |-> SubSeq(b, 5, 8),
                      variant |-> Read(kind, layout, flags, data)]
<1>3. CASE Len(b) < PacketCommonHeaderSize \/ d.crc # b \/ Kinds(layout) = {}
           \/ Len(data) < SizeAfterHeader[kind]
  BY <1>2, <1>3 DEF AttemptFromBytes
<1>4. ASSUME ~ Len(b) < PacketCommonHeaderSize, d.crc = b, Kinds(layout) # {},
             ~ Len(data) < SizeAfterHeader[kind]
      PROVE  AttemptFromBytes(d) = Ok(result)
  BY <1>2, <1>4 DEF AttemptFromBytes
<1> HIDE DEF result
<1> SUFFICES ASSUME ~ Len(b) < PacketCommonHeaderSize, Kinds(layout) # {},
                    ~ Len(data) < SizeAfterHeader[kind]
    PROVE  result \in Packet
  BY <1>3, <1>4
<1>5. Len(b) >= 12
  BY <1>1 DEF PacketCommonHeaderSize
<1> HIDE DEF b
<1>6. \A i \in 1 .. 12 : b[i] \in Byte
  BY <1>1, <1>5, ElementOfSeq
<1>7. layout[1] \in Byte /\ layout[2] \in Byte
  BY <1>6
<1>8. flags \in U16
  BY <1>6, U16Read
<1>9. data \in Seq(Byte) /\ Len(data) \in Nat
  BY <1>1, <1>5, PartOfBytes DEF PacketCommonHeaderSize
<1>10. kind \in Kinds(layout)
  OBVIOUS
<1> HIDE DEF layout, flags, data, kind
<1>11. /\ kind \in ControlVariants \cup {"Fragment"}
       /\ kind = "Fragment" => layout[1] <= layout[2]
  BY <1>10, Controls DEF Kinds, IsFragment
<1>12. Len(data) >= SizeAfterHeader[kind]
  BY <1>9, <1>11, Sizes
<1>13. SubSeq(b, 1, 4) \in Identity /\ SubSeq(b, 5, 8) \in Identity
  <2>1. /\ SubSeq(b, 1, 4) \in [1 .. 4 - 1 + 1 -> Byte]
        /\ SubSeq(b, 5, 8) \in [1 .. 8 - 5 + 1 -> Byte]
    BY <1>1, <1>5, PartOfBytes
  <2>2. 4 - 1 + 1 = 4 /\ 8 - 5 + 1 = 4
    OBVIOUS
  <2> QED BY <2>1, <2>2 DEF Identity
<1>14. ASSUME Len(data) >= 4
       PROVE  /\ ReadU32(SubSeq(data, 1, 4)) \in U32
              /\ SubSeq(data, 5, Len(data)) \in Seq(Byte)
  <2>1. SubSeq(data, 1, 4) \in [1 .. 4 -> Byte]
    BY <1>9, <1>14, FirstBytes
  <2>2. SubSeq(data, 5, Len(data)) \in Seq(Byte)
    BY <1>9, <1>14, PartOfBytes
  <2>3. ReadU32(SubSeq(data, 1, 4)) \in U32
    BY <2>1, U32Read, Zenon
  <2> QED BY <2>2, <2>3
<1>15. Read(kind, layout, flags, data) \in PacketVariant
  <2>1. CASE kind = "Fragment"
    <3>1. Len(data) >= 4
      BY <1>12, <2>1 DEF SizeAfterHeader
    <3> QED BY <1>7, <1>8, <1>11, <1>14, <2>1, <3>1 DEF Read, PacketVariant
  <2>2. CASE kind = "Ack"
    <3>1. Len(data) >= 4
      BY <1>12, <2>2 DEF SizeAfterHeader
    <3> QED BY <1>14, <2>2, <3>1 DEF Read, PacketVariant
  <2>3. CASE kind \in {"Syn", "SynAck"}
    <3>1. Len(data) >= 32
      BY <1>12, <2>3 DEF SizeAfterHeader
    <3>2. 32 \in Nat /\ 32 <= Len(data)
      BY <1>9, <3>1
    <3>3. SubSeq(data, 1, 32) \in PubKey
      BY <1>9, <3>2, FirstBytes, Zenon DEF PubKey
    <3> QED BY <2>3, <3>3 DEF Read, PacketVariant
  <2>4. CASE kind \in {"End", "Abort"}
    <3>1. Len(data) >= 4
      BY <1>12, <2>4 DEF SizeAfterHeader
    <3> QED BY <1>14, <2>4, <3>1 DEF Read, PacketVariant
  <2>5. CASE kind = "Heartbeat"
    BY <2>5 DEF Read, PacketVariant
  <2> QED BY <1>11, <2>1, <2>2, <2>3, <2>4, <2>5, Controls
<1> QED
  BY <1>13, <1>15 DEF Packet, result

-----------------------------------------------------------------------------
(* The bytes of messages.                                                  *)

(* Numbers of four bytes are u32.                                          *)
LEMMA ReadsU32 ==
  ASSUME NEW b \in Seq(Byte), Len(b) = 4
  PROVE  ReadU32(b) \in U32
<1>1. \A i \in 1 .. 4 : b[i] \in Nat /\ b[i] < 256
  <2>1. \A i \in 1 .. 4 : b[i] \in Byte
    BY ElementOfSeq
  <2>2. \A x \in Byte : x \in Nat /\ x < 256
    BY DEF Byte
  <2> QED BY <2>1, <2>2
<1> DEFINE hi == b[1] * 256 + b[2]
           lo == b[3] * 256 + b[4]
<1>2. hi \in Nat /\ hi < 65536 /\ lo \in Nat /\ lo < 65536
  BY <1>1
<1>3. ReadU32(b) = hi * 65536 + lo
  BY <1>1 DEF ReadU32, ReadU16
<1> HIDE DEF hi, lo
<1>4. (hi * 65536 + lo) \div 65536 = hi /\ hi * 65536 + lo \in Nat
  BY <1>2
<1> QED
  BY <1>2, <1>3, <1>4 DEF U32

(* The numbers of a head.                                                  *)
LEMMA NumbersOfHead ==
  /\ \A h \in [1 .. 4 -> Byte] : SeqIdOf(h) \in U32
  /\ \A h \in [1 .. 8 -> Byte] : SeqIdOf(h) \in U32 /\ BodyLen(h) \in U32
<1>1. ASSUME NEW h \in [1 .. 4 -> Byte] PROVE SeqIdOf(h) \in U32
  <2>1. h \in Seq(Byte) /\ Len(h) = 4
    BY Arrays
  <2> QED BY <2>1, ReadsU32 DEF SeqIdOf
<1>2. ASSUME NEW h \in [1 .. 8 -> Byte] PROVE SeqIdOf(h) \in U32 /\ BodyLen(h) \in U32
  <2> DEFINE a == <<h[1], h[2], h[3], h[4]>>
             b == SubSeq(h, 5, 8)
  <2>1. a \in Seq(Byte) /\ Len(a) = 4 /\ ReadU32(h) = ReadU32(a)
    BY DEF ReadU32
  <2>2. b \in Seq(Byte) /\ Len(b) = 4
    BY SubSeqProperties
  <2> HIDE DEF a, b
  <2>3. ReadU32(a) \in U32 /\ ReadU32(b) \in U32
    BY <2>1, <2>2, ReadsU32
  <2> QED BY <2>1, <2>3 DEF SeqIdOf, BodyLen, b
<1> QED
  BY <1>1, <1>2

(* The parts of a message.                                                 *)
LEMMA PartsOfMessage ==
  ASSUME NEW m \in Outgoing
  PROVE  /\ m.id \in {DATA, STATUS, HEARTBEAT} /\ m.id \in Byte
         /\ HeadLen(m.id) \in Nat
         /\ m.head \in [1 .. HeadLen(m.id) -> Byte]
         /\ m.head \in Seq(Byte) /\ Len(m.head) = HeadLen(m.id)
         /\ m.body \in Seq(Byte)
         /\ Len(m.body) = IF m.id = DATA THEN BodyLen(m.head) ELSE 0
<1>1. m.id \in {DATA, STATUS, HEARTBEAT} /\ m.head \in [1 .. HeadLen(m.id) -> Byte]
      /\ m.body \in Seq(Byte) /\ Len(m.body) = IF m.id = DATA THEN BodyLen(m.head) ELSE 0
  BY OutgoingAssumption
<1>2. HeadLen(m.id) \in Nat /\ m.id \in Byte
  BY <1>1 DEF HeadLen, Byte, DATA, STATUS, HEARTBEAT
<1>3. m.head \in Seq(Byte) /\ Len(m.head) = HeadLen(m.id)
  BY <1>1, <1>2
<1> QED
  BY <1>1, <1>2, <1>3

(* An id and a head, which come before the body.                           *)
LEMMA IdAndHead ==
  ASSUME NEW id \in Byte, NEW head \in Seq(Byte)
  PROVE  /\ <<id>> \o head \in Seq(Byte) /\ Len(<<id>> \o head) = 1 + Len(head)
         /\ (<<id>> \o head)[1] = id
         /\ \A i \in 1 .. Len(head) : (<<id>> \o head)[i + 1] = head[i]
<1>1. <<id>> \in Seq(Byte) /\ Len(<<id>>) = 1 /\ <<id>>[1] = id
  OBVIOUS
<1>2. Len(head) \in Nat
  OBVIOUS
<1> DEFINE t == <<id>>
<1> HIDE DEF t
<1>3. /\ t \o head \in Seq(Byte) /\ Len(t \o head) = Len(t) + Len(head)
      /\ \A i \in 1 .. Len(t) + Len(head) :
           (t \o head)[i] = IF i <= Len(t) THEN t[i] ELSE head[i - Len(t)]
  BY <1>1, ConcatProperties DEF t
<1>4. Len(t) = 1 /\ t[1] = id
  BY <1>1 DEF t
<1>5. (t \o head)[1] = id /\ \A i \in 1 .. Len(head) : (t \o head)[i + 1] = head[i]
  BY <1>2, <1>3, <1>4
<1> QED
  BY <1>3, <1>4, <1>5 DEF t

(* The bytes of a message.                                                 *)
LEMMA BytesOfMessage ==
  ASSUME NEW m \in Outgoing
  PROVE  /\ Bytes(m) \in Seq(Byte)
         /\ Len(Bytes(m)) = 1 + HeadLen(m.id) + Len(m.body)
         /\ Bytes(m)[1] = m.id
         /\ \A i \in 1 .. HeadLen(m.id) : Bytes(m)[i + 1] = m.head[i]
<1> DEFINE start == <<m.id>> \o m.head
<1>1. /\ start \in Seq(Byte) /\ Len(start) = 1 + HeadLen(m.id) /\ start[1] = m.id
      /\ \A i \in 1 .. HeadLen(m.id) : start[i + 1] = m.head[i]
  BY PartsOfMessage, IdAndHead
<1>2. HeadLen(m.id) \in Nat /\ m.body \in Seq(Byte) /\ Len(m.body) \in Nat
  BY PartsOfMessage
<1> HIDE DEF start
<1>3. /\ start \o m.body \in Seq(Byte) /\ Len(start \o m.body) = Len(start) + Len(m.body)
      /\ \A i \in 1 .. Len(start) + Len(m.body) :
           (start \o m.body)[i] = IF i <= Len(start) THEN start[i] ELSE m.body[i - Len(start)]
  BY <1>1, <1>2, ConcatProperties, Zenon
<1>4. Bytes(m) = start \o m.body
  BY DEF Bytes, start
<1> QED
  BY <1>1, <1>2, <1>3, <1>4

-----------------------------------------------------------------------------
(* The stream and its parts.                                               *)

(* Of two beginnings of the same bytes the shorter one begins the longer.  *)
LEMMA SameStart ==
  ASSUME NEW a \in Seq(Byte), NEW b \in Seq(Byte), NEW c \in Seq(Byte), NEW d \in Seq(Byte),
         a \o b = c \o d
  PROVE  /\ \A i \in 1 .. Len(a) : i <= Len(c) => a[i] = c[i]
         /\ Len(a) + Len(b) = Len(c) + Len(d)
<1>1. /\ Len(a \o b) = Len(a) + Len(b)
      /\ \A i \in 1 .. Len(a) + Len(b) : (a \o b)[i] = IF i <= Len(a) THEN a[i] ELSE b[i - Len(a)]
  BY ConcatProperties
<1>2. /\ Len(c \o d) = Len(c) + Len(d)
      /\ \A i \in 1 .. Len(c) + Len(d) : (c \o d)[i] = IF i <= Len(c) THEN c[i] ELSE d[i - Len(c)]
  BY ConcatProperties
<1>3. Len(a) \in Nat /\ Len(b) \in Nat /\ Len(c) \in Nat /\ Len(d) \in Nat
  BY LenProperties
<1> DEFINE ab == a \o b
<1> HIDE DEF ab
<1>4. ab = c \o d /\ ab = a \o b
  BY DEF ab
<1> QED
  BY <1>1, <1>2, <1>3, <1>4

(* The longer one continues with what the other beginning leaves.          *)
LEMMA SameRest ==
  ASSUME NEW a \in Seq(Byte), NEW b \in Seq(Byte), NEW c \in Seq(Byte), NEW d \in Seq(Byte),
         a \o b = c \o d, Len(c) <= Len(a)
  PROVE  /\ SubSeq(a, 1, Len(c)) = c
         /\ SubSeq(a, Len(c) + 1, Len(a)) \in Seq(Byte)
         /\ SubSeq(a, Len(c) + 1, Len(a)) \o b = d
<1> DEFINE first == SubSeq(a, 1, Len(c))
           rest  == SubSeq(a, Len(c) + 1, Len(a))
<1>1. Len(a) \in Nat /\ Len(c) \in Nat
  BY LenProperties
<1>2. \A i \in 1 .. Len(c) : a[i] = c[i]
  BY <1>1, SameStart
<1>3. first \in Seq(Byte) /\ Len(first) = Len(c) /\ rest \in Seq(Byte)
  <2>1. Len(c) \in 0 .. Len(a)
    BY <1>1
  <2> QED BY <1>1, <2>1, PartOfBytes
<1>4. first = c
  <2>1. \A i \in 1 .. Len(c) : a[1 + i - 1] = c[i]
    BY <1>1, <1>2
  <2> QED BY <1>1, <2>1, Slice
<1>5. first \o rest = a
  <2>1. 1 \in 1 .. Len(a) + 1 /\ Len(c) \in 1 - 1 .. Len(a) /\ Len(a) \in Len(c) .. Len(a)
    BY <1>1
  <2>2. first \o rest = SubSeq(a, 1, Len(a))
    BY <2>1, ConcatAdjacentSubSeq
  <2> QED BY <2>2, SubSeqFull
<1> HIDE DEF first, rest
<1>6. c \o (rest \o b) = c \o d
  <2>1. (first \o rest) \o b = first \o (rest \o b)
    <3>1. Associates(first, rest, b)
      BY <1>3, ConcatLaws
    <3> QED BY <3>1, Zenon DEF Associates
  <2> QED BY <1>4, <1>5, <2>1, Zenon
<1>7. rest \o b = d
  <2>1. rest \o b \in Seq(Byte)
    BY <1>3, ConcatProperties
  <2> QED BY <1>6, <2>1, ConcatSimplifications
<1> QED
  BY <1>3, <1>4, <1>7 DEF first, rest

(* The bytes of the last messages.                                         *)
LEMMA LastBytes ==
  ASSUME NEW ms \in Seq(Outgoing)
  PROVE  /\ BytesOfLast(0, ms) = <<>>
         /\ \A n \in 1 .. Len(ms) :
              BytesOfLast(n, ms) = Bytes(ms[Len(ms) - n + 1]) \o BytesOfLast(n - 1, ms)
         /\ \A n \in 0 .. Len(ms) : BytesOfLast(n, ms) \in Seq(Byte)
<1> DEFINE V == Seq(Byte)
           N == Len(ms)
           B == [i \in 1 .. N |-> Bytes(ms[N - i + 1])]
           F == [p \in V \X (1 .. N) |-> B[p[2]] \o p[1]]
           Joins(f) == f = [i \in 0 .. N |-> IF i = 0 THEN <<>> ELSE Bytes(ms[N - i + 1]) \o f[i - 1]]
<1>1. N \in Nat /\ <<>> \in V
  BY LenProperties, EmptySeq
<1>2. \A i \in 1 .. N : Bytes(ms[N - i + 1]) \in V
  <2>1. \A i \in 1 .. N : ms[N - i + 1] \in Outgoing
    <3>1. \A i \in 1 .. N : N - i + 1 \in 1 .. N
      BY <1>1
    <3> QED BY <3>1, ElementOfSeq
  <2> QED BY <2>1, BytesOfMessage
<1>3. \A s \in V, i \in 1 .. N : F[<<s, i>>] = Bytes(ms[N - i + 1]) \o s
  OBVIOUS
<1>4. F \in [V \X (1 .. N) -> V]
  <2>1. \A s \in V, t \in V : s \o t \in V
    BY ConcatProperties
  <2> HIDE DEF V
  <2> QED BY <1>2, <2>1
<1> HIDE DEF F, V
<1>5. PICK f \in [0 .. N -> V] : Follows(f, <<>>, N, F)
  BY <1>1, <1>4, StepByStep
<1>6. Joins(f)
  <2>1. f = [i \in 0 .. N |-> f[i]]
    OBVIOUS
  <2>2. \A i \in 0 .. N : f[i] = IF i = 0 THEN <<>> ELSE Bytes(ms[N - i + 1]) \o f[i - 1]
    <3>1. f[0] = <<>> /\ \A i \in 1 .. N : f[i] = F[<<f[i - 1], i>>]
      BY <1>5 DEF Follows
    <3>2. ASSUME NEW i \in 1 .. N PROVE f[i] = Bytes(ms[N - i + 1]) \o f[i - 1]
      <4>1. i - 1 \in 0 .. N
        BY <1>1
      <4>2. f[i - 1] \in V
        BY <4>1
      <4> QED BY <1>3, <3>1, <4>2
    <3>3. \A i \in 0 .. N : i = 0 \/ i \in 1 .. N
      BY <1>1
    <3> QED BY <3>1, <3>2, <3>3, Zenon
  <2> QED BY <2>1, <2>2
<1> DEFINE last == CHOOSE g : Joins(g)
<1>7. Joins(last)
  BY <1>6, Zenon
<1>8. \A n : BytesOfLast(n, ms) = last[n]
  BY Zenon DEF BytesOfLast, last, N
<1> HIDE DEF last
<1>9. last[0] = <<>> /\ \A i \in 1 .. N : last[i] = Bytes(ms[N - i + 1]) \o last[i - 1]
  <2>1. \A i \in 0 .. N : last[i] = IF i = 0 THEN <<>> ELSE Bytes(ms[N - i + 1]) \o last[i - 1]
    BY <1>7, Zenon
  <2>2. 0 \in 0 .. N /\ \A i \in 1 .. N : i \in 0 .. N /\ i # 0
    BY <1>1
  <2> QED BY <2>1, <2>2, Zenon
<1>10. \A n \in 0 .. N : last[n] \in V
  <2> DEFINE T == {n \in Nat : n <= N => last[n] \in V}
  <2>1. 0 \in T
    BY <1>1, <1>9
  <2>2. ASSUME NEW n \in Nat, n \in T PROVE n + 1 \in T
    <3> SUFFICES ASSUME n + 1 <= N PROVE last[n + 1] \in V
      OBVIOUS
    <3>1. n + 1 \in 1 .. N /\ (n + 1) - 1 = n /\ last[n] \in V
      BY <1>1, <2>2
    <3>2. last[n + 1] = Bytes(ms[N - (n + 1) + 1]) \o last[n]
      BY <1>9, <3>1
    <3>3. \A s \in V, t \in V : s \o t \in V
      BY ConcatProperties DEF V
    <3> QED BY <1>2, <3>1, <3>2, <3>3
  <2> HIDE DEF T
  <2>3. \A n \in Nat : n \in T
    BY <2>1, <2>2, AllNumbers
  <2> QED BY <1>1, <2>3 DEF T
<1> QED
  BY <1>8, <1>9, <1>10 DEF V

-----------------------------------------------------------------------------
(* Calls of take_bytes.                                                    *)

(* Of a head some bytes are missing, and of a body that has begun too.     *)
Partial(inc) ==
  /\ inc.kind = "Bytes" => Len(inc.held) < 1 + HeadLen(inc.held[1])
  /\ inc.kind = "Data" => inc.body = <<>> \/ Len(inc.body) < BodyLen(inc.head)

(* What holds between two calls, and after the last: the ingester has left *)
(* to take, and rest has not been read.                                    *)
Keeps(inc, res, left, rest) ==
  /\ IncompleteOK(inc) /\ res \in Seq(Result) /\ left \in Seq(Byte)
  /\ ReportsWritten(res)
  /\ ~ HasFailed(res) =>
       /\ Partial(inc)
       /\ (Held(inc) \o left) \o rest = BytesOfLast(Len(written) - Len(res), written)

KeepsCall(c, rest) == Keeps(c.inc, c.res, c.left, rest)

(* The calls that may follow: one for each byte, and one that ends what is *)
(* awaited and takes no byte, or less than a head.                         *)
CallsLeft(inc, left) ==
  IF left = <<>> THEN 0 ELSE Len(left) + (IF inc = NoBytes THEN 0 ELSE 1)

(* A call brings the end nearer, unless an error has made it useless.      *)
Progresses(c, d) ==
  \/ HasFailed(d.res)
  \/ ~ HasFailed(c.res) /\ CallsLeft(d.inc, d.left) < CallsLeft(c.inc, c.left)

(* What the ingester reports are results.                                  *)
LEMMA Results ==
  /\ \A h \in [1 .. 8 -> Byte], b \in Seq(Byte) :
       Len(b) <= MaxMsgLen => DataResult(h, b) \in Result /\ DataResult(h, b) # Error
  /\ \A h \in [1 .. 4 -> Byte] : SeqIdOk(h) \in Result /\ SeqIdOk(h) # Error
  /\ HeartbeatResult \in Result /\ HeartbeatResult # Error /\ Error \in Result
<1>1. ASSUME NEW h \in [1 .. 8 -> Byte], NEW b \in Seq(Byte), Len(b) <= MaxMsgLen
      PROVE  DataResult(h, b) \in Result /\ DataResult(h, b) # Error
  <2> DEFINE Bodies == {x \in Seq(Byte) : Len(x) <= MaxMsgLen}
  <2>1. SeqIdOf(h) \in U32 /\ b \in Bodies
    BY <1>1, NumbersOfHead
  <2> HIDE DEF Bodies
  <2>2. [kind |-> "Data", seq |-> SeqIdOf(h), body |-> b]
        \in [kind : {"Data"}, seq : U32, body : Bodies]
    BY <2>1
  <2> QED BY <2>2 DEF DataResult, Result, Error, Bodies
<1>2. ASSUME NEW h \in [1 .. 4 -> Byte] PROVE SeqIdOk(h) \in Result /\ SeqIdOk(h) # Error
  <2>1. SeqIdOf(h) \in U32
    BY NumbersOfHead
  <2>2. [kind |-> "SeqIdOk", seq |-> SeqIdOf(h)] \in [kind : {"SeqIdOk"}, seq : U32]
    BY <2>1
  <2> QED BY <2>2 DEF SeqIdOk, Result, Error
<1>3. HeartbeatResult \in Result /\ HeartbeatResult # Error /\ Error \in Result
  <2>1. HeartbeatResult \in [kind : {"Heartbeat", "Error"}] /\ HeartbeatResult # Error
        /\ Error \in [kind : {"Heartbeat", "Error"}]
    BY DEF HeartbeatResult, Error
  <2> QED BY <2>1 DEF Result
<1> QED
  BY <1>1, <1>2, <1>3

(* The ingester holds nothing, a part of a head, or a head and a part of a *)
(* body.                                                                   *)
LEMMA HeldIs ==
  ASSUME NEW inc, IncompleteOK(inc)
  PROVE  /\ Held(inc) \in Seq(Byte)
         /\ inc.kind # "Data" => inc.held \in Seq(Byte) /\ Held(inc) = inc.held
         /\ inc.kind = "Data" =>
              /\ inc.head \in [1 .. 8 -> Byte] /\ inc.body \in Seq(Byte)
              /\ Held(inc) = (<<DATA>> \o inc.head) \o inc.body
              /\ Len(inc.body) <= BodyLen(inc.head) /\ BodyLen(inc.head) <= MaxMsgLen
<1>1. CASE inc = NoBytes
  BY <1>1 DEF NoBytes, Held
<1>2. CASE inc.kind = "Bytes" /\ inc.held \in Seq(Byte)
  BY <1>2 DEF Held
<1>3. CASE inc.kind = "Data" /\ inc.head \in [1 .. 8 -> Byte] /\ inc.body \in Seq(Byte)
           /\ Len(inc.body) <= BodyLen(inc.head) /\ BodyLen(inc.head) <= MaxMsgLen
  <2>1. inc.head \in Seq(Byte) /\ DATA \in Byte
    <3>1. DATA \in Byte
      BY DEF DATA, Byte
    <3> QED BY <1>3, <3>1, Arrays
  <2>2. <<DATA>> \o inc.head \in Seq(Byte)
    BY <2>1, IdAndHead
  <2>3. (<<DATA>> \o inc.head) \o inc.body \in Seq(Byte)
    BY <1>3, <2>2, ConcatProperties
  <2> QED BY <1>3, <2>3, Zenon DEF Held
<1> QED
  BY <1>1, <1>2, <1>3 DEF IncompleteOK

(* A further result keeps what is reported in order.                       *)
LEMMA Reported ==
  ASSUME written \in Seq(Outgoing), NEW res \in Seq(Result), ReportsWritten(res),
         NEW r \in Result,
         ~ HasFailed(res) =>
           /\ Len(res) < Len(written)
           /\ IF r = Error THEN IsOversize(written[Len(res) + 1])
                           ELSE r = ResultOf(written[Len(res) + 1])
  PROVE  /\ Append(res, r) \in Seq(Result) /\ Len(Append(res, r)) = Len(res) + 1
         /\ ReportsWritten(Append(res, r))
         /\ ~ HasFailed(Append(res, r)) => ~ HasFailed(res) /\ r # Error
<1> DEFINE more == Append(res, r)
<1>1. /\ more \in Seq(Result) /\ Len(more) = Len(res) + 1
      /\ \A i \in 1 .. Len(res) : more[i] = res[i]
      /\ more[Len(res) + 1] = r
  BY AppendProperties
<1>2. /\ DOMAIN res = 1 .. Len(res) /\ Len(res) \in Nat /\ DOMAIN more = 1 .. Len(res) + 1
      /\ Len(written) \in Nat
  BY <1>1, LenProperties
<1> HIDE DEF more
<1>3. ASSUME NEW i \in DOMAIN more, \A j \in 1 .. i - 1 : more[j] # Error
      PROVE  /\ i <= Len(written)
             /\ IF more[i] = Error THEN IsOversize(written[i]) ELSE more[i] = ResultOf(written[i])
  <2>1. CASE i \in 1 .. Len(res)
    <3>1. \A j \in 1 .. i - 1 : res[j] # Error
      BY <1>1, <1>2, <1>3, <2>1
    <3> QED BY <1>1, <1>2, <2>1, <3>1 DEF ReportsWritten
  <2>2. CASE i = Len(res) + 1
    <3>1. ~ HasFailed(res)
      <4>1. \A j \in 1 .. Len(res) : res[j] # Error
        BY <1>1, <1>2, <1>3, <2>2
      <4> QED BY <1>2, <4>1 DEF HasFailed
    <3>2. Len(res) + 1 <= Len(written)
      BY <1>2, <3>1
    <3> QED BY <1>1, <2>2, <3>1, <3>2
  <2> QED BY <1>2, <2>1, <2>2
<1>4. ReportsWritten(more)
  BY <1>3, Zenon DEF ReportsWritten
<1>5. ASSUME ~ HasFailed(more) PROVE ~ HasFailed(res) /\ r # Error
  <2>1. \A i \in 1 .. Len(res) + 1 : more[i] # Error
    BY <1>2, <1>5 DEF HasFailed
  <2>2. \A i \in 1 .. Len(res) : res[i] # Error
    BY <1>1, <1>2, <2>1
  <2> QED BY <1>1, <1>2, <2>1, <2>2 DEF HasFailed
<1> QED
  BY <1>1, <1>4, <1>5 DEF more

(* As long as bytes are in the stream there is a message they begin.       *)
LEMMA NextMessage ==
  ASSUME written \in Seq(Outgoing), NEW res \in Seq(Result), ReportsWritten(res),
         ~ HasFailed(res),
         NEW a \in Seq(Byte), NEW b \in Seq(Byte), a # <<>>,
         a \o b = BytesOfLast(Len(written) - Len(res), written)
  PROVE  /\ Len(res) < Len(written) /\ written[Len(res) + 1] \in Outgoing
         /\ BytesOfLast(Len(written) - (Len(res) + 1), written) \in Seq(Byte)
         /\ a \o b = Bytes(written[Len(res) + 1])
                     \o BytesOfLast(Len(written) - (Len(res) + 1), written)
<1> DEFINE N == Len(written)
           k == Len(res)
<1>1. N \in Nat /\ k \in Nat /\ DOMAIN res = 1 .. k
  BY LenProperties
<1>2. k <= N
  <2>1. CASE k = 0
    BY <1>1, <2>1
  <2>2. CASE k # 0
    <3>1. k \in DOMAIN res /\ \A j \in 1 .. k - 1 : res[j] # Error
      <4>1. \A j \in 1 .. k - 1 : j \in DOMAIN res
        BY <1>1
      <4> QED BY <1>1, <2>2, <4>1 DEF HasFailed
    <3> QED BY <3>1, Zenon DEF ReportsWritten
  <2> QED BY <2>1, <2>2
<1>3. k # N
  <2> SUFFICES ASSUME k = N PROVE FALSE
    OBVIOUS
  <2>1. N - k = 0
    BY <1>1
  <2>2. a \o b = <<>>
    BY <2>1, LastBytes
  <2> QED BY <2>2, ConcatEqualIffEmpty
<1>4. k < N /\ N - k \in 1 .. N /\ N - (N - k) + 1 = k + 1 /\ (N - k) - 1 = N - (k + 1)
      /\ N - (k + 1) \in 0 .. N /\ k + 1 \in 1 .. N
  BY <1>1, <1>2, <1>3
<1>5. BytesOfLast(N - k, written)
        = Bytes(written[N - (N - k) + 1]) \o BytesOfLast((N - k) - 1, written)
  BY <1>4, LastBytes
<1>6. written[k + 1] \in Outgoing
  BY <1>4, ElementOfSeq
<1>7. BytesOfLast(N - (k + 1), written) \in Seq(Byte)
  BY <1>4, LastBytes
<1> QED
  BY <1>4, <1>5, <1>6, <1>7

(* Beginnings of the same length are equal, and so is what follows them.   *)
LEMMA EqualStart ==
  ASSUME NEW a \in Seq(Byte), NEW b \in Seq(Byte), NEW c \in Seq(Byte), NEW d \in Seq(Byte),
         a \o b = c \o d, Len(a) = Len(c)
  PROVE  a = c /\ b = d
<1>1. Len(a) \in Nat /\ SubSeq(a, 1, Len(c)) = c
  BY SameRest, LenProperties
<1>2. a = c
  BY <1>1, SubSeqFull
<1> QED
  BY <1>2, ConcatSimplifications

(* An id and a head, then x, are a message and then r.                     *)
Begins(id, head, x, m, r) == (<<id>> \o head) \o x = Bytes(m) \o r

(* An id and a head that begin the stream are those of the next message.   *)
LEMMA SameHead ==
  ASSUME NEW id \in Byte, NEW head \in Seq(Byte), Len(head) = HeadLen(id),
         NEW x \in Seq(Byte), NEW m \in Outgoing, NEW r \in Seq(Byte),
         Begins(id, head, x, m, r)
  PROVE  id = m.id /\ head = m.head /\ x = m.body \o r
<1> DEFINE a == <<id>> \o head
           c == <<m.id>> \o m.head
<1>1. /\ m.id \in Byte /\ m.head \in Seq(Byte) /\ Len(m.head) = HeadLen(m.id)
      /\ m.body \in Seq(Byte)
  BY PartsOfMessage
<1>2. /\ a \in Seq(Byte) /\ Len(a) = 1 + Len(head) /\ a[1] = id
      /\ \A i \in 1 .. Len(head) : a[i + 1] = head[i]
  BY IdAndHead
<1>3. /\ c \in Seq(Byte) /\ Len(c) = 1 + Len(m.head) /\ c[1] = m.id
      /\ \A i \in 1 .. Len(m.head) : c[i + 1] = m.head[i]
  BY <1>1, IdAndHead
<1>4. Bytes(m) = c \o m.body
  BY DEF Bytes
<1> HIDE DEF a, c
<1>5. a \o x = c \o (m.body \o r) /\ m.body \o r \in Seq(Byte)
  <2>1. Associates(c, m.body, r) /\ m.body \o r \in Seq(Byte)
    BY <1>1, <1>3, ConcatLaws
  <2>2. a \o x = (c \o m.body) \o r
    BY <1>4 DEF a, Begins
  <2> QED BY <2>1, <2>2, Zenon DEF Associates
<1>6. id = m.id
  <2>1. Len(head) \in Nat /\ Len(m.head) \in Nat
    BY <1>1, LenProperties
  <2>2. 1 \in 1 .. Len(a) /\ 1 <= Len(c)
    BY <1>2, <1>3, <2>1
  <2>3. a[1] = c[1]
    BY <1>2, <1>3, <1>5, <2>2, SameStart
  <2> QED BY <1>2, <1>3, <2>3
<1>7. Len(a) = Len(c) /\ Len(head) = Len(m.head)
  BY <1>1, <1>2, <1>3, <1>6
<1>8. a = c /\ x = m.body \o r
  <2> DEFINE y == m.body \o r
  <2>1. y \in Seq(Byte) /\ a \o x = c \o y
    BY <1>5
  <2> HIDE DEF y
  <2>2. a = c /\ x = y
    BY <1>2, <1>3, <1>7, <2>1, EqualStart
  <2> QED BY <2>2 DEF y
<1>9. head = m.head
  <2>1. \A i \in 1 .. Len(head) : head[i] = m.head[i]
    BY <1>2, <1>3, <1>7, <1>8
  <2> QED BY <1>1, <1>7, <2>1, SeqEqual, Zenon
<1> QED
  BY <1>6, <1>8, <1>9

(* A piece that is taken from what is left.                                *)
LEMMA Piece ==
  ASSUME NEW left \in Seq(Byte), NEW n \in Nat, n <= Len(left)
  PROVE  /\ SubSeq(left, 1, n) \in Seq(Byte) /\ Len(SubSeq(left, 1, n)) = n
         /\ SubSeq(left, n + 1, Len(left)) \in Seq(Byte)
         /\ Len(SubSeq(left, n + 1, Len(left))) = Len(left) - n
         /\ left = SubSeq(left, 1, n) \o SubSeq(left, n + 1, Len(left))
<1>1. Len(left) \in Nat
  BY LenProperties
<1>2. /\ SubSeq(left, 1, n) \in Seq(Byte) /\ Len(SubSeq(left, 1, n)) = n - 1 + 1
      /\ SubSeq(left, n + 1, Len(left)) \in Seq(Byte)
      /\ Len(SubSeq(left, n + 1, Len(left))) = Len(left) - (n + 1) + 1
  BY <1>1, PartOfBytes
<1>3. SubSeq(left, 1, n) \o SubSeq(left, n + 1, Len(left)) = SubSeq(left, 1, Len(left))
  <2>1. 1 \in 1 .. Len(left) + 1 /\ n \in 1 - 1 .. Len(left) /\ Len(left) \in n .. Len(left)
    BY <1>1
  <2> QED BY <2>1, ConcatAdjacentSubSeq
<1>4. SubSeq(left, 1, Len(left)) = left
  BY SubSeqFull
<1>5. n - 1 + 1 = n /\ Len(left) - (n + 1) + 1 = Len(left) - n
  BY <1>1
<1> QED
  BY <1>2, <1>3, <1>4, <1>5, Zenon

(* What a message is reported as.                                          *)
LEMMA WhatIsReported ==
  ASSUME NEW m
  PROVE  /\ m.id = DATA => ResultOf(m) = DataResult(m.head, m.body)
         /\ m.id = STATUS => ResultOf(m) = SeqIdOk(m.head)
         /\ m.id = HEARTBEAT => ResultOf(m) = HeartbeatResult
<1>1. DATA # STATUS /\ DATA # HEARTBEAT /\ STATUS # HEARTBEAT
  BY DEF DATA, STATUS, HEARTBEAT
<1> QED
  BY <1>1, Zenon DEF ResultOf

(* The lengths of heads, and heads as sequences.                           *)
LEMMA Heads ==
  /\ HeadLen(DATA) = 8 /\ HeadLen(STATUS) = 4 /\ HeadLen(HEARTBEAT) = 0
  /\ DATA \in Byte /\ STATUS \in Byte /\ HEARTBEAT \in Byte
  /\ \A h \in [1 .. 8 -> Byte] : h \in Seq(Byte) /\ Len(h) = 8
<1>1. DATA # STATUS /\ DATA # HEARTBEAT /\ STATUS # HEARTBEAT
  BY DEF DATA, STATUS, HEARTBEAT
<1>2. HeadLen(DATA) = 8 /\ HeadLen(STATUS) = 4 /\ HeadLen(HEARTBEAT) = 0
  BY <1>1, Zenon DEF HeadLen
<1>3. DATA \in Byte /\ STATUS \in Byte /\ HEARTBEAT \in Byte
  BY DEF DATA, STATUS, HEARTBEAT, Byte
<1>4. \A h \in [1 .. 8 -> Byte] : h \in Seq(Byte) /\ Len(h) = 8
  BY Arrays
<1> QED
  BY <1>2, <1>3, <1>4

(* A call that takes bytes of a body.                                      *)
LEMMA TakeBodyKeeps ==
  ASSUME written \in Seq(Outgoing), NEW c, NEW rest \in Seq(Byte), KeepsCall(c, rest),
         c.inc.kind = "Data", c.left # <<>>
  PROVE  KeepsCall(TakeBody(c), rest) /\ Progresses(c, TakeBody(c))
<1> DEFINE head    == c.inc.head
           body    == c.inc.body
           left    == c.left
           missing == BodyLen(head) - Len(body)
           taken   == IF missing < Len(left) THEN missing ELSE Len(left)
           piece   == SubSeq(left, 1, taken)
           later   == SubSeq(left, taken + 1, Len(left))
           full    == body \o piece
           h       == <<DATA>> \o head
           k       == Len(c.res)
           m       == written[k + 1]
           r       == BytesOfLast(Len(written) - (k + 1), written)
           failed  == HasFailed(c.res)
<1>1. IncompleteOK(c.inc) /\ c.left \in Seq(Byte)
      /\ c.res \in Seq(Result) /\ ReportsWritten(c.res)
      /\ (~ failed => (Held(c.inc) \o left) \o rest
                        = BytesOfLast(Len(written) - Len(c.res), written))
  BY DEF KeepsCall, Keeps
<1>2. /\ head \in [1 .. 8 -> Byte] /\ body \in Seq(Byte) /\ left \in Seq(Byte)
      /\ Len(body) <= BodyLen(head) /\ BodyLen(head) <= MaxMsgLen
  BY <1>1, HeldIs, Zenon
<1>3. TakeBody(c) =
        IF taken = missing
          THEN Call(NoBytes, Append(c.res, DataResult(head, full)), later)
          ELSE Call(IncompleteData(head, full), c.res, <<>>)
  BY Zenon DEF TakeBody
<1>4. /\ c.res \in Seq(Result) /\ ReportsWritten(c.res)
      /\ ~ failed => ((h \o body) \o left) \o rest
                       = BytesOfLast(Len(written) - Len(c.res), written)
  <2>1. Held(c.inc) = h \o body
    BY <1>1, HeldIs, Zenon
  <2> QED BY <1>1, <2>1, Zenon
<1> HIDE DEF head, body, left, h, failed, k, missing, taken, piece, later, full, m, r
<1>5. head \in Seq(Byte) /\ Len(head) = 8 /\ DATA \in Byte /\ HeadLen(DATA) = 8
  BY <1>2, Heads, Zenon
<1>6. h \in Seq(Byte) /\ Len(h) = 9
  <2>1. h \in Seq(Byte) /\ Len(h) = 1 + Len(head)
    BY <1>5, IdAndHead, Zenon DEF h
  <2> QED BY <1>5, <2>1
<1>7. BodyLen(head) \in Nat /\ Len(body) \in Nat /\ Len(left) \in Nat /\ MaxMsgLen \in Nat
  <2>1. BodyLen(head) \in U32
    BY <1>2, NumbersOfHead
  <2>2. Len(body) \in Nat /\ Len(left) \in Nat
    BY <1>2, LenProperties
  <2> QED BY <2>1, <2>2, IngesterAssumption DEF U32
<1>8. taken \in Nat /\ taken <= Len(left) /\ taken <= missing
  BY <1>2, <1>7 DEF taken, missing
<1>9. /\ piece \in Seq(Byte) /\ Len(piece) = taken /\ later \in Seq(Byte)
      /\ left = piece \o later /\ Len(later) = Len(left) - taken
  BY <1>2, <1>8, Piece, Zenon DEF piece, later
<1>10. /\ (h \o body) \o left = h \o (body \o left) /\ (h \o body) \o left = (h \o full) \o later
       /\ body \o left = full \o later /\ full \in Seq(Byte) /\ Len(full) = Len(body) + taken
  <2>1. full \in Seq(Byte) /\ Len(full) = Len(body) + Len(piece)
    BY <1>2, <1>9, ConcatProperties, Zenon DEF full
  <2>2. Associates(h, body, left) /\ Associates(body, piece, later) /\ Associates(h, full, later)
    BY <1>2, <1>6, <1>9, <2>1, ConcatLaws, Zenon
  <2> QED BY <1>9, <2>1, <2>2, Zenon DEF Associates, full
<1>11. Len(full) <= BodyLen(head)
  BY <1>7, <1>8, <1>10 DEF missing
<1>12. ASSUME ~ failed
       PROVE  /\ k < Len(written) /\ m \in Outgoing /\ r \in Seq(Byte)
              /\ m.id = DATA /\ m.head = head
              /\ full \o (later \o rest) = m.body \o r
              /\ Len(m.body) = BodyLen(head)
  <2> DEFINE a == (h \o body) \o left
  <2>1. a \in Seq(Byte) /\ a # <<>> /\ a \o rest = BytesOfLast(Len(written) - k, written)
    <3>1. h \o body \in Seq(Byte) /\ Len(h \o body) = Len(h) + Len(body)
      BY <1>2, <1>6, ConcatProperties, Zenon
    <3>2. a \in Seq(Byte) /\ a # <<>>
      <4> DEFINE hb == h \o body
      <4>1. hb \in Seq(Byte) /\ Len(hb) = 9 + Len(body)
        BY <1>6, <3>1
      <4> HIDE DEF hb
      <4>2. hb \o left \in Seq(Byte) /\ Len(hb \o left) = Len(hb) + Len(left)
        BY <1>2, <4>1, ConcatProperties, Zenon
      <4>3. Len(hb \o left) # 0
        BY <1>7, <4>1, <4>2
      <4>4. hb \o left # <<>>
        BY <4>3, EmptySeq, Zenon
      <4> QED BY <4>2, <4>4 DEF a, hb
    <3> QED BY <1>12, <1>4, <3>2, Zenon DEF k
  <2> HIDE DEF a
  <2>2. k < Len(written) /\ m \in Outgoing /\ r \in Seq(Byte) /\ a \o rest = Bytes(m) \o r
    BY <1>12, <1>4, <2>1, NextMessage, Zenon DEF k, m, r, failed
  <2>3. a \o rest = h \o (full \o (later \o rest)) /\ full \o (later \o rest) \in Seq(Byte)
    <3>1. later \o rest \in Seq(Byte) /\ h \o full \in Seq(Byte)
          /\ full \o (later \o rest) \in Seq(Byte)
          /\ Associates(h \o full, later, rest) /\ Associates(h, full, later \o rest)
      <4>1. later \o rest \in Seq(Byte) /\ h \o full \in Seq(Byte)
        BY <1>6, <1>9, <1>10, ConcatProperties
      <4> QED BY <1>6, <1>9, <1>10, <4>1, ConcatLaws
    <3> QED BY <1>10, <3>1, Zenon DEF Associates, a
  <2> DEFINE x == full \o (later \o rest)
  <2>4. (<<DATA>> \o head) \o x = Bytes(m) \o r /\ x \in Seq(Byte)
    BY <2>2, <2>3 DEF h
  <2> HIDE DEF x
  <2>5. DATA = m.id /\ head = m.head /\ x = m.body \o r
    <3>1. Len(head) = HeadLen(DATA)
      BY <1>5
    <3>2. DATA \in Byte /\ head \in Seq(Byte) /\ x \in Seq(Byte)
      BY <1>5, <2>4
    <3>3. m \in Outgoing /\ r \in Seq(Byte)
      BY <2>2
    <3>4. Begins(DATA, head, x, m, r)
      BY <2>4, Zenon DEF Begins
    <3>5. \A id \in Byte, hd \in Seq(Byte), y \in Seq(Byte), ms \in Outgoing, z \in Seq(Byte) :
            Len(hd) = HeadLen(id) /\ Begins(id, hd, y, ms, z) =>
              id = ms.id /\ hd = ms.head /\ y = ms.body \o z
      BY SameHead
    <3> QED BY <3>1, <3>2, <3>3, <3>4, <3>5
  <2>6. Len(m.body) = BodyLen(m.head)
    BY <2>2, <2>5, PartsOfMessage
  <2> QED BY <2>2, <2>5, <2>6 DEF x
<1>13. CallsLeft(c.inc, left) = Len(left) + 1
  <2>1. c.inc # NoBytes
    BY DEF NoBytes
  <2> QED BY <2>1, Zenon DEF CallsLeft, left
<1>14. CASE taken = missing
  <2> DEFINE d   == DataResult(head, full)
             new == Append(c.res, d)
  <2>1. TakeBody(c) = Call(NoBytes, new, later)
    BY <1>3, <1>14
  <2>2. d \in Result /\ d # Error
    <3>1. Len(full) <= MaxMsgLen
      BY <1>2, <1>7, <1>10, <1>11, LenProperties
    <3> QED BY <1>2, <1>10, <3>1, Results
  <2>3. ASSUME ~ failed
        PROVE  k < Len(written) /\ d = ResultOf(m) /\ later \o rest = r
    <3>1. Len(full) = Len(m.body) /\ m.body \in Seq(Byte) /\ later \o rest \in Seq(Byte)
      <4>1. Len(full) = BodyLen(head)
        BY <1>7, <1>10, <1>14 DEF missing
      <4>2. m.body \in Seq(Byte)
        BY <1>12, <2>3, PartsOfMessage
      <4>3. later \o rest \in Seq(Byte)
        BY <1>9, ConcatProperties
      <4> QED BY <1>12, <2>3, <4>1, <4>2, <4>3
    <3> DEFINE y == later \o rest
    <3>2. full \o y = m.body \o r /\ y \in Seq(Byte)
      BY <1>12, <2>3, <3>1
    <3> HIDE DEF y
    <3>3. full = m.body /\ y = r
      BY <1>10, <1>12, <2>3, <3>1, <3>2, EqualStart
    <3>4. ResultOf(m) = DataResult(m.head, m.body)
      BY <1>12, <2>3, WhatIsReported
    <3> QED BY <1>12, <2>3, <3>3, <3>4 DEF y
  <2> HIDE DEF d
  <2>4. /\ new \in Seq(Result) /\ Len(new) = k + 1 /\ ReportsWritten(new)
        /\ ~ HasFailed(new) => ~ failed
    BY <1>4, <2>2, <2>3, Reported, Zenon DEF m, k, failed
  <2> HIDE DEF new
  <2>5. ASSUME ~ HasFailed(new)
        PROVE  /\ Partial(NoBytes)
               /\ (Held(NoBytes) \o later) \o rest = BytesOfLast(Len(written) - Len(new), written)
    <3>1. Partial(NoBytes) /\ Held(NoBytes) = <<>>
      BY DEF Partial, Held, NoBytes
    <3>2. <<>> \o later = later
      BY <1>9, ConcatLaws
    <3> QED BY <2>3, <2>4, <2>5, <3>1, <3>2 DEF r
  <2>6. IncompleteOK(NoBytes)
    BY DEF IncompleteOK
  <2>7. Keeps(NoBytes, new, later, rest)
    BY <1>9, <2>4, <2>5, <2>6, Zenon DEF Keeps
  <2>8. CallsLeft(NoBytes, later) < CallsLeft(c.inc, left)
    BY <1>7, <1>8, <1>9, <1>13 DEF CallsLeft
  <2>9. HasFailed(new) \/ ~ failed
    BY <2>4
  <2> QED BY <2>1, <2>7, <2>8, <2>9 DEF KeepsCall, Call, Progresses, failed, left
<1>15. CASE taken # missing
  <2> DEFINE d == IncompleteData(head, full)
  <2>1. TakeBody(c) = Call(d, c.res, <<>>)
    BY <1>3, <1>15
  <2>2. later = <<>> /\ taken = Len(left) /\ Len(full) < BodyLen(head)
    <3>1. taken = Len(left) /\ taken < missing
      BY <1>7, <1>8, <1>15 DEF taken, missing
    <3>2. later = <<>>
      BY <1>7, <3>1, SubSeqEmpty DEF later
    <3> QED BY <1>7, <1>10, <3>1, <3>2 DEF missing
  <2>3. IncompleteOK(d) /\ Partial(d) /\ Held(d) = h \o full
    <3>1. d.kind = "Data" /\ d.head = head /\ d.body = full
      BY DEF IncompleteData
    <3>2. Held(d) = h \o full
      BY <3>1, Zenon DEF Held, h
    <3>3. IncompleteOK(d)
      BY <1>2, <1>10, <1>11, <3>1, Zenon DEF IncompleteOK
    <3>4. Partial(d)
      BY <2>2, <3>1, Zenon DEF Partial
    <3> QED BY <3>2, <3>3, <3>4
  <2> HIDE DEF d
  <2>4. ASSUME ~ failed
        PROVE  (Held(d) \o <<>>) \o rest = BytesOfLast(Len(written) - Len(c.res), written)
    BY <1>10, <1>4, <2>2, <2>3, <2>4, Zenon
  <2>5. Keeps(d, c.res, <<>>, rest)
    <3>1. <<>> \in Seq(Byte)
      BY EmptySeq
    <3> QED BY <1>4, <2>3, <2>4, <3>1, Zenon DEF Keeps, failed
  <2>6. CallsLeft(d, <<>>) < CallsLeft(c.inc, left)
    BY <1>7, <1>13 DEF CallsLeft
  <2> QED BY <2>1, <2>5, <2>6 DEF KeepsCall, Call, Progresses, left
<1> QED
  BY <1>14, <1>15

(* An id and a head that are taken from the bytes there are.               *)
LEMMA HeadTaken ==
  ASSUME NEW bytes \in Seq(Byte), NEW n \in Nat, 1 + n <= Len(bytes)
  PROVE  /\ bytes[1] \in Byte
         /\ SubSeq(bytes, 2, 1 + n) \in Seq(Byte) /\ Len(SubSeq(bytes, 2, 1 + n)) = n
         /\ SubSeq(bytes, 2, 1 + n) \in [1 .. n -> Byte]
         /\ SubSeq(bytes, (1 + n) + 1, Len(bytes)) \in Seq(Byte)
         /\ Len(SubSeq(bytes, (1 + n) + 1, Len(bytes))) = Len(bytes) - (1 + n)
         /\ bytes = (<<bytes[1]>> \o SubSeq(bytes, 2, 1 + n))
                    \o SubSeq(bytes, (1 + n) + 1, Len(bytes))
         /\ SubSeq(bytes, 1, 1 + n) \in Seq(Byte) /\ Len(SubSeq(bytes, 1, 1 + n)) = 1 + n
         /\ SubSeq(bytes, 1, 1 + n)[1] = bytes[1]
<1>1. Len(bytes) \in Nat /\ 1 + n \in Nat
  BY LenProperties
<1>2. bytes[1] \in Byte
  <2>1. 1 \in 1 .. Len(bytes)
    BY <1>1
  <2> QED BY <2>1, ElementOfSeq
<1>3. /\ SubSeq(bytes, 1, 1 + n) \in Seq(Byte) /\ Len(SubSeq(bytes, 1, 1 + n)) = 1 + n
      /\ SubSeq(bytes, (1 + n) + 1, Len(bytes)) \in Seq(Byte)
      /\ Len(SubSeq(bytes, (1 + n) + 1, Len(bytes))) = Len(bytes) - (1 + n)
      /\ bytes = SubSeq(bytes, 1, 1 + n) \o SubSeq(bytes, (1 + n) + 1, Len(bytes))
  BY <1>1, Piece, Zenon
<1>4. SubSeq(bytes, 1, 1 + n) = <<bytes[1]>> \o SubSeq(bytes, 2, 1 + n)
  <2>1. 1 \in 1 .. Len(bytes) /\ 1 + n \in 1 .. Len(bytes) /\ 1 + 1 = 2
    BY <1>1
  <2>2. SubSeq(bytes, 1, 1 + n) = <<bytes[1]>> \o SubSeq(bytes, 1 + 1, 1 + n)
    BY <2>1, SubSeqRecursiveFirst
  <2> QED BY <2>1, <2>2
<1>5. /\ SubSeq(bytes, 2, 1 + n) \in Seq(Byte) /\ Len(SubSeq(bytes, 2, 1 + n)) = n
      /\ SubSeq(bytes, 2, 1 + n) \in [1 .. n -> Byte]
  <2>1. 1 + n - 2 + 1 = n /\ 2 \in Nat \ {0} /\ 2 <= 1 + n + 1
    BY <1>1
  <2> QED BY <1>1, <2>1, PartOfBytes
<1>6. SubSeq(bytes, 1, 1 + n)[1] = bytes[1]
  BY <1>1, SubSeqProperties
<1> QED
  BY <1>2, <1>3, <1>4, <1>5, <1>6, Zenon

(* A call that takes bytes of a head.                                      *)
LEMMA TakeHeadKeeps ==
  ASSUME written \in Seq(Outgoing), NEW c, NEW rest \in Seq(Byte), KeepsCall(c, rest),
         c.inc.kind # "Data", c.left # <<>>
  PROVE  KeepsCall(TakeHead(c), rest) /\ Progresses(c, TakeHead(c))
<1> DEFINE bytes  == c.inc.held \o c.left
           id     == bytes[1]
           next   == 1 + HeadLen(id)
           head   == SubSeq(bytes, 2, next)
           later  == SubSeq(bytes, next + 1, Len(bytes))
           first  == SubSeq(bytes, 1, next)
           k      == Len(c.res)
           m      == written[k + 1]
           r      == BytesOfLast(Len(written) - (k + 1), written)
           failed == HasFailed(c.res)
           error  == Append(c.res, Error)
           kept   == IF c.inc.held = <<>> THEN NoBytes ELSE HeldBytes(first)
<1>1. IncompleteOK(c.inc) /\ c.left \in Seq(Byte)
      /\ c.res \in Seq(Result) /\ ReportsWritten(c.res)
      /\ (~ failed => Partial(c.inc)
                      /\ (Held(c.inc) \o c.left) \o rest
                           = BytesOfLast(Len(written) - Len(c.res), written))
  BY DEF KeepsCall, Keeps
<1>2. c.inc.held \in Seq(Byte) /\ Held(c.inc) = c.inc.held
  BY <1>1, HeldIs, Zenon
<1>3. bytes \in Seq(Byte) /\ bytes # <<>>
  <2>1. bytes \in Seq(Byte) /\ Len(bytes) = Len(c.inc.held) + Len(c.left)
    BY <1>1, <1>2, ConcatProperties
  <2>2. Len(c.left) \in Nat \ {0} /\ Len(c.inc.held) \in Nat
    BY <1>1, <1>2, EmptySeq, LenProperties
  <2> DEFINE n == Len(bytes)
             p == Len(c.inc.held)
             q == Len(c.left)
  <2> HIDE DEF bytes
  <2>3. Len(bytes) # 0
    <3>1. n = p + q /\ p \in Nat /\ q \in Nat \ {0}
      BY <2>1, <2>2
    <3> HIDE DEF n, p, q
    <3>2. n # 0
      BY <3>1
    <3> QED BY <3>2 DEF n
  <2> QED BY <2>1, <2>3, EmptySeq
<1>4. /\ id \notin {DATA, STATUS, HEARTBEAT} => TakeHead(c) = Call(c.inc, error, <<>>)
      /\ id \in {DATA, STATUS, HEARTBEAT} =>
           /\ Len(bytes) < next => TakeHead(c) = Call(HeldBytes(bytes), c.res, <<>>)
           /\ ~ (Len(bytes) < next) =>
                /\ id = HEARTBEAT =>
                     TakeHead(c) = Call(NoBytes, Append(c.res, HeartbeatResult), later)
                /\ id = STATUS => TakeHead(c) = Call(NoBytes, Append(c.res, SeqIdOk(head)), later)
                /\ id = DATA /\ BodyLen(head) > MaxMsgLen => TakeHead(c) = Call(kept, error, <<>>)
                /\ id = DATA /\ ~ (BodyLen(head) > MaxMsgLen) =>
                     TakeHead(c) = Call(IncompleteData(head, <<>>), c.res, later)
  <2>1. DATA # STATUS /\ DATA # HEARTBEAT /\ STATUS # HEARTBEAT
    BY DEF DATA, STATUS, HEARTBEAT
  <2> QED BY <2>1, Zenon DEF TakeHead
<1> HIDE DEF bytes, id, next, head, later, first, k, m, r, failed, error, kept
<1>5. /\ Len(bytes) = Len(c.inc.held) + Len(c.left)
      /\ Len(c.left) \in Nat /\ Len(c.left) > 0 /\ Len(c.inc.held) \in Nat
      /\ c.inc.held # <<>> => id = c.inc.held[1] /\ c.inc.kind = "Bytes" /\ c.inc # NoBytes
      /\ c.inc.held = <<>> => Len(c.inc.held) = 0
      /\ CallsLeft(c.inc, c.left) \in Nat /\ CallsLeft(c.inc, c.left) >= Len(c.left)
      /\ c.inc.held # <<>> => CallsLeft(c.inc, c.left) = Len(c.left) + 1
  <2> DEFINE held == c.inc.held
             left == c.left
  <2>1. held \in Seq(Byte) /\ left \in Seq(Byte) /\ left # <<>> /\ bytes = held \o left
    BY <1>1, <1>2 DEF bytes
  <2>2. c.inc = NoBytes \/ c.inc.kind = "Bytes"
    BY <1>1, Zenon DEF IncompleteOK
  <2>3. NoBytes.held = <<>> /\ NoBytes.kind = "None"
    BY DEF NoBytes
  <2>4. held # <<>> => c.inc.kind = "Bytes" /\ c.inc # NoBytes
    BY <2>2, <2>3
  <2> HIDE DEF held, left
  <2>5. Len(held) \in Nat /\ Len(left) \in Nat /\ Len(left) > 0 /\ Len(<<>>) = 0
    BY <2>1, EmptySeq, LenProperties
  <2>6. /\ Len(bytes) = Len(held) + Len(left)
        /\ held # <<>> => bytes[1] = held[1]
    <3>1. Len(held \o left) = Len(held) + Len(left)
          /\ \A i \in 1 .. Len(held) + Len(left) :
               (held \o left)[i] = IF i <= Len(held) THEN held[i] ELSE left[i - Len(held)]
      BY <2>1, ConcatProperties, Zenon
    <3>2. held # <<>> => Len(held) # 0
      BY <2>1, EmptySeq
    <3> QED BY <2>1, <2>5, <3>1, <3>2
  <2>7. /\ CallsLeft(c.inc, left) \in Nat /\ CallsLeft(c.inc, left) >= Len(left)
        /\ c.inc # NoBytes => CallsLeft(c.inc, left) = Len(left) + 1
    BY <2>1, <2>5 DEF CallsLeft
  <2>8. held = <<>> => Len(held) = 0
    BY <2>5
  <2>9. held # <<>> => id = held[1] /\ CallsLeft(c.inc, left) = Len(left) + 1
    BY <2>4, <2>6, <2>7 DEF id
  <2> QED BY <2>4, <2>5, <2>6, <2>7, <2>8, <2>9 DEF held, left
<1>6. /\ id \in {DATA, STATUS, HEARTBEAT} => HeadLen(id) \in Nat /\ next = 1 + HeadLen(id)
      /\ Len(bytes) \in Nat
  <2>1. id \in {DATA, STATUS, HEARTBEAT} => HeadLen(id) \in Nat
    BY Heads
  <2> QED BY <1>3, <2>1, LenProperties, Zenon DEF next
<1>7. ASSUME ~ failed
      PROVE  /\ k < Len(written) /\ m \in Outgoing /\ r \in Seq(Byte)
             /\ bytes \o rest = Bytes(m) \o r /\ bytes \o rest = BytesOfLast(Len(written) - k, written)
             /\ id = m.id /\ id \in {DATA, STATUS, HEARTBEAT}
  <2>1. bytes \o rest = BytesOfLast(Len(written) - k, written)
    BY <1>1, <1>2, <1>7, Zenon DEF bytes, k
  <2>2. k < Len(written) /\ m \in Outgoing /\ r \in Seq(Byte) /\ bytes \o rest = Bytes(m) \o r
    BY <1>1, <1>3, <1>7, <2>1, NextMessage, Zenon DEF k, m, r, failed
  <2>3. Bytes(m) \in Seq(Byte) /\ 1 <= Len(Bytes(m)) /\ Bytes(m)[1] = m.id
    <3>1. HeadLen(m.id) \in Nat /\ Len(m.body) \in Nat
      BY <2>2, PartsOfMessage, LenProperties
    <3>2. Bytes(m) \in Seq(Byte) /\ Len(Bytes(m)) = 1 + HeadLen(m.id) + Len(m.body)
          /\ Bytes(m)[1] = m.id
      BY <2>2, BytesOfMessage
    <3> QED BY <3>1, <3>2
  <2>4. 1 \in 1 .. Len(bytes)
    BY <1>3, <1>6, EmptySeq
  <2>5. bytes[1] = Bytes(m)[1]
    BY <1>3, <2>2, <2>3, <2>4, SameStart, Zenon
  <2>6. m.id \in {DATA, STATUS, HEARTBEAT}
    BY <2>2, PartsOfMessage
  <2> QED BY <2>1, <2>2, <2>3, <2>5, <2>6 DEF id
<1>8. /\ <<>> \in Seq(Byte) /\ IncompleteOK(NoBytes) /\ Partial(NoBytes)
      /\ Held(NoBytes) = <<>>
  <2>1. <<>> \in Seq(Byte)
    BY EmptySeq
  <2>2. IncompleteOK(NoBytes)
    BY DEF IncompleteOK
  <2>3. Partial(NoBytes) /\ Held(NoBytes) = <<>>
    BY DEF Partial, Held, NoBytes
  <2> QED BY <2>1, <2>2, <2>3
<1>9. \A b \in Seq(Byte) :
        b # <<>> /\ b[1] \in {DATA, STATUS} /\ Len(b) <= 1 + HeadLen(b[1]) =>
          IncompleteOK(HeldBytes(b)) /\ Held(HeldBytes(b)) = b
          /\ (Len(b) < 1 + HeadLen(b[1]) => Partial(HeldBytes(b)))
  <2> SUFFICES ASSUME NEW b \in Seq(Byte), b # <<>>, b[1] \in {DATA, STATUS},
                      Len(b) <= 1 + HeadLen(b[1])
      PROVE IncompleteOK(HeldBytes(b)) /\ Held(HeldBytes(b)) = b
            /\ (Len(b) < 1 + HeadLen(b[1]) => Partial(HeldBytes(b)))
    BY Zenon
  <2>1. HeldBytes(b).kind = "Bytes" /\ HeldBytes(b).held = b
    BY DEF HeldBytes
  <2>2. IncompleteOK(HeldBytes(b))
    BY <2>1, Zenon DEF IncompleteOK
  <2>3. Held(HeldBytes(b)) = b
    BY <2>1 DEF Held
  <2>4. Len(b) < 1 + HeadLen(b[1]) => Partial(HeldBytes(b))
    BY <2>1 DEF Partial
  <2> QED BY <2>2, <2>3, <2>4
(* An error is added.                                                      *)
<1>10. ASSUME NEW inc, IncompleteOK(inc), failed \/ IsOversize(m)
       PROVE  Keeps(inc, error, <<>>, rest)
  <2>1. Error \in Result
    BY Results
  <2>2. ~ failed => k < Len(written) /\ IsOversize(m)
    BY <1>7, <1>10
  <2>3. error \in Seq(Result) /\ ReportsWritten(error) /\ HasFailed(error)
    BY <1>1, <2>1, <2>2, Reported, Zenon DEF error, failed, k, m
  <2> QED BY <1>8, <1>10, <2>3, Zenon DEF Keeps
(* A message without a body is reported.                                   *)
<1>11. ASSUME NEW x \in Result, x # Error, later \in Seq(Byte),
              ~ failed => x = ResultOf(m) /\ later \o rest = r
       PROVE  /\ Keeps(NoBytes, Append(c.res, x), later, rest)
              /\ HasFailed(Append(c.res, x)) \/ ~ failed
  <2> DEFINE new == Append(c.res, x)
  <2>1. ~ failed => k < Len(written)
    BY <1>7
  <2>2. /\ new \in Seq(Result) /\ Len(new) = k + 1 /\ ReportsWritten(new)
        /\ ~ HasFailed(new) => ~ failed
    BY <1>1, <1>11, <2>1, Reported, Zenon DEF failed, k, m
  <2> HIDE DEF new
  <2>3. <<>> \o later = later
    BY <1>11, ConcatLaws
  <2>4. ~ HasFailed(new) =>
          (Held(NoBytes) \o later) \o rest = BytesOfLast(Len(written) - Len(new), written)
    BY <1>8, <1>11, <2>2, <2>3, Zenon DEF r
  <2>5. Keeps(NoBytes, new, later, rest)
    BY <1>8, <1>11, <2>2, <2>4, Zenon DEF Keeps
  <2> QED BY <2>2, <2>5 DEF new
<1>12. HasFailed(error)
  <2>1. Error \in Result
    BY Results
  <2>2. error \in Seq(Result) /\ Len(error) = k + 1 /\ error[k + 1] = Error /\ k \in Nat
    BY <1>1, <2>1, AppendProperties, LenProperties DEF error, k
  <2>3. k + 1 \in DOMAIN error
    BY <2>2, LenProperties
  <2> QED BY <2>2, <2>3 DEF HasFailed
<1>13. ASSUME NEW inc PROVE CallsLeft(inc, <<>>) < CallsLeft(c.inc, c.left)
  <2>1. CallsLeft(inc, <<>>) = 0
    BY DEF CallsLeft
  <2> QED BY <1>5, <2>1
<1>14. CASE id \notin {DATA, STATUS, HEARTBEAT}
  <2>1. failed /\ TakeHead(c) = Call(c.inc, error, <<>>)
    BY <1>4, <1>7, <1>14, Zenon
  <2>2. Keeps(c.inc, error, <<>>, rest)
    BY <1>1, <1>10, <2>1
  <2> QED BY <1>12, <2>1, <2>2 DEF KeepsCall, Call, Progresses
<1>15. CASE id \in {DATA, STATUS, HEARTBEAT} /\ Len(bytes) < next
  <2>1. TakeHead(c) = Call(HeldBytes(bytes), c.res, <<>>)
    BY <1>4, <1>15, Zenon
  <2>2. id # HEARTBEAT
    <3>1. Len(bytes) # 0
      BY <1>3, EmptySeq
    <3>2. id = HEARTBEAT => next = 1
      BY <1>6, <1>15, Heads
    <3> QED BY <1>6, <1>15, <3>1, <3>2
  <2>3. bytes[1] \in {DATA, STATUS} /\ Len(bytes) < 1 + HeadLen(bytes[1])
        /\ Len(bytes) <= 1 + HeadLen(bytes[1])
    <3>1. Len(bytes) < 1 + HeadLen(id) /\ Len(bytes) <= 1 + HeadLen(id)
      BY <1>6, <1>15
    <3> QED BY <1>15, <2>2, <3>1 DEF id
  <2>4. IncompleteOK(HeldBytes(bytes)) /\ Held(HeldBytes(bytes)) = bytes /\ Partial(HeldBytes(bytes))
    BY <1>3, <1>9, <2>3, Zenon
  <2>5. bytes \o <<>> = bytes
    BY <1>3, ConcatLaws
  <2>6. ~ failed =>
          (Held(HeldBytes(bytes)) \o <<>>) \o rest = BytesOfLast(Len(written) - Len(c.res), written)
    BY <1>7, <2>4, <2>5, Zenon DEF k
  <2>7. Keeps(HeldBytes(bytes), c.res, <<>>, rest)
    BY <1>1, <1>8, <2>4, <2>6, Zenon DEF Keeps, failed
  <2>8. CallsLeft(HeldBytes(bytes), <<>>) < CallsLeft(c.inc, c.left)
    BY <1>13
  <2> QED BY <2>1, <2>7, <2>8 DEF KeepsCall, Call, Progresses
<1>16. CASE id \in {DATA, STATUS, HEARTBEAT} /\ ~ (Len(bytes) < next)
  <2>1. /\ id \in Byte /\ head \in Seq(Byte) /\ Len(head) = HeadLen(id)
        /\ head \in [1 .. HeadLen(id) -> Byte]
        /\ later \in Seq(Byte) /\ bytes = (<<id>> \o head) \o later
        /\ Len(later) = Len(bytes) - next
        /\ first \in Seq(Byte) /\ Len(first) = next /\ first[1] = id
    <3>1. HeadLen(id) \in Nat /\ 1 + HeadLen(id) <= Len(bytes) /\ next = 1 + HeadLen(id)
      BY <1>6, <1>16
    <3> QED BY <1>3, <3>1, HeadTaken, Zenon DEF id, head, later, first
  <2>2. ASSUME ~ failed
        PROVE  m.head = head /\ later \o rest = m.body \o r /\ later \o rest \in Seq(Byte)
    <3> DEFINE x == later \o rest
    <3>1. x \in Seq(Byte)
      BY <2>1, ConcatProperties
    <3>2. Begins(id, head, x, m, r)
      <4>1. <<id>> \o head \in Seq(Byte)
        BY <2>1, IdAndHead
      <4>2. Associates(<<id>> \o head, later, rest)
        BY <2>1, <4>1, ConcatLaws
      <4>3. bytes \o rest = (<<id>> \o head) \o x
        BY <2>1, <4>2, Zenon DEF Associates
      <4> QED BY <1>7, <2>2, <4>3, Zenon DEF Begins
    <3> HIDE DEF x
    <3>3. m \in Outgoing /\ r \in Seq(Byte)
      BY <1>7, <2>2
    <3>4. \A i \in Byte, hd \in Seq(Byte), y \in Seq(Byte), ms \in Outgoing, z \in Seq(Byte) :
            Len(hd) = HeadLen(i) /\ Begins(i, hd, y, ms, z) => hd = ms.head /\ y = ms.body \o z
      BY SameHead
    <3>5. head = m.head /\ x = m.body \o r
      BY <2>1, <3>1, <3>2, <3>3, <3>4
    <3> QED BY <3>1, <3>5 DEF x
  <2>3. ASSUME ~ failed, id # DATA
        PROVE  later \o rest = r
    <3>1. m.body \in Seq(Byte) /\ Len(m.body) = 0
      BY <1>7, <2>3, PartsOfMessage
    <3>2. m.body = <<>> /\ <<>> \o r = r
      BY <1>7, <2>3, <3>1, EmptySeq, ConcatLaws
    <3> QED BY <2>2, <2>3, <3>2
  <2>4. /\ Len(later) \in Nat
        /\ c.inc.held = <<>> => Len(later) + next = Len(c.left)
        /\ ~ failed /\ c.inc.held # <<>> => Len(later) < Len(c.left)
        /\ ~ failed => Len(later) < Len(c.left)
    <3>1. Len(later) \in Nat /\ HeadLen(id) \in Nat /\ next = 1 + HeadLen(id)
      BY <1>6, <2>1, LenProperties, <1>16
    <3>2. c.inc.held = <<>> => Len(later) + next = Len(c.left)
      BY <1>5, <2>1, <3>1
    <3>3. ~ failed /\ c.inc.held # <<>> => Len(c.inc.held) < next
      BY <1>1, <1>5, <3>1 DEF Partial
    <3>4. ~ failed /\ c.inc.held # <<>> => Len(later) < Len(c.left)
      <4> DEFINE p == Len(c.inc.held)
                 q == Len(c.left)
                 l == Len(later)
                 b == Len(bytes)
      <4>1. p \in Nat /\ q \in Nat /\ l = b - next /\ b = p + q
        BY <1>5, <2>1
      <4>2. next \in Nat
        <5>1. \A x \in Nat : 1 + x \in Nat
          OBVIOUS
        <5> QED BY <3>1, <5>1
      <4> HIDE DEF p, q, l, b
      <4>3. p < next => l < q
        BY <4>1, <4>2
      <4> QED BY <3>3, <4>3 DEF p, q, l
    <3> QED BY <1>5, <3>1, <3>2, <3>4
  <2>5. ~ failed => CallsLeft(NoBytes, later) < CallsLeft(c.inc, c.left)
    <3>1. CallsLeft(NoBytes, later) \in Nat /\ CallsLeft(NoBytes, later) <= Len(later)
      BY <2>4 DEF CallsLeft
    <3> QED BY <1>5, <2>4, <3>1
  <2>6. CASE id = HEARTBEAT
    <3>1. TakeHead(c) = Call(NoBytes, Append(c.res, HeartbeatResult), later)
      BY <1>4, <1>16, <2>6, Zenon
    <3>2. ~ failed => HeartbeatResult = ResultOf(m)
      BY <1>7, <2>6, WhatIsReported
    <3>3. HEARTBEAT # DATA
      BY DEF HEARTBEAT, DATA
    <3>4. /\ Keeps(NoBytes, Append(c.res, HeartbeatResult), later, rest)
          /\ HasFailed(Append(c.res, HeartbeatResult)) \/ ~ failed
      BY <1>11, <2>1, <2>3, <2>6, <3>2, <3>3, Results, Zenon
    <3> QED BY <2>5, <3>1, <3>4 DEF KeepsCall, Call, Progresses, failed
  <2>7. CASE id = STATUS
    <3>1. TakeHead(c) = Call(NoBytes, Append(c.res, SeqIdOk(head)), later)
      BY <1>4, <1>16, <2>7, Zenon
    <3>2. ~ failed => SeqIdOk(head) = ResultOf(m)
      BY <1>7, <2>2, <2>7, WhatIsReported
    <3>3. STATUS # DATA /\ head \in [1 .. 4 -> Byte]
      <4>1. STATUS # DATA
        BY DEF STATUS, DATA
      <4> QED BY <2>1, <2>7, <4>1, Heads
    <3>4. /\ Keeps(NoBytes, Append(c.res, SeqIdOk(head)), later, rest)
          /\ HasFailed(Append(c.res, SeqIdOk(head))) \/ ~ failed
      BY <1>11, <2>1, <2>3, <2>7, <3>2, <3>3, Results, Zenon
    <3> QED BY <2>5, <3>1, <3>4 DEF KeepsCall, Call, Progresses, failed
  <2>8. CASE id = DATA
    <3>1. head \in [1 .. 8 -> Byte] /\ HeadLen(id) = 8 /\ next = 9
      BY <1>6, <1>16, <2>1, <2>8, Heads
    <3>2. BodyLen(head) \in Nat /\ MaxMsgLen \in Nat
      <4>1. BodyLen(head) \in U32
        BY <3>1, NumbersOfHead
      <4> QED BY <4>1, IngesterAssumption DEF U32
    <3>3. CASE BodyLen(head) > MaxMsgLen
      <4>1. TakeHead(c) = Call(kept, error, <<>>)
        BY <1>4, <1>16, <2>8, <3>3, Zenon
      <4>2. first # <<>> /\ Len(first) <= 1 + HeadLen(first[1]) /\ first[1] \in {DATA, STATUS}
        <5>1. Len(first) = 9 /\ first[1] = DATA /\ HeadLen(DATA) = 8
          BY <2>1, <2>8, <3>1
        <5>2. first # <<>>
          <6>1. Len(<<>>) = 0 /\ Len(first) # 0
            BY <5>1, EmptySeq
          <6> QED BY <6>1, Zenon
        <5> QED BY <5>1, <5>2
      <4>3. IncompleteOK(kept)
        BY <1>8, <1>9, <2>1, <4>2, Zenon DEF kept
      <4>4. failed \/ IsOversize(m)
        BY <1>7, <2>2, <2>8, <3>3 DEF IsOversize
      <4>5. Keeps(kept, error, <<>>, rest)
        BY <1>10, <4>3, <4>4, Zenon
      <4> QED BY <1>12, <4>1, <4>5 DEF KeepsCall, Call, Progresses
    <3>4. CASE ~ (BodyLen(head) > MaxMsgLen)
      <4> DEFINE d == IncompleteData(head, <<>>)
      <4>1. TakeHead(c) = Call(d, c.res, later)
        BY <1>4, <1>16, <2>8, <3>4, Zenon
      <4>2. IncompleteOK(d) /\ Partial(d) /\ Held(d) = (<<DATA>> \o head) \o <<>>
        <5>1. d.kind = "Data" /\ d.head = head /\ d.body = <<>>
          BY DEF IncompleteData
        <5>2. Len(<<>>) <= BodyLen(head) /\ BodyLen(head) <= MaxMsgLen
          BY <3>2, <3>4
        <5>3. IncompleteOK(d)
          BY <1>8, <3>1, <5>1, <5>2, Zenon DEF IncompleteOK
        <5> QED BY <5>1, <5>3, Zenon DEF Partial, Held
      <4> HIDE DEF d
      <4>3. (<<DATA>> \o head) \o <<>> = <<DATA>> \o head
        <5>1. <<DATA>> \o head \in Seq(Byte)
          BY <2>1, <2>8, IdAndHead
        <5> QED BY <5>1, ConcatLaws
      <4>4. ~ failed =>
              (Held(d) \o later) \o rest = BytesOfLast(Len(written) - Len(c.res), written)
        BY <1>7, <2>1, <2>8, <4>2, <4>3, Zenon DEF k
      <4>5. Keeps(d, c.res, later, rest)
        BY <1>1, <2>1, <4>2, <4>4, Zenon DEF Keeps, failed
      <4>6. ~ failed => CallsLeft(d, later) < CallsLeft(c.inc, c.left)
        <5>1. CallsLeft(d, later) <= Len(later) + 1
          BY <2>4 DEF CallsLeft
        <5>2. CallsLeft(d, later) \in Int
          BY <2>4 DEF CallsLeft
        <5> DEFINE now  == CallsLeft(c.inc, c.left)
                   then == CallsLeft(d, later)
                   p    == Len(c.left)
                   l    == Len(later)
        <5>3. now \in Nat /\ p \in Nat /\ now >= p /\ (c.inc.held # <<>> => now = p + 1)
          BY <1>5, Zenon
        <5>4. then \in Int /\ then <= l + 1
          BY <5>1, <5>2
        <5>5. l \in Nat /\ (c.inc.held = <<>> => l + 9 = p) /\ (~ failed => l < p)
          BY <2>4, <3>1
        <5> HIDE DEF now, then, p, l
        <5>6. ~ failed => then < now
          BY <5>3, <5>4, <5>5
        <5> QED BY <5>6 DEF then, now
      <4> QED BY <4>1, <4>5, <4>6 DEF KeepsCall, Call, Progresses, failed
    <3> QED BY <3>3, <3>4
  <2> QED BY <1>16, <2>6, <2>7, <2>8
<1> QED
  BY <1>14, <1>15, <1>16

(* One call keeps it.                                                      *)
LEMMA TakeOnceKeeps ==
  ASSUME written \in Seq(Outgoing), NEW c, NEW rest \in Seq(Byte), KeepsCall(c, rest)
  PROVE  /\ KeepsCall(TakeOnce(c), rest)
         /\ IF c.left = <<>> THEN TakeOnce(c) = c ELSE Progresses(c, TakeOnce(c))
<1>1. CASE c.left = <<>>
  BY <1>1, Zenon DEF TakeOnce
<1>2. CASE c.left # <<>> /\ c.inc.kind = "Data"
  BY <1>2, TakeBodyKeeps, Zenon DEF TakeOnce
<1>3. CASE c.left # <<>> /\ c.inc.kind # "Data"
  BY <1>3, TakeHeadKeeps, Zenon DEF TakeOnce
<1> QED
  BY <1>1, <1>2, <1>3

(* The calls of one take_bytes.                                            *)
IsTaken(f, c, n) == f = [i \in 0 .. n |-> IF i = 0 THEN c ELSE TakeOnce(f[i - 1])]

LEMMA CallsExist ==
  ASSUME NEW c, NEW n \in Nat
  PROVE  \E f : IsTaken(f, c, n)
<1> DEFINE T == {k \in Nat : \E f : IsTaken(f, c, k)}
<1>1. 0 \in T
  <2> DEFINE f == [i \in 0 .. 0 |-> c]
  <2>1. \A i \in 0 .. 0 : i = 0
    OBVIOUS
  <2>2. IsTaken(f, c, 0)
    BY <2>1 DEF IsTaken
  <2> QED BY <2>2
<1>2. ASSUME NEW k \in Nat, k \in T PROVE k + 1 \in T
  <2>1. PICK f : IsTaken(f, c, k)
    BY <1>2
  <2> DEFINE g == [i \in 0 .. k + 1 |-> IF i = k + 1 THEN TakeOnce(f[k]) ELSE f[i]]
  <2>2. /\ f[0] = c
        /\ \A i \in 1 .. k : f[i] = TakeOnce(f[i - 1])
    <3>1. \A i \in 0 .. k : f[i] = IF i = 0 THEN c ELSE TakeOnce(f[i - 1])
      BY <2>1, Zenon DEF IsTaken
    <3>2. 0 \in 0 .. k /\ \A i \in 1 .. k : i \in 0 .. k /\ i # 0
      OBVIOUS
    <3> QED BY <3>1, <3>2, Zenon
  <2>3. \A i \in 0 .. k : g[i] = f[i]
    <3>1. \A i \in 0 .. k : i \in 0 .. k + 1 /\ i # k + 1
      OBVIOUS
    <3> QED BY <3>1, Zenon
  <2>4. g[k + 1] = TakeOnce(f[k])
    <3>1. k + 1 \in 0 .. k + 1
      OBVIOUS
    <3> QED BY <3>1, Zenon
  <2>5. g = [i \in 0 .. k + 1 |-> g[i]]
    BY Zenon
  <2> HIDE DEF g
  <2>6. ASSUME NEW i \in 0 .. k + 1 PROVE g[i] = IF i = 0 THEN c ELSE TakeOnce(g[i - 1])
    <3>1. CASE i = 0
      <4>1. 0 \in 0 .. k
        OBVIOUS
      <4> QED BY <2>2, <2>3, <3>1, <4>1, Zenon
    <3>2. CASE i \in 1 .. k
      <4>1. i \in 0 .. k /\ i - 1 \in 0 .. k /\ i # 0
        BY <3>2
      <4> QED BY <2>2, <2>3, <3>2, <4>1, Zenon
    <3>3. CASE i = k + 1
      <4>1. i # 0 /\ i - 1 = k /\ k \in 0 .. k
        BY <3>3
      <4>2. g[i - 1] = f[k]
        BY <2>3, <4>1, Zenon
      <4> QED BY <2>4, <3>3, <4>1, <4>2, Zenon
    <3>4. i = 0 \/ i \in 1 .. k \/ i = k + 1
      OBVIOUS
    <3> QED BY <3>1, <3>2, <3>3, <3>4
  <2>7. IsTaken(g, c, k + 1)
    BY <2>5, <2>6, Zenon DEF IsTaken
  <2> QED BY <2>7
<1> HIDE DEF T
<1>3. \A k \in Nat : k \in T
  BY <1>1, <1>2, AllNumbers
<1> QED
  BY <1>3 DEF T

(* What take_bytes keeps.  As many calls as there are bytes, and one more, *)
(* are enough: nothing is left, unless there was an error.                 *)
LEMMA TakeBytesKeeps ==
  ASSUME written \in Seq(Outgoing), NEW bytes \in Seq(Byte), NEW rest \in Seq(Byte),
         Keeps(incomplete, results, bytes, rest)
  PROVE  /\ KeepsCall(TakeBytes(bytes), rest)
         /\ HasFailed(TakeBytes(bytes).res) \/ TakeBytes(bytes).left = <<>>
<1> DEFINE first == Call(incomplete, results, bytes)
           N     == Len(bytes) + 1
           after == CHOOSE f : IsTaken(f, first, N)
           left(i) == CallsLeft(after[i].inc, after[i].left)
           Good(i) == /\ KeepsCall(after[i], rest)
                      /\ HasFailed(after[i].res) \/ left(i) <= N - i
<1>1. N \in Nat
  BY LenProperties
<1>2. IsTaken(after, first, N)
  <2>1. \E f : IsTaken(f, first, N)
    BY <1>1, CallsExist
  <2> HIDE DEF first, N
  <2> QED BY <2>1, Zenon
<1>3. TakeBytes(bytes) = after[N]
  BY Zenon DEF TakeBytes, IsTaken
<1>4. KeepsCall(first, rest)
  BY DEF KeepsCall, first, Call
<1>5. CallsLeft(first.inc, first.left) <= N
  <2>1. first.inc = incomplete /\ first.left = bytes
    BY DEF first, Call
  <2>2. CallsLeft(incomplete, bytes) <= N
    BY <1>1, LenProperties DEF CallsLeft
  <2> QED BY <2>1, <2>2
<1> HIDE DEF first, after, N
<1>6. after[0] = first /\ \A i \in 1 .. N : after[i] = TakeOnce(after[i - 1])
  <2>1. \A i \in 0 .. N : after[i] = IF i = 0 THEN first ELSE TakeOnce(after[i - 1])
    BY <1>2, Zenon DEF IsTaken
  <2>2. 0 \in 0 .. N /\ \A i \in 1 .. N : i \in 0 .. N /\ i # 0
    BY <1>1
  <2> QED BY <2>1, <2>2, Zenon
<1>7. \A inc, s : s \in Seq(Byte) =>
        CallsLeft(inc, s) \in Nat /\ (s = <<>> => CallsLeft(inc, s) = 0)
        /\ (CallsLeft(inc, s) <= 0 => s = <<>>)
  <2> SUFFICES ASSUME NEW inc, NEW s \in Seq(Byte)
               PROVE  CallsLeft(inc, s) \in Nat /\ (s = <<>> => CallsLeft(inc, s) = 0)
                      /\ (CallsLeft(inc, s) <= 0 => s = <<>>)
    BY Zenon
  <2>1. Len(s) \in Nat /\ (s # <<>> => Len(s) # 0)
    BY LenProperties, EmptySeq
  <2> QED BY <2>1 DEF CallsLeft
<1> DEFINE T == {n \in Nat : n <= N => Good(n)}
<1>8. 0 \in T
  <2>1. left(0) <= N - 0
    BY <1>1, <1>5, <1>6
  <2> QED BY <1>4, <1>6, <2>1
<1>9. ASSUME NEW n \in Nat, n \in T PROVE n + 1 \in T
  <2> SUFFICES ASSUME n + 1 <= N PROVE Good(n + 1)
    OBVIOUS
  <2>1. Good(n) /\ n + 1 \in 1 .. N /\ (n + 1) - 1 = n
    BY <1>1, <1>9
  <2> DEFINE c == after[n]
             d == after[n + 1]
  <2>2. d = TakeOnce(c)
    BY <1>6, <2>1
  <2>3. KeepsCall(c, rest) /\ (HasFailed(c.res) \/ CallsLeft(c.inc, c.left) <= N - n)
    BY <2>1
  <2> HIDE DEF c, d
  <2>4. /\ KeepsCall(d, rest)
        /\ IF c.left = <<>> THEN d = c ELSE Progresses(c, d)
    BY <2>2, <2>3, TakeOnceKeeps
  <2>5. c.left \in Seq(Byte) /\ d.left \in Seq(Byte)
    BY <2>3, <2>4 DEF KeepsCall, Keeps
  <2>6. /\ CallsLeft(c.inc, c.left) \in Nat /\ CallsLeft(d.inc, d.left) \in Nat
        /\ c.left = <<>> => CallsLeft(c.inc, c.left) = 0
    BY <1>7, <2>5
  <2>7. HasFailed(d.res) \/ CallsLeft(d.inc, d.left) <= N - (n + 1)
    <3>1. CASE c.left = <<>>
      BY <1>1, <2>4, <2>6, <3>1
    <3>2. CASE c.left # <<>>
      BY <1>1, <2>3, <2>4, <2>6, <3>2 DEF Progresses
    <3> QED BY <3>1, <3>2
  <2> QED BY <2>4, <2>7 DEF d
<1> HIDE DEF T
<1>10. \A n \in Nat : n \in T
  BY <1>8, <1>9, AllNumbers
<1>11. Good(N)
  BY <1>1, <1>10 DEF T
<1>12. HasFailed(after[N].res) \/ after[N].left = <<>>
  <2>1. after[N].left \in Seq(Byte)
    BY <1>11 DEF KeepsCall, Keeps
  <2>2. N - N = 0
    BY <1>1
  <2> QED BY <1>7, <1>11, <2>1, <2>2
<1> QED
  BY <1>3, <1>11, <1>12

-----------------------------------------------------------------------------
(* The ingester and the stream.                                            *)

(* A further message comes last in the bytes of the last messages.         *)
LEMMA LastBytesGrow ==
  ASSUME NEW ms \in Seq(Outgoing), NEW m \in Outgoing
  PROVE  \A n \in 0 .. Len(ms) :
           BytesOfLast(n + 1, Append(ms, m)) = BytesOfLast(n, ms) \o Bytes(m)
<1> DEFINE more == Append(ms, m)
           L    == Len(ms)
           T    == {n \in Nat : n <= L => BytesOfLast(n + 1, more) = BytesOfLast(n, ms) \o Bytes(m)}
<1>1. /\ more \in Seq(Outgoing) /\ Len(more) = L + 1 /\ L \in Nat
      /\ \A i \in 1 .. L : more[i] = ms[i]
      /\ more[L + 1] = m
  BY AppendProperties, LenProperties
<1>2. /\ \A n \in 1 .. L + 1 :
           BytesOfLast(n, more) = Bytes(more[(L + 1) - n + 1]) \o BytesOfLast(n - 1, more)
      /\ BytesOfLast(0, more) = <<>>
  BY <1>1, LastBytes
<1>3. /\ \A n \in 1 .. L : BytesOfLast(n, ms) = Bytes(ms[L - n + 1]) \o BytesOfLast(n - 1, ms)
      /\ BytesOfLast(0, ms) = <<>>
      /\ \A n \in 0 .. L : BytesOfLast(n, ms) \in Seq(Byte)
  BY LastBytes
<1>4. Bytes(m) \in Seq(Byte) /\ \A i \in 1 .. L : Bytes(ms[i]) \in Seq(Byte)
  <2>1. \A i \in 1 .. L : ms[i] \in Outgoing
    BY ElementOfSeq
  <2> QED BY <2>1, BytesOfMessage
<1> HIDE DEF more, L
<1>5. 0 \in T
  <2>1. 1 \in 1 .. L + 1 /\ (L + 1) - 1 + 1 = L + 1 /\ 1 - 1 = 0 /\ 0 + 1 = 1
    BY <1>1
  <2>2. BytesOfLast(1, more) = Bytes(m) \o <<>>
    BY <1>1, <1>2, <2>1
  <2>3. Bytes(m) \o <<>> = Bytes(m) /\ <<>> \o Bytes(m) = Bytes(m)
    BY <1>4, ConcatLaws
  <2> QED BY <1>3, <2>1, <2>2, <2>3
<1>6. ASSUME NEW n \in Nat, n \in T PROVE n + 1 \in T
  <2> SUFFICES ASSUME n + 1 <= L
               PROVE  BytesOfLast((n + 1) + 1, more) = BytesOfLast(n + 1, ms) \o Bytes(m)
    OBVIOUS
  <2>1. /\ n + 1 \in 1 .. L /\ n \in 0 .. L /\ (n + 1) - 1 = n
        /\ (n + 1) + 1 \in 1 .. L + 1 /\ ((n + 1) + 1) - 1 = n + 1
        /\ (L + 1) - ((n + 1) + 1) + 1 = L - (n + 1) + 1
        /\ L - (n + 1) + 1 \in 1 .. L
    BY <1>1
  <2> DEFINE a == Bytes(ms[L - (n + 1) + 1])
             b == BytesOfLast(n, ms)
             e == Bytes(m)
  <2>2. BytesOfLast(n + 1, more) = b \o e
    BY <1>6, <2>1
  <2>3. BytesOfLast((n + 1) + 1, more) = a \o (b \o e)
    <3>1. BytesOfLast((n + 1) + 1, more)
            = Bytes(more[L - (n + 1) + 1]) \o BytesOfLast(n + 1, more)
      BY <1>2, <2>1
    <3> QED BY <1>1, <2>1, <2>2, <3>1
  <2>4. BytesOfLast(n + 1, ms) = a \o b
    BY <1>3, <2>1
  <2>5. a \in Seq(Byte) /\ b \in Seq(Byte) /\ e \in Seq(Byte)
    BY <1>3, <1>4, <2>1
  <2> HIDE DEF a, b, e
  <2>6. Associates(a, b, e)
    BY <2>5, ConcatLaws
  <2> QED BY <2>3, <2>4, <2>6 DEF Associates, e
<1> HIDE DEF T
<1>7. \A n \in Nat : n \in T
  BY <1>5, <1>6, AllNumbers
<1> QED
  BY <1>1, <1>7 DEF T, L, more

(* What is reported has been written.                                      *)
LEMMA ReportsAreWritten ==
  ASSUME written \in Seq(Outgoing), NEW res \in Seq(Result), ReportsWritten(res), ~ HasFailed(res)
  PROVE  Len(res) <= Len(written)
<1>1. Len(res) \in Nat /\ DOMAIN res = 1 .. Len(res) /\ Len(written) \in Nat
  BY LenProperties
<1>2. CASE Len(res) = 0
  BY <1>1, <1>2
<1>3. CASE Len(res) # 0
  <2>1. Len(res) \in DOMAIN res /\ \A j \in 1 .. Len(res) - 1 : j \in DOMAIN res
    BY <1>1, <1>3
  <2>2. \A j \in 1 .. Len(res) - 1 : res[j] # Error
    BY <2>1, Zenon DEF HasFailed
  <2> QED BY <2>1, <2>2, Zenon DEF ReportsWritten
<1> QED
  BY <1>2, <1>3

(* The inductive invariant: the ingester holds a part of a message, and it *)
(* does not wait for the end of what is complete.                          *)
IngesterInv ==
  /\ TypeOK
  /\ FramingKept
  /\ ~ HasFailed(results) => Partial(incomplete)

LEMMA IngesterStarts == Init => IngesterInv
<1> SUFFICES ASSUME Init PROVE IngesterInv
  OBVIOUS
<1>1. written = <<>> /\ stream = <<>> /\ incomplete = NoBytes /\ results = <<>>
  BY DEF Init
<1>2. /\ written \in Seq(Outgoing) /\ Len(written) = 0 /\ stream \in Seq(Byte)
      /\ results \in Seq(Result) /\ Len(results) = 0 /\ DOMAIN results = {}
  BY <1>1
<1>3. IncompleteOK(incomplete) /\ Partial(incomplete) /\ Held(incomplete) = <<>>
  BY <1>1 DEF IncompleteOK, Partial, Held, NoBytes
<1>4. TypeOK
  BY <1>2, <1>3, IngesterAssumption DEF TypeOK
<1>5. ReportsWritten(results)
  BY <1>2 DEF ReportsWritten
<1>6. Held(incomplete) \o stream = BytesOfLast(Len(written) - Len(results), written)
  <2>1. Held(incomplete) \o stream = <<>>
    BY <1>1, <1>3
  <2>2. BytesOfLast(0, written) = <<>>
    BY <1>2, LastBytes
  <2>3. Len(written) - Len(results) = 0
    BY <1>2
  <2> QED BY <2>1, <2>2, <2>3
<1> QED
  BY <1>3, <1>4, <1>5, <1>6, Zenon DEF IngesterInv, FramingKept

(* A message that is written.                                              *)
LEMMA WritesKeeps ==
  ASSUME IngesterInv, NEW m \in Outgoing, Writes(m)
  PROVE  IngesterInv'
<1>1. /\ written \in Seq(Outgoing) /\ Len(written) <= MaxWrites /\ stream \in Seq(Byte)
      /\ IncompleteOK(incomplete) /\ results \in Seq(Result)
      /\ ReportsWritten(results)
      /\ ~ HasFailed(results) =>
           /\ Partial(incomplete)
           /\ Held(incomplete) \o stream = BytesOfLast(Len(written) - Len(results), written)
  BY DEF IngesterInv, TypeOK, FramingKept
<1>2. /\ Len(written) < MaxWrites /\ written' = Append(written, m)
      /\ stream' = stream \o Bytes(m) /\ incomplete' = incomplete /\ results' = results
  BY DEF Writes
<1>3. /\ written' \in Seq(Outgoing) /\ Len(written') = Len(written) + 1
      /\ \A i \in 1 .. Len(written) : written'[i] = written[i]
      /\ Len(written) \in Nat
  BY <1>1, <1>2, AppendProperties, LenProperties
<1>4. Bytes(m) \in Seq(Byte)
  BY BytesOfMessage
<1>5. TypeOK'
  <2>1. Len(written') <= MaxWrites
    BY <1>2, <1>3, IngesterAssumption
  <2>2. stream' \in Seq(Byte)
    BY <1>1, <1>2, <1>4, ConcatProperties
  <2> QED BY <1>1, <1>2, <1>3, <2>1, <2>2 DEF TypeOK
<1>6. ReportsWritten(results)'
  <2> SUFFICES ASSUME NEW i \in DOMAIN results, \A j \in 1 .. i - 1 : results[j] # Error
      PROVE /\ i <= Len(written')
            /\ IF results[i] = Error THEN IsOversize(written'[i])
                                     ELSE results[i] = ResultOf(written'[i])
    BY <1>2, Zenon DEF ReportsWritten
  <2>1. /\ i <= Len(written)
        /\ IF results[i] = Error THEN IsOversize(written[i])
                                 ELSE results[i] = ResultOf(written[i])
    BY <1>1, Zenon DEF ReportsWritten
  <2>2. i \in 1 .. Len(written) /\ i <= Len(written')
    BY <1>1, <1>3, <2>1, LenProperties
  <2> QED BY <1>3, <2>1, <2>2, Zenon
<1>7. ASSUME ~ HasFailed(results)
      PROVE  Held(incomplete) \o stream' = BytesOfLast(Len(written') - Len(results), written')
  <2> DEFINE n == Len(written) - Len(results)
  <2>1. Len(results) <= Len(written) /\ Len(results) \in Nat
    BY <1>1, <1>7, ReportsAreWritten, LenProperties
  <2>2. n \in 0 .. Len(written) /\ Len(written') - Len(results) = n + 1
    BY <1>3, <2>1
  <2> HIDE DEF n
  <2>3. BytesOfLast(n + 1, written') = BytesOfLast(n, written) \o Bytes(m)
    BY <1>1, <1>2, <2>2, LastBytesGrow
  <2>4. Held(incomplete) \in Seq(Byte)
    BY <1>1, HeldIs
  <2>5. Associates(Held(incomplete), stream, Bytes(m))
    BY <1>1, <1>4, <2>4, ConcatLaws
  <2>6. Held(incomplete) \o stream = BytesOfLast(n, written)
    BY <1>1, <1>7 DEF n
  <2> QED BY <1>2, <2>2, <2>3, <2>5, <2>6, Zenon DEF Associates
<1>8. FramingKept'
  BY <1>2, <1>6, <1>7, Zenon DEF FramingKept
<1> QED
  BY <1>1, <1>2, <1>5, <1>8, Zenon DEF IngesterInv

(* A read of any number of bytes.                                          *)
LEMMA ReadsKeeps ==
  ASSUME IngesterInv, NEW n \in 1 .. Len(stream), Reads(n)
  PROVE  IngesterInv'
<1> DEFINE bytes == SubSeq(stream, 1, n)
           rest  == SubSeq(stream, n + 1, Len(stream))
           c     == TakeBytes(bytes)
<1>1. /\ written \in Seq(Outgoing) /\ Len(written) <= MaxWrites /\ stream \in Seq(Byte)
      /\ IncompleteOK(incomplete) /\ results \in Seq(Result)
      /\ ReportsWritten(results)
      /\ ~ HasFailed(results) =>
           /\ Partial(incomplete)
           /\ Held(incomplete) \o stream = BytesOfLast(Len(written) - Len(results), written)
  BY DEF IngesterInv, TypeOK, FramingKept
<1>2. stream' = rest /\ incomplete' = c.inc /\ results' = c.res /\ written' = written
  BY DEF Reads
<1> HIDE DEF bytes, rest, c
<1>3. bytes \in Seq(Byte) /\ rest \in Seq(Byte) /\ stream = bytes \o rest
  <2>1. n \in Nat /\ n <= Len(stream)
    BY <1>1, LenProperties
  <2> QED BY <1>1, <2>1, Piece, Zenon DEF bytes, rest
<1>4. Keeps(incomplete, results, bytes, rest)
  <2>1. Held(incomplete) \in Seq(Byte)
    BY <1>1, HeldIs
  <2>2. Associates(Held(incomplete), bytes, rest)
    BY <1>3, <2>1, ConcatLaws
  <2>3. (Held(incomplete) \o bytes) \o rest = Held(incomplete) \o stream
    BY <1>3, <2>2, Zenon DEF Associates
  <2> QED BY <1>1, <1>3, <2>3, Zenon DEF Keeps
<1>5. KeepsCall(c, rest) /\ (HasFailed(c.res) \/ c.left = <<>>)
  BY <1>1, <1>3, <1>4, TakeBytesKeeps DEF c
<1>6. /\ IncompleteOK(c.inc) /\ c.res \in Seq(Result) /\ ReportsWritten(c.res)
      /\ ~ HasFailed(c.res) =>
           /\ Partial(c.inc) /\ c.left = <<>>
           /\ (Held(c.inc) \o c.left) \o rest = BytesOfLast(Len(written) - Len(c.res), written)
  BY <1>5 DEF KeepsCall, Keeps
<1>7. TypeOK'
  BY <1>1, <1>2, <1>3, <1>6 DEF TypeOK
<1>8. ReportsWritten(results)'
  BY <1>2, <1>6, Zenon DEF ReportsWritten
<1>9. ~ HasFailed(c.res) => Held(c.inc) \o rest = BytesOfLast(Len(written) - Len(c.res), written)
  <2>1. Held(c.inc) \in Seq(Byte)
    BY <1>6, HeldIs
  <2>2. Held(c.inc) \o <<>> = Held(c.inc)
    BY <2>1, ConcatLaws
  <2> QED BY <1>6, <2>2, Zenon
<1>10. FramingKept'
  BY <1>2, <1>8, <1>9, Zenon DEF FramingKept
<1> QED
  BY <1>2, <1>6, <1>7, <1>10, Zenon DEF IngesterInv

(* The ingester keeps its invariant: its types, the framing, and that what *)
(* is complete is reported at once.                                        *)
THEOREM IngesterInvariance == Spec => []IngesterInv
<1>1. Init => IngesterInv
  BY IngesterStarts
<1>2. IngesterInv /\ [Next]_vars => IngesterInv'
  <2> SUFFICES ASSUME IngesterInv, [Next]_vars PROVE IngesterInv'
    OBVIOUS
  <2>1. CASE \E m \in Outgoing : Writes(m)
    BY <2>1, WritesKeeps
  <2>2. CASE \E n \in 1 .. Len(stream) : Reads(n)
    BY <2>2, ReadsKeeps
  <2>3. CASE UNCHANGED vars
    <3>1. written' = written /\ stream' = stream /\ incomplete' = incomplete
          /\ results' = results
      BY <2>3 DEF vars
    <3>2. TypeOK'
      BY <3>1 DEF IngesterInv, TypeOK
    <3>3. FramingKept'
      BY <3>1, Zenon DEF IngesterInv, FramingKept, ReportsWritten
    <3> QED BY <3>1, <3>2, <3>3, Zenon DEF IngesterInv
  <2> QED BY <2>1, <2>2, <2>3 DEF Next
<1> QED
  BY <1>1, <1>2, PTL DEF Spec

(* The variables of the ingester keep their types: no more is held of a    *)
(* head than a head, and no more of a body than was announced.             *)
THEOREM IngesterTypes == Spec => []TypeOK
<1>1. IngesterInv => TypeOK
  BY DEF IngesterInv
<1> QED
  BY <1>1, IngesterInvariance, PTL

(* Whatever pieces the stream arrives in, the messages are reported as     *)
(* they were written, each once and in order, and no byte is lost.         *)
THEOREM MessagesAreFramed == Spec => []FramingKept
<1>1. IngesterInv => FramingKept
  BY DEF IngesterInv
<1> QED
  BY <1>1, IngesterInvariance, PTL

(* A whole message is only held if it is empty data.                       *)
LEMMA HoldsNoMessage ==
  ASSUME NEW inc, IncompleteOK(inc), Partial(inc), NEW m \in Outgoing, NEW r \in Seq(Byte),
         Held(inc) = Bytes(m) \o r
  PROVE  m.id = DATA /\ m.body = <<>> /\ r = <<>>
<1> DEFINE all == Bytes(m) \o r
<1>1. /\ Bytes(m) \in Seq(Byte) /\ Bytes(m)[1] = m.id
      /\ Len(Bytes(m)) >= 1 + HeadLen(m.id) /\ HeadLen(m.id) \in Nat /\ Len(Bytes(m)) \in Nat
  <2>1. HeadLen(m.id) \in Nat /\ Len(m.body) \in Nat
    BY PartsOfMessage, LenProperties
  <2> QED BY <2>1, BytesOfMessage, LenProperties
<1>2. /\ Len(all) >= 1 + HeadLen(m.id) /\ Len(all) \in Nat /\ all[1] = m.id
  <2>1. /\ Len(all) = Len(Bytes(m)) + Len(r)
        /\ \A i \in 1 .. Len(Bytes(m)) + Len(r) :
             all[i] = IF i <= Len(Bytes(m)) THEN Bytes(m)[i] ELSE r[i - Len(Bytes(m))]
    BY <1>1, ConcatProperties
  <2>2. Len(r) \in Nat
    BY LenProperties
  <2> QED BY <1>1, <2>1, <2>2
<1> HIDE DEF all
<1>3. CASE inc.kind # "Data"
  <2>1. inc.held = all
    BY <1>3, HeldIs, Zenon DEF all
  <2>2. inc = NoBytes \/ inc.kind = "Bytes"
    BY <1>3, Zenon DEF IncompleteOK
  <2>3. inc # NoBytes
    <3>1. Len(<<>>) = 0 /\ Len(all) # 0
      BY <1>1, <1>2, EmptySeq
    <3>2. NoBytes.held = <<>>
      BY DEF NoBytes
    <3> QED BY <2>1, <3>1, <3>2, Zenon
  <2>4. Len(inc.held) < 1 + HeadLen(inc.held[1])
    BY <2>2, <2>3, Zenon DEF Partial
  <2>5. Len(all) < 1 + HeadLen(m.id)
    BY <1>2, <2>1, <2>4
  <2> QED BY <1>1, <1>2, <2>5
<1>4. CASE inc.kind = "Data"
  <2> DEFINE head == inc.head
             body == inc.body
  <2>1. /\ head \in [1 .. 8 -> Byte] /\ body \in Seq(Byte)
        /\ Held(inc) = (<<DATA>> \o head) \o body
        /\ body = <<>> \/ Len(body) < BodyLen(head)
    BY <1>4, HeldIs, Zenon DEF Partial
  <2> HIDE DEF head, body
  <2>2. head \in Seq(Byte) /\ Len(head) = HeadLen(DATA) /\ DATA \in Byte
    BY <2>1, Heads
  <2>3. Begins(DATA, head, body, m, r)
    BY <2>1, Zenon DEF Begins
  <2>4. \A id \in Byte, hd \in Seq(Byte), y \in Seq(Byte), ms \in Outgoing, z \in Seq(Byte) :
          Len(hd) = HeadLen(id) /\ Begins(id, hd, y, ms, z) =>
            id = ms.id /\ hd = ms.head /\ y = ms.body \o z
    BY SameHead
  <2>5. Len(head) = HeadLen(DATA) /\ DATA \in Byte /\ head \in Seq(Byte) /\ body \in Seq(Byte)
    BY <2>1, <2>2
  <2>6. DATA = m.id /\ head = m.head /\ body = m.body \o r
    BY <2>3, <2>4, <2>5
  <2>7. /\ m.body \in Seq(Byte) /\ Len(m.body) = BodyLen(head)
        /\ Len(body) = Len(m.body) + Len(r) /\ Len(m.body) \in Nat /\ Len(r) \in Nat
    <3>1. m.body \in Seq(Byte) /\ Len(m.body) = BodyLen(head)
      BY <2>6, PartsOfMessage
    <3>2. Len(m.body \o r) = Len(m.body) + Len(r) /\ Len(m.body) \in Nat /\ Len(r) \in Nat
      BY <3>1, ConcatProperties, LenProperties
    <3> QED BY <2>6, <3>1, <3>2
  <2>8. Len(m.body) = 0 /\ Len(r) = 0
    <3>1. body = <<>> => Len(body) = 0
      BY EmptySeq
    <3> QED BY <2>1, <2>7, <3>1
  <2>9. m.body = <<>> /\ r = <<>>
    BY <2>7, <2>8, EmptySeq
  <2> QED BY <2>6, <2>9
<1> QED
  BY <1>3, <1>4

(* A message is reported with its last byte, unless it is empty data.      *)
THEOREM OnlyEmptyWait == Spec => []OnlyEmptyMessagesWait
<1>1. IngesterInv => OnlyEmptyMessagesWait
  <2> DEFINE m == written[Len(results) + 1]
  <2> SUFFICES ASSUME IngesterInv, ~ HasFailed(results), Len(results) < Len(written),
                      Held(incomplete) = Bytes(m)
               PROVE  m.id = DATA /\ m.body = <<>>
    BY Zenon DEF OnlyEmptyMessagesWait
  <2>1. IncompleteOK(incomplete) /\ Partial(incomplete)
    BY Zenon DEF IngesterInv, TypeOK
  <2>2. m \in Outgoing
    <3>1. Len(results) + 1 \in 1 .. Len(written) /\ written \in Seq(Outgoing)
      BY LenProperties DEF IngesterInv, TypeOK
    <3> QED BY <3>1, ElementOfSeq
  <2> HIDE DEF m
  <2>3. <<>> \in Seq(Byte) /\ Bytes(m) \o <<>> = Bytes(m)
    <3>1. Bytes(m) \in Seq(Byte) /\ <<>> \in Seq(Byte)
      BY <2>2, BytesOfMessage, EmptySeq
    <3> QED BY <3>1, ConcatLaws
  <2> DEFINE none == <<>>
  <2>4. none \in Seq(Byte) /\ Held(incomplete) = Bytes(m) \o none
    BY <2>3
  <2> HIDE DEF none
  <2> QED BY <2>1, <2>2, <2>4, HoldsNoMessage
<1> QED
  BY <1>1, IngesterInvariance, PTL

(* When the stream is read to its end, all messages are reported, but for  *)
(* an empty one that came last.                                            *)
ReportsAll ==
  stream = <<>> =>
    /\ \A i \in DOMAIN results : i <= Len(written) /\ results[i] = ResultOf(written[i])
    /\ \/ Len(results) = Len(written)
       \/ /\ Len(results) + 1 = Len(written)
          /\ written[Len(written)].id = DATA /\ written[Len(written)].body = <<>>

(* With messages within the receiver's limit take_bytes reports no error,  *)
(* and reports each message, wherever the stream is cut.                   *)
THEOREM NoneIsMissed ==
  ASSUME \A m \in Outgoing : ~ IsOversize(m)
  PROVE  Spec => [](~ HasFailed(results) /\ ReportsAll)
<1>1. ASSUME IngesterInv PROVE ~ HasFailed(results) /\ ReportsAll
  <2>1. /\ written \in Seq(Outgoing) /\ results \in Seq(Result) /\ stream \in Seq(Byte)
        /\ IncompleteOK(incomplete) /\ ReportsWritten(results)
        /\ ~ HasFailed(results) =>
             /\ Partial(incomplete)
             /\ Held(incomplete) \o stream = BytesOfLast(Len(written) - Len(results), written)
    BY <1>1 DEF IngesterInv, TypeOK, FramingKept
  <2>2. /\ DOMAIN results = 1 .. Len(results) /\ Len(results) \in Nat /\ Len(written) \in Nat
    BY <2>1, LenProperties
  <2>3. \A i \in DOMAIN results : (\A j \in 1 .. i - 1 : results[j] # Error) =>
          i <= Len(written) /\ results[i] # Error /\ results[i] = ResultOf(written[i])
    <3> SUFFICES ASSUME NEW i \in DOMAIN results, \A j \in 1 .. i - 1 : results[j] # Error
                 PROVE  i <= Len(written) /\ results[i] # Error
                        /\ results[i] = ResultOf(written[i])
      OBVIOUS
    <3>1. /\ i <= Len(written)
          /\ IF results[i] = Error THEN IsOversize(written[i])
                                   ELSE results[i] = ResultOf(written[i])
      BY <2>1, Zenon DEF ReportsWritten
    <3>2. written[i] \in Outgoing
      <4>1. i \in 1 .. Len(written)
        BY <2>2, <3>1
      <4> QED BY <2>1, <4>1, ElementOfSeq
    <3> QED BY <3>1, <3>2
  <2>4. \A i \in DOMAIN results : results[i] # Error
    <3> DEFINE Bad == {i \in Nat : i \in DOMAIN results /\ results[i] = Error}
    <3> SUFFICES ASSUME Bad # {} PROVE FALSE
      BY <2>2
    <3>1. PICK i \in Bad : \A j \in Bad : i <= j
      BY LeastElement
    <3>2. \A j \in 1 .. i - 1 : results[j] # Error
      BY <2>2, <3>1
    <3> QED BY <2>3, <3>1, <3>2
  <2>5. ~ HasFailed(results)
    BY <2>4, Zenon DEF HasFailed
  <2>6. \A i \in DOMAIN results : i <= Len(written) /\ results[i] = ResultOf(written[i])
    <3>1. \A i \in DOMAIN results : \A j \in 1 .. i - 1 : j \in DOMAIN results
      BY <2>2
    <3> QED BY <2>3, <2>4, <3>1, Zenon
  <2>7. ASSUME stream = <<>>, Len(results) # Len(written)
        PROVE  /\ Len(results) + 1 = Len(written)
               /\ written[Len(written)].id = DATA /\ written[Len(written)].body = <<>>
    <3> DEFINE n == Len(written) - Len(results)
               m == written[Len(results) + 1]
               r == BytesOfLast(n - 1, written)
    <3>1. Len(results) <= Len(written)
      BY <2>1, <2>5, ReportsAreWritten
    <3>2. n \in 1 .. Len(written) /\ n - 1 \in 0 .. Len(written)
          /\ Len(written) - n + 1 = Len(results) + 1 /\ Len(results) + 1 \in 1 .. Len(written)
      BY <2>2, <2>7, <3>1
    <3>3. m \in Outgoing
      BY <2>1, <3>2, ElementOfSeq
    <3>4. r \in Seq(Byte) /\ BytesOfLast(n, written) = Bytes(m) \o r
      BY <2>1, <3>2, LastBytes
    <3>5. Held(incomplete) = Bytes(m) \o r
      <4>1. Held(incomplete) \in Seq(Byte)
        BY <2>1, HeldIs
      <4>2. Held(incomplete) \o <<>> = Held(incomplete)
        BY <4>1, ConcatLaws
      <4> QED BY <2>1, <2>5, <2>7, <3>4, <4>2, Zenon
    <3> HIDE DEF m, r
    <3>6. m.id = DATA /\ m.body = <<>> /\ r = <<>>
      BY <2>1, <2>5, <3>3, <3>4, <3>5, HoldsNoMessage
    <3>7. n - 1 = 0
      <4> SUFFICES ASSUME n - 1 # 0 PROVE FALSE
        OBVIOUS
      <4> DEFINE later == written[Len(written) - (n - 1) + 1]
                 last  == BytesOfLast((n - 1) - 1, written)
      <4>1. n - 1 \in 1 .. Len(written) /\ (n - 1) - 1 \in 0 .. Len(written)
            /\ Len(written) - (n - 1) + 1 \in 1 .. Len(written)
        BY <2>2, <3>2
      <4>2. later \in Outgoing
        BY <2>1, <4>1, ElementOfSeq
      <4>3. last \in Seq(Byte) /\ r = Bytes(later) \o last
        BY <2>1, <4>1, LastBytes DEF r
      <4> HIDE DEF later, last
      <4>4. Bytes(later) \in Seq(Byte) /\ Len(Bytes(later)) \in Nat /\ Len(Bytes(later)) # 0
        <5>1. HeadLen(later.id) \in Nat /\ Len(later.body) \in Nat
          BY <4>2, PartsOfMessage, LenProperties
        <5> QED BY <4>2, <5>1, BytesOfMessage
      <4>5. Len(Bytes(later) \o last) = Len(Bytes(later)) + Len(last) /\ Len(last) \in Nat
        BY <4>3, <4>4, ConcatProperties, LenProperties
      <4>6. Len(Bytes(later) \o last) # 0
        BY <4>4, <4>5
      <4>7. Len(r) # 0 /\ Len(<<>>) = 0
        BY <4>3, <4>6, EmptySeq
      <4> QED BY <3>6, <4>7, Zenon
    <3>8. Len(results) + 1 = Len(written)
      BY <2>2, <3>7
    <3> QED BY <3>6, <3>8 DEF m
  <2> QED BY <2>5, <2>6, <2>7, Zenon DEF ReportsAll
<1> QED
  BY <1>1, IngesterInvariance, PTL
=============================================================================
