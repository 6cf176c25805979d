------------------------------ MODULE Ingester ------------------------------
(***************************************************************************)
(* The framing of rbtl-tcp: how a socket writes its messages into the byte *)
(* stream (socket.rs), and how the Ingester of the other socket finds them *)
(* again, whatever pieces the stream arrives in (ingester.rs).             *)
(*                                                                         *)
(* A message is an id byte, a head of fixed length, and for data a body:   *)
(*     data       0, sequence id, length of the body, body                 *)
(*     status     1, sequence id (the receipt of a data message)           *)
(*     heartbeat  2                                                        *)
(***************************************************************************)
EXTENDS ByteOrder

CONSTANTS
  MaxMsgLen,     \* SocketConfig::max_msg_len of the receiving socket
  Outgoing,      \* the messages a socket may write
  MaxWrites      \* bound: messages written

ASSUME IngesterAssumption == MaxMsgLen \in U32 /\ MaxWrites \in Nat

DATA == 0
STATUS == 1
HEARTBEAT == 2

HeadLen(id) == CASE id = DATA -> 8 [] id = STATUS -> 4 [] OTHER -> 0

SeqIdOf(head) == ReadU32(head)
BodyLen(head) == ReadU32(SubSeq(head, 5, 8))

(* A message that is written: its id byte, its head and its body.          *)
Bytes(m) == <<m.id>> \o m.head \o m.body

ASSUME OutgoingAssumption ==
  \A m \in Outgoing :
    /\ m.id \in {DATA, STATUS, HEARTBEAT}
    /\ m.head \in [1 .. HeadLen(m.id) -> Byte] /\ m.body \in Seq(Byte)
    /\ Len(m.body) = IF m.id = DATA THEN BodyLen(m.head) ELSE 0

VARIABLES
  written,       \* history: the messages written into the stream
  stream,        \* bytes that are not read yet
  incomplete,    \* Ingester::incomplete
  results        \* history: every result the ingester pushed

vars == <<written, stream, incomplete, results>>

NoBytes == [kind |-> "None", held |-> <<>>]
HeldBytes(bytes) == [kind |-> "Bytes", held |-> bytes]
IncompleteData(head, body) == [kind |-> "Data", head |-> head, body |-> body]

DataResult(head, body) == [kind |-> "Data", seq |-> SeqIdOf(head), body |-> body]
SeqIdOk(head)          == [kind |-> "SeqIdOk", seq |-> SeqIdOf(head)]
HeartbeatResult        == [kind |-> "Heartbeat"]
Error                  == [kind |-> "Error"]

Init ==
  /\ written = <<>> /\ stream = <<>>
  /\ incomplete = NoBytes /\ results = <<>>

(* The socket writes a whole message.                                      *)
Writes(m) ==
  /\ Len(written) < MaxWrites
  /\ written' = Append(written, m)
  /\ stream' = stream \o Bytes(m)
  /\ UNCHANGED <<incomplete, results>>

-----------------------------------------------------------------------------
(* take_bytes calls itself with the bytes it has left: a call in progress  *)
(* is the ingester and those bytes.                                        *)
Call(inc, res, left) == [inc |-> inc, res |-> res, left |-> left]

(* Mutant of TakeBody: whatever there is belongs to the body.              *)
TakeBodyGreedily(c) ==
  LET body == c.inc.body \o c.left
  IN  IF Len(body) = BodyLen(c.inc.head)
        THEN Call(NoBytes, Append(c.res, DataResult(c.inc.head, body)), <<>>)
        ELSE Call(IncompleteData(c.inc.head, body), c.res, <<>>)

(* Mutant of TakeBody: a body is complete when a byte follows it.          *)
TakeBodyLazily(c) ==
  LET missing == BodyLen(c.inc.head) - Len(c.inc.body)
      taken   == IF missing < Len(c.left) THEN missing ELSE Len(c.left)
      body    == c.inc.body \o SubSeq(c.left, 1, taken)
  IN  IF missing < Len(c.left)
        THEN Call(NoBytes, Append(c.res, DataResult(c.inc.head, body)),
                  SubSeq(c.left, taken + 1, Len(c.left)))
        ELSE Call(IncompleteData(c.inc.head, body), c.res, <<>>)

(* The body of a data message is awaited.                                  *)
TakeBody(c) ==
  LET missing == BodyLen(c.inc.head) - Len(c.inc.body)
      taken   == IF missing < Len(c.left) THEN missing ELSE Len(c.left)
      body    == c.inc.body \o SubSeq(c.left, 1, taken)
  IN  IF taken = missing
        THEN Call(NoBytes, Append(c.res, DataResult(c.inc.head, body)),
                  SubSeq(c.left, taken + 1, Len(c.left)))
        ELSE Call(IncompleteData(c.inc.head, body), c.res, <<>>)

(* Mutant of TakeHead: what is held of the head is forgotten.              *)
TakeHeadAlone(c) ==
  LET id == c.left[1]
  IN  IF Len(c.left) < 1 + HeadLen(id)
        THEN Call(HeldBytes(<<id>>), c.res, <<>>)
        ELSE Call(NoBytes, c.res, SubSeq(c.left, 2 + HeadLen(id), Len(c.left)))

(* An id and a head are awaited, of which some bytes may be held.          *)
TakeHead(c) ==
  LET bytes == c.inc.held \o c.left
      id    == bytes[1]
      next  == 1 + HeadLen(id)
      head  == SubSeq(bytes, 2, next)
      rest  == SubSeq(bytes, next + 1, Len(bytes))
      Fail(inc) == Call(inc, Append(c.res, Error), <<>>)
  IN  IF id \notin {DATA, STATUS, HEARTBEAT} THEN Fail(c.inc)
      ELSE IF Len(bytes) < next THEN Call(HeldBytes(bytes), c.res, <<>>)
      ELSE CASE id = HEARTBEAT -> Call(NoBytes, Append(c.res, HeartbeatResult), rest)
             [] id = STATUS    -> Call(NoBytes, Append(c.res, SeqIdOk(head)), rest)
             [] id = DATA /\ BodyLen(head) > MaxMsgLen ->
                  Fail(IF c.inc.held = <<>> THEN NoBytes ELSE HeldBytes(SubSeq(bytes, 1, next)))
             [] id = DATA /\ ~ (BodyLen(head) > MaxMsgLen) ->
                  Call(IncompleteData(head, <<>>), c.res, rest)

TakeOnce(c) ==
  IF c.left = <<>> THEN c ELSE IF c.inc.kind = "Data" THEN TakeBody(c) ELSE TakeHead(c)

(* Every call takes a byte at least, but for one that finds an empty body. *)
TakeBytes(bytes) ==
  LET after[n \in 0 .. Len(bytes) + 1] ==
        IF n = 0 THEN Call(incomplete, results, bytes) ELSE TakeOnce(after[n - 1])
  IN  after[Len(bytes) + 1]

(* recv_all: one read, of any number of bytes, goes to take_bytes.         *)
Reads(n) ==
  LET c == TakeBytes(SubSeq(stream, 1, n))
  IN  /\ stream' = SubSeq(stream, n + 1, Len(stream))
      /\ incomplete' = c.inc
      /\ results' = c.res
      /\ UNCHANGED written

Next ==
  \/ \E m \in Outgoing : Writes(m)
  \/ \E n \in 1 .. Len(stream) : Reads(n)

Spec == Init /\ [][Next]_vars

-----------------------------------------------------------------------------
(* Properties                                                              *)

Result ==
  [kind : {"Data"}, seq : U32, body : {b \in Seq(Byte) : Len(b) <= MaxMsgLen}]
  \cup [kind : {"SeqIdOk"}, seq : U32] \cup [kind : {"Heartbeat", "Error"}]

ResultOf(m) ==
  CASE m.id = DATA      -> DataResult(m.head, m.body)
    [] m.id = STATUS    -> SeqIdOk(m.head)
    [] m.id = HEARTBEAT -> HeartbeatResult

IsOversize(m) == m.id = DATA /\ BodyLen(m.head) > MaxMsgLen

HasFailed(res) == \E i \in DOMAIN res : res[i] = Error

(* The results res up to the first error are those of the messages that    *)
(* were written, each once and in order, and an error is a message over    *)
(* the limit.  Nothing is promised of what follows.                        *)
ReportsWritten(res) ==
  \A i \in DOMAIN res :
    (\A j \in 1 .. i - 1 : res[j] # Error) =>
      /\ i <= Len(written)
      /\ IF res[i] = Error THEN IsOversize(written[i]) ELSE res[i] = ResultOf(written[i])

(* The bytes of the message that is being read.                            *)
Held(inc) == IF inc.kind = "Data" THEN <<DATA>> \o inc.head \o inc.body ELSE inc.held

(* The bytes of the last n of the messages ms.                             *)
BytesOfLast(n, ms) ==
  LET last[i \in 0 .. Len(ms)] ==
        IF i = 0 THEN <<>> ELSE Bytes(ms[Len(ms) - i + 1]) \o last[i - 1]
  IN  last[n]

(* The types of the variables.  The held part of a head is no longer than  *)
(* the head, or the subtraction of the lengths in take_bytes would wrap;   *)
(* a body is never longer than announced, nor than the configured limit.   *)
IncompleteOK(inc) ==
  \/ inc = NoBytes
  \/ /\ inc.kind = "Bytes" /\ inc = HeldBytes(inc.held)
     /\ inc.held \in Seq(Byte)
     /\ inc.held # <<>> /\ inc.held[1] \in {DATA, STATUS}
     /\ Len(inc.held) <= 1 + HeadLen(inc.held[1])
  \/ /\ inc.kind = "Data" /\ inc = IncompleteData(inc.head, inc.body)
     /\ inc.head \in [1 .. 8 -> Byte] /\ inc.body \in Seq(Byte)
     /\ Len(inc.body) <= BodyLen(inc.head)
     /\ BodyLen(inc.head) <= MaxMsgLen

TypeOK ==
  /\ written \in Seq(Outgoing) /\ Len(written) <= MaxWrites
  /\ stream \in Seq(Byte)
  /\ IncompleteOK(incomplete)
  /\ results \in Seq(Result)

(* However the stream is cut into reads, the ingester reports the messages *)
(* that were written, and it has exactly the bytes of those it has not     *)
(* reported, held or still to be read; an error is only reported of a      *)
(* message that exceeds the limit.                                         *)
FramingKept ==
  /\ ReportsWritten(results)
  /\ ~ HasFailed(results) =>
       Held(incomplete) \o stream = BytesOfLast(Len(written) - Len(results), written)

(* A message is reported with its last byte, except an empty data message, *)
(* which waits for the first byte of the message that follows.             *)
OnlyEmptyMessagesWait ==
  ~ HasFailed(results) /\ Len(results) < Len(written) =>
    LET m == written[Len(results) + 1]
    IN  Held(incomplete) = Bytes(m) => m.id = DATA /\ m.body = <<>>
=============================================================================
