----------------------------- MODULE MCIngester -----------------------------
(***************************************************************************)
(* Constants of the TLC run of Ingester.  A message may hold two bytes;    *)
(* the bodies look like ids and heads, to be misread as such.              *)
(***************************************************************************)
EXTENDS Ingester

Data(seq, body) == [id |-> DATA, head |-> WriteU32(seq) \o WriteU32(Len(body)), body |-> body]
Receipt(seq)    == [id |-> STATUS, head |-> WriteU32(seq), body |-> <<>>]
Beat            == [id |-> HEARTBEAT, head |-> <<>>, body |-> <<>>]

(* The last message exceeds the limit.                                     *)
OutgoingDef ==
  {Data(1, <<>>), Data(2 ^ 24, <<2>>), Data(2, <<1, 0>>), Receipt(2 ^ 25 + 1), Beat,
   Data(3 * 256 + 3, <<2, 1, 3>>)}
=============================================================================
