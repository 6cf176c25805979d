----------------------------- MODULE MCReceiver -----------------------------
(***************************************************************************)
(* Constants of the TLC run of Receiver: a message of two fragments, first *)
(* sent encrypted as key and sent again in clear, and an expiring one of   *)
(* three, one of which never arrives.  With two bits in a byte the first   *)
(* has a bit for each fragment in its acks and the second does not, like   *)
(* messages of 8 and of 9 fragments in the code.                           *)
(***************************************************************************)
EXTENDS Receiver

SeqDef == {0, 1}

(* frag_total of the two messages.                                         *)
TotalOfDef == [q \in SeqDef |-> IF q = 0 THEN 1 ELSE 2]

Sent(q, total, key, expire, enc) ==
  [seq : {q}, id : 0 .. total, total : {total}, key : {key}, expire : {expire}, enc : {enc}]

IncomingDef ==
  Sent(0, 1, TRUE, FALSE, TRUE) \cup Sent(0, 1, FALSE, FALSE, FALSE)
    \cup {f \in Sent(1, 2, TRUE, TRUE, FALSE) : f.id # 1}
=============================================================================
