------------------------- MODULE MCReliableTransfer -------------------------
(***************************************************************************)
(* Constants of the TLC runs of ReliableTransfer.  Lengths are in units of *)
(* a fragment's size (MaxFragmentInnerSize = 2), delays in units of        *)
(* AckSendInterval, scaled down (README.md says how).                      *)
(***************************************************************************)
EXTENDS ReliableTransfer

SeqDef == 0 .. MaxMessages - 1

Msg(len, encryption, key, expires) ==
  [len |-> len, encryption |-> encryption, key |-> key, expires |-> expires]

(* One fragment, encrypted or not, key or not, and two fragments in clear. *)
SoundMessages ==
  {Msg(1, TRUE, TRUE, FALSE), Msg(1, FALSE, FALSE, FALSE), Msg(4, FALSE, TRUE, FALSE),
   Msg(4, FALSE, TRUE, TRUE), Msg(0, FALSE, TRUE, FALSE)}

(* The same, without the messages that are refused or not acknowledged.    *)
KeyMessages == {Msg(1, TRUE, TRUE, FALSE), Msg(4, FALSE, TRUE, FALSE)}

(* Two fragments, encrypted: the default options.                          *)
TwoEncryptedFragments == {Msg(3, TRUE, TRUE, FALSE)}

(* No byte at all, encrypted.                                              *)
EmptyEncrypted == {Msg(0, TRUE, TRUE, FALSE)}

(* With two bits in a byte, three fragments are one more than an ack has   *)
(* bits for; the message expires before the sender can believe the ack.    *)
PanickingMessages == EmptyEncrypted \cup {Msg(6, FALSE, TRUE, TRUE)}

AsyncMessages == KeyMessages \cup PanickingMessages

(* Nine fragments: frag_total is 8, the number of bits in a byte.          *)
NineFragments == {Msg(18, FALSE, TRUE, FALSE)}
=============================================================================
