--------------------------- MODULE Fragmentation ---------------------------
(***************************************************************************)
(* How the bytes of a message are cut into fragments (rbtl-rudp,           *)
(* fragment/frag_generation.rs, fragment/mod.rs, consts.rs).               *)
(***************************************************************************)
EXTENDS Integers

CONSTANTS
  MaxFragmentInnerSize,     \* bytes carried by one fragment; 1152 in the code
  MaxFragmentsInMessage,    \* 256 in the code
  CipherOverhead            \* bytes ChaCha20Poly1305 adds to a plaintext: 16

ASSUME FragmentationAssumption ==
  /\ MaxFragmentInnerSize \in Nat \ {0}
  /\ MaxFragmentsInMessage \in Nat \ {0}
  /\ CipherOverhead \in Nat

FragCount(len) ==
  IF len % MaxFragmentInnerSize = 0
    THEN len \div MaxFragmentInnerSize
    ELSE len \div MaxFragmentInnerSize + 1

(* An empty message and one of too many fragments are refused.             *)
CanFragment(len) == FragCount(len) \in 1 .. MaxFragmentsInMessage

(* The id of the last fragment.                                            *)
FragTotal(len) == FragCount(len) - 1

(* What encrypting a plaintext of len bytes yields.                        *)
CipherLen(len) == len + CipherOverhead
=============================================================================
