-------------------------- MODULE MessageDelivery --------------------------
(***************************************************************************)
(* What the reliable transfer of rbtl-rudp promises, with no fragments,    *)
(* no acks, no network and no clock.                                       *)
(*                                                                         *)
(*   - only what was sent is delivered;                                    *)
(*   - a key message is promised from the moment it is sent, and the       *)
(*     sender gives the promise up only when it has confirmed the delivery *)
(*     or when the message may expire;                                     *)
(*   - it confirms a delivery only after it has happened;                  *)
(*   - a promised message is eventually delivered.                         *)
(***************************************************************************)
EXTENDS Naturals

CONSTANT Messages

VARIABLES
  sent, promised, delivered, confirmed,
  expiring       \* those of sent the sender may give up on

vars == <<sent, promised, delivered, confirmed, expiring>>

TypeOK ==
  /\ sent \subseteq Messages
  /\ promised \subseteq sent
  /\ delivered \subseteq sent
  /\ confirmed \subseteq promised
  /\ expiring \subseteq sent

Init ==
  sent = {} /\ promised = {} /\ delivered = {} /\ confirmed = {} /\ expiring = {}

Send(m) ==
  /\ m \notin sent
  /\ sent' = sent \cup {m}
  /\ promised' \in {promised, promised \cup {m}}
  /\ expiring' \in {expiring, expiring \cup {m}}
  /\ UNCHANGED <<delivered, confirmed>>

Deliver(m) ==
  /\ m \in sent \ delivered
  /\ delivered' = delivered \cup {m}
  /\ UNCHANGED <<sent, promised, confirmed, expiring>>

(* The sender confirms the messages of one set and forgets those of        *)
(* another, in one step of its clock.                                      *)
Settle(learnt, forgotten) ==
  /\ learnt \subseteq promised \cap delivered
  /\ forgotten \subseteq confirmed \cup (promised \cap expiring)
  /\ promised' = promised \ forgotten
  /\ confirmed' = (confirmed \cup learnt) \ forgotten
  /\ UNCHANGED <<sent, delivered, expiring>>

Next ==
  \/ \E m \in Messages : Send(m) \/ Deliver(m)
  \/ \E learnt, forgotten \in SUBSET Messages : Settle(learnt, forgotten)

SafeSpec == Init /\ [][Next]_vars

KeepsPromise(m) == m \in promised /\ Deliver(m)

Spec == SafeSpec /\ \A m \in Messages : WF_vars(KeepsPromise(m))
=============================================================================
