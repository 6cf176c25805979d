------------------------- MODULE FragmentAssembler -------------------------
(***************************************************************************)
(* The receiving half of the reliable transfer (rbtl-rudp,                 *)
(* fragment/frag_assembly.rs), and the Fragment arm of                     *)
(* SocketCommon::add_packet, which drives it.                              *)
(*                                                                         *)
(* Time.  Every Instant of a set is only ever compared with "now", so it   *)
(* is kept as an age, saturated at the largest delay it is compared with.  *)
(* One field is enough for last_received (read while incomplete) and for   *)
(* the completion time (read afterwards).  A last_sent_ack of None permits *)
(* an ack exactly as one AckSendInterval old does: both are ackAge =       *)
(* AckSendInterval.                                                        *)
(*                                                                         *)
(* Data.  The bytes of a fragment follow from its message, its id and      *)
(* whether they were cut from the ciphertext, so they are not kept; a      *)
(* message handed to the application is "intact" or "garbled".             *)
(***************************************************************************)
EXTENDS AckBitmap, FiniteSets

CONSTANTS
  Seq,               \* the sequence ids
  AckSendInterval,   \* 50 ms
  StaleBestEffort,   \* 1 s:  an incomplete set that is not key
  StaleKey,          \* 5 s:  an incomplete key set
  StaleKeyExpiring,  \* 50 s: an incomplete key set whose message expires
  StaleComplete      \* 20 s: a complete set

MaxAcksSent == 2

ASSUME AssemblerAssumption ==
  /\ AckSendInterval \in Nat \ {0}
  /\ StaleBestEffort \in Nat \ {0}
  /\ StaleKey \in Nat \ {0}
  /\ StaleKeyExpiring \in Nat \ {0}
  /\ StaleComplete \in Nat \ {0}

VARIABLES
  pending,           \* pending_fragments: a FragmentAssemblySet per known seq_id
  delivered,         \* the Data events, per seq_id: what the application was given
  receiverPanicked   \* the receiving thread has panicked

assemblerVars == <<pending, delivered, receiverPanicked>>

Fragment ==
  [seq : Seq, id : Nat, total : Nat, key : BOOLEAN, expire : BOOLEAN, enc : BOOLEAN]

AssemblySet ==
  [complete : BOOLEAN, frags : SUBSET Fragment, total : Nat, key : BOOLEAN,
   expire : BOOLEAN, age : Nat, ackAge : 0 .. AckSendInterval, acksSent : 0 .. MaxAcksSent]

(* The copies given to the application are counted up to this bound.       *)
MaxCopies == 2

AssemblerInit ==
  /\ pending = [q \in {} |-> {}]
  /\ delivered = [q \in Seq |-> [intact |-> 0, garbled |-> 0]]
  /\ receiverPanicked = FALSE

Ids(frags) == {f.id : f \in frags}

(* with_capacity: the flags of a set are those of the first fragment seen. *)
NewSet(f) ==
  [complete |-> FALSE, frags |-> {}, total |-> 0, key |-> f.key, expire |-> f.expire,
   age |-> 0, ackAge |-> AckSendInterval, acksSent |-> 0]

KnownSet(f) == IF f.seq \in DOMAIN pending THEN pending[f.seq] ELSE NewSet(f)

(* The first half of push on an incomplete set: a fragment seen before is  *)
(* overridden, and the count of the acks sent restarts.                    *)
WithFragment(s, f) ==
  [s EXCEPT !.frags = {g \in @ : g.id # f.id} \cup {f}, !.age = 0, !.acksSent = 0]

(* Mutant of IsFull: waits for one fragment more than there are.           *)
IsOverfull(s, f) == Cardinality(s.frags) > f.total + 1

IsFull(s, f) == Cardinality(s.frags) > f.total

Completed(s) ==
  [s EXCEPT !.complete = TRUE, !.frags = {}, !.total = Cardinality(s.frags) - 1,
            !.age = 0, !.ackAge = AckSendInterval, !.acksSent = 0]

(* transform_message fails.  Whether the set is decrypted follows from the *)
(* flag of whichever fragment the hash map yields first, and decryption    *)
(* authenticates: it fails unless every byte comes from the ciphertext.    *)
IsCorrupted(s, first, secret) ==
  \/ \E g \in s.frags : g.total # first.total
  \/ first.enc /\ (~ secret \/ \E g \in s.frags : ~ g.enc)

IsMixed(s) == \E g, h \in s.frags : g.enc # h.enc

Put(q, s) == [r \in DOMAIN pending \cup {q} |-> IF r = q THEN s ELSE pending[r]]
Drop(qs)  == [r \in DOMAIN pending \ qs |-> pending[r]]

OneMore(n) == IF n < MaxCopies THEN n + 1 ELSE n

Deliver(q, s) ==
  delivered' = IF IsMixed(s) THEN [delivered EXCEPT ![q].garbled = OneMore(@)]
                             ELSE [delivered EXCEPT ![q].intact = OneMore(@)]

(* The set is already complete: nothing that is read later changes.        *)
PushComplete(f) ==
  /\ KnownSet(f).complete
  /\ UNCHANGED assemblerVars

(* More fragments are needed.                                              *)
PushIncomplete(f) ==
  LET s == WithFragment(KnownSet(f), f)
  IN  /\ ~ KnownSet(f).complete
      /\ ~ IsFull(s, f)
      /\ pending' = Put(f.seq, s)
      /\ UNCHANGED <<delivered, receiverPanicked>>

(* Mutant of PushFull: the set is completed before its message is decrypted. *)
PushFullEarly(f, secret) ==
  LET s == WithFragment(KnownSet(f), f)
  IN  /\ ~ KnownSet(f).complete
      /\ IsFull(s, f)
      /\ pending' = Put(f.seq, Completed(s))
      /\ \E first \in s.frags :
           IF IsCorrupted(s, first, secret) THEN UNCHANGED delivered ELSE Deliver(f.seq, s)
      /\ UNCHANGED receiverPanicked

(* The set is full: it is completed and its message delivered, or it is    *)
(* corrupted and removed.                                                  *)
PushFull(f, secret) ==
  LET s == WithFragment(KnownSet(f), f)
  IN  /\ ~ KnownSet(f).complete
      /\ IsFull(s, f)
      /\ \E first \in s.frags :
           \/ /\ IsCorrupted(s, first, secret)
              /\ pending' = Drop({f.seq})
              /\ UNCHANGED delivered
           \/ /\ ~ IsCorrupted(s, first, secret)
              /\ pending' = Put(f.seq, Completed(s))
              /\ Deliver(f.seq, s)
      /\ UNCHANGED receiverPanicked

(* add_packet of a Fragment: push, then the message it made, if any, is    *)
(* popped from out_messages into the events (so the queue is empty between *)
(* two calls).                                                             *)
Push(f, secret) ==
  /\ ~ receiverPanicked
  /\ PushComplete(f) \/ PushIncomplete(f) \/ PushFull(f, secret)

-----------------------------------------------------------------------------
(* Mutant of StaleLimit: a complete set is kept no longer than another.     *)
StaleLimitByKey(s) ==
  IF s.key THEN (IF s.expire THEN StaleKeyExpiring ELSE StaleKey) ELSE StaleBestEffort

StaleLimit(s) ==
  CASE s.complete                           -> StaleComplete
    [] ~ s.complete /\ ~ s.key              -> StaleBestEffort
    [] ~ s.complete /\ s.key /\ ~ s.expire  -> StaleKey
    [] ~ s.complete /\ s.key /\ s.expire    -> StaleKeyExpiring

IsStale(s) == s.age >= StaleLimit(s)

StaleSeqs == {q \in DOMAIN pending : IsStale(pending[q])}

(* Mutant of AckDue: acks are sent for as long as the set is remembered.    *)
AckAlwaysDue(s) == s.key /\ s.ackAge >= AckSendInterval

AckDue(s) ==
  s.key /\ s.acksSent < MaxAcksSent /\ s.ackAge >= AckSendInterval

DueSeqs == {q \in DOMAIN pending \ StaleSeqs : AckDue(pending[q])}

(* generate_ack: an incomplete set takes frag_total from whichever of its  *)
(* fragments the hash map yields first.                                    *)
AckFrom(s, f) == CreateFromFragIds(Ids(s.frags), f.total)
AckPanics(s, f) == CreatePanics(Ids(s.frags), f.total)

GenerateAck(s) ==
  IF s.complete
    THEN {CreateComplete(s.total)}
    ELSE {AckFrom(s, f) : f \in {g \in s.frags : ~ AckPanics(s, g)}}

AckMayPanic(s) == \E f \in s.frags : AckPanics(s, f)

AckPackets(q) == {[seq |-> q, ack |-> a] : a \in GenerateAck(pending[q])}

WithAckSent(s) == [s EXCEPT !.ackAge = 0, !.acksSent = @ + 1]

(* tick: stale sets are removed, the others send the ack that is due.      *)
AssemblerTick(acks) ==
  /\ ~ receiverPanicked
  /\ acks \subseteq UNION {AckPackets(q) : q \in DueSeqs}
  /\ \A q \in DueSeqs : \E p \in acks : acks \cap AckPackets(q) = {p}
  /\ pending' = [q \in DOMAIN pending \ StaleSeqs |->
                   IF q \in DueSeqs THEN WithAckSent(pending[q]) ELSE pending[q]]
  /\ UNCHANGED <<delivered, receiverPanicked>>

(* tick, when building an ack indexes past its bytes.                      *)
AssemblerPanic ==
  /\ ~ receiverPanicked
  /\ \E q \in DueSeqs : AckMayPanic(pending[q])
  /\ receiverPanicked' = TRUE
  /\ UNCHANGED <<pending, delivered>>

-----------------------------------------------------------------------------
Older(age, limit) == IF age < limit THEN age + 1 ELSE age

(* One unit of time passes.                                                *)
AssemblerAges ==
  /\ pending' = [q \in DOMAIN pending |->
                   [pending[q] EXCEPT !.age = Older(@, StaleLimit(pending[q])),
                                      !.ackAge = Older(@, AckSendInterval)]]
  /\ UNCHANGED <<delivered, receiverPanicked>>
=============================================================================
