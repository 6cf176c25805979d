-------------------------- MODULE SentDataTracker --------------------------
(***************************************************************************)
(* The sending half of the reliable transfer (rbtl-rudp,                   *)
(* sent_data_tracker.rs), with SocketCommon::send_data, which numbers the  *)
(* messages.                                                               *)
(*                                                                         *)
(* Time is kept as ages, as in FragmentAssembler.  lastAck and oldest are  *)
(* options: {} is None and {x} is Some(x).  The newest unanswered ack is   *)
(* always the last ack received, so ackAge is the age of both; once a set  *)
(* is complete, ackAge is the age of complete_since, and the acks it still *)
(* receives change nothing that is read again.                             *)
(*                                                                         *)
(* The debug assertions of resend_packets are not modelled: this is the    *)
(* release build.                                                          *)
(***************************************************************************)
EXTENDS AckBitmap, Fragmentation, FiniteSets

CONSTANTS
  MaxMessages,       \* bound: calls of send_data
  Outgoing,          \* the messages the application may send
  ResendDelay,       \* PacketSendOptions::resend_delay; 160 ms
  Expiration,        \* PacketSendOptions::expiration of those that expire
  CleanupDelay       \* SEQ_DATA_CLEANUP_DELAY; 5 s

ASSUME TrackerAssumption ==
  /\ MaxMessages \in Nat
  /\ Outgoing \subseteq
       [len : Nat, encryption : BOOLEAN, key : BOOLEAN, expires : BOOLEAN]
  /\ ResendDelay \in Nat \ {0}
  /\ Expiration \in Nat
  /\ CleanupDelay \in Nat \ {0}
  /\ ResendDelay <= CleanupDelay

Messages == 0 .. MaxMessages - 1

VARIABLES
  sets,             \* the SentDataSet of each message that is tracked
  nextSeqId,        \* next_local_seq_id
  accepted,         \* history: the message each successful send_data sent
  senderPanicked    \* the sending thread has panicked

trackerVars == <<sets, nextSeqId, accepted, senderPanicked>>

TrackerInit ==
  /\ sets = [q \in {} |-> {}]
  /\ nextSeqId = 0
  /\ accepted = [q \in {} |-> {}]
  /\ senderPanicked = FALSE

-----------------------------------------------------------------------------
(* The fragments of the bytes that go on the wire.                         *)
Fragments(seq, total, key, expire, enc) ==
  [seq : {seq}, id : 0 .. total, total : {total}, key : {key}, expire : {expire}, enc : {enc}]

WireLen(m) == IF m.encryption THEN CipherLen(m.len) ELSE m.len

FirstTransmission(seq, m) ==
  Fragments(seq, FragTotal(WireLen(m)), m.key, m.expires, m.encryption)

(* Mutant of Retransmission: what is sent again is always encrypted.       *)
EncryptedRetransmission(seq, s) ==
  Fragments(seq, FragTotal(s.msg.len), FALSE, s.msg.expires, TRUE)

(* A resend cuts the data the set holds, which is the plaintext, and sets  *)
(* no flag but "expire".                                                   *)
Retransmission(seq, s) ==
  Fragments(seq, FragTotal(s.msg.len), FALSE, s.msg.expires, FALSE)

AtMost(age, limit) == IF age < limit THEN age ELSE limit

NewSentDataSet(m, sinceCachedNow) ==
  [msg |-> m,
   age |-> IF m.expires THEN AtMost(sinceCachedNow, Expiration + 1) ELSE 0,
   sentAge |-> AtMost(sinceCachedNow, ResendDelay),
   lastAck |-> {}, ackAge |-> 0, oldest |-> {}, done |-> FALSE]

CanSend(m, secret) ==
  /\ m.encryption => secret          \* else NoEncryptionKey
  /\ CanFragment(WireLen(m))         \* else SentMsgEmpty, SentMsgTooBig

(* The set is dated from cached_now, the time of the last process(), which *)
(* was sinceCachedNow ago.                                                 *)
SendData(m, secret, sinceCachedNow, frags) ==
  /\ ~ senderPanicked
  /\ nextSeqId < MaxMessages
  /\ CanSend(m, secret)
  /\ frags = FirstTransmission(nextSeqId, m)
  /\ accepted' = [q \in DOMAIN accepted \cup {nextSeqId} |->
                    IF q = nextSeqId THEN m ELSE accepted[q]]
  /\ sets' = IF m.key
               THEN [q \in DOMAIN sets \cup {nextSeqId} |->
                       IF q = nextSeqId THEN NewSentDataSet(m, sinceCachedNow) ELSE sets[q]]
               ELSE sets
  /\ nextSeqId' = nextSeqId + 1
  /\ UNCHANGED senderPanicked

(* An error: the sequence id is used up all the same.                      *)
SendDataFails(m, secret) ==
  /\ ~ senderPanicked
  /\ nextSeqId < MaxMessages
  /\ ~ CanSend(m, secret)
  /\ nextSeqId' = nextSeqId + 1
  /\ UNCHANGED <<sets, accepted, senderPanicked>>

-----------------------------------------------------------------------------
(* Mutant of ReceiveAck: the first ack of a message is never replaced.      *)
ReceiveFirstAck(q, ack) ==
  /\ ~ senderPanicked
  /\ sets' = IF q \in DOMAIN sets /\ ~ sets[q].done /\ sets[q].lastAck = {}
               THEN [sets EXCEPT ![q].lastAck = {ack}, ![q].ackAge = 0, ![q].oldest = {0}]
               ELSE sets
  /\ UNCHANGED <<nextSeqId, accepted, senderPanicked>>

ReceiveAck(q, ack) ==
  /\ ~ senderPanicked
  /\ sets' = IF q \in DOMAIN sets /\ ~ sets[q].done
               THEN [sets EXCEPT ![q].lastAck = {ack},
                                 ![q].ackAge = 0,
                                 ![q].oldest = IF @ = {} THEN {0} ELSE @]
               ELSE sets
  /\ UNCHANGED <<nextSeqId, accepted, senderPanicked>>

-----------------------------------------------------------------------------
IsExpired(s) == s.msg.expires /\ s.age > Expiration

(* Mutant of IsCleanable: any ack old enough will do.                       *)
IsCleanableOnAnyAck(s) == s.ackAge >= CleanupDelay

IsCleanable(s) == s.done /\ s.ackAge >= CleanupDelay

(* Mutant of IsResendDue: only an ack prompts a resend.                     *)
IsResendDueOnAck(s) ==
  \E old \in s.oldest : 5 * old >= 4 * ResendDelay \/ 5 * s.ackAge >= 3 * ResendDelay

(* attempt_resend_packets: the delay has elapsed, or, sooner, the oldest   *)
(* unanswered ack is 4/5 of it old or the newest 3/5.                      *)
IsResendDue(s) ==
  \/ s.sentAge >= ResendDelay
  \/ \E old \in s.oldest : \/ 5 * old >= 4 * ResendDelay
                           \/ 5 * s.ackAge >= 3 * ResendDelay

MissingIds(s) ==
  LET total == FragTotal(s.msg.len)
  IN  IF s.lastAck = {} THEN 0 .. total
                        ELSE UNION {MissingIter(a, total) : a \in s.lastAck}

(* next_tick: what is expired, or complete for long enough, is removed.    *)
Removed(s) == IsExpired(s) \/ IsCleanable(s)
Resent(s)  == ~ Removed(s) /\ ~ s.done /\ IsResendDue(s)

(* Mutant of AfterResend: any ack is taken for the complete one.            *)
AfterResendOnAnyAck(s) ==
  [s EXCEPT !.sentAge = 0, !.oldest = {}, !.done = s.lastAck # {}]

(* resend_packets: with no fragment missing in the last ack, the message   *)
(* is received.                                                            *)
AfterResend(s) ==
  [s EXCEPT !.sentAge = 0, !.oldest = {}, !.done = MissingIds(s) = {}]

ResentFragments(q) ==
  {f \in Retransmission(q, sets[q]) : f.id \in MissingIds(sets[q])}

ResentSeqs == {q \in DOMAIN sets : Resent(sets[q])}

(* resend_packets expects the data it holds to fit in fragments.           *)
Unsendable == {q \in ResentSeqs : ~ CanFragment(sets[q].msg.len)}

TrackerTick(frags) ==
  /\ ~ senderPanicked
  /\ Unsendable = {}
  /\ frags = UNION {ResentFragments(q) : q \in ResentSeqs}
  /\ sets' = [q \in {r \in DOMAIN sets : ~ Removed(sets[r])} |->
                IF q \in ResentSeqs THEN AfterResend(sets[q]) ELSE sets[q]]
  /\ UNCHANGED <<nextSeqId, accepted, senderPanicked>>

(* The tick panics at the first of these in the order of the HashMap: what *)
(* comes before it is sent again, and nothing is removed.                  *)
TrackerPanic(before, frags) ==
  /\ ~ senderPanicked
  /\ Unsendable # {}
  /\ before \subseteq ResentSeqs \ Unsendable
  /\ frags = UNION {ResentFragments(q) : q \in before}
  /\ sets' = [q \in DOMAIN sets |->
                IF q \in before THEN AfterResend(sets[q]) ELSE sets[q]]
  /\ senderPanicked' = TRUE
  /\ UNCHANGED <<nextSeqId, accepted>>

(* is_seq_id_received(q) = Ok(true)                                        *)
IsSeqIdReceived(q) == q \in DOMAIN sets /\ sets[q].done

-----------------------------------------------------------------------------
Aged(age, limit) == IF age < limit THEN age + 1 ELSE age

(* One unit of time passes.                                                *)
TrackerAges ==
  /\ sets' = [q \in DOMAIN sets |->
                [sets[q] EXCEPT !.age     = IF sets[q].msg.expires
                                              THEN Aged(@, Expiration + 1) ELSE 0,
                                !.sentAge = IF sets[q].done THEN @ ELSE Aged(@, ResendDelay),
                                !.ackAge  = IF sets[q].lastAck = {}
                                              THEN @ ELSE Aged(@, CleanupDelay),
                                !.oldest  = {Aged(o, ResendDelay) : o \in @}]]
  /\ UNCHANGED <<nextSeqId, accepted, senderPanicked>>
=============================================================================
