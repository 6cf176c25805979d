----------------------------- MODULE PingTracker -----------------------------
(***************************************************************************)
(* PingTracker, the same code in rbtl-rudp and in rbtl-tcp: at most one    *)
(* message is a ping under way; the receipt of that message, and of no     *)
(* other, is its pong.  Time is in whole units (seconds in the code, pings *)
(* in ms), an Instant is the age it has.                                   *)
(***************************************************************************)
EXTENDS Integers, Sequences

CONSTANTS
  PingsLen,      \* PINGS_LEN, the pings remembered; 16
  PingPatience,  \* a ping under way is not replaced up to this age; 3
  PingClamp,     \* a longer round trip is recorded as just below this; 5
  MaxWindow      \* bound: the longest average asked for

ASSUME PingAssumption ==
  /\ PingsLen \in Nat \ {0}
  /\ PingPatience \in Nat
  /\ PingClamp \in Nat \ {0}
  /\ MaxWindow \in Nat

VARIABLES
  waitingPing,   \* the ping under way: none or one [seq, age]
  recordedPings  \* newest first: [seq, ping, age]; seq is history

pingVars == <<waitingPing, recordedPings>>

PingInit == waitingPing = {} /\ recordedPings = <<>>

IsAwaited == \E w \in waitingPing : w.age <= PingPatience

(* ping: the message q was sent.                                           *)
Ping(q) ==
  /\ waitingPing' = IF IsAwaited THEN waitingPing ELSE {[seq |-> q, age |-> 0]}
  /\ UNCHANGED recordedPings

(* Mutant of RoundTrip: it is not clamped.                                 *)
RoundTripAsMeasured(age) == age

RoundTrip(age) == IF age >= PingClamp THEN PingClamp - 1 ELSE age

(* Mutant of Registered: the newest last.                                  *)
RegisteredLast(w) ==
  LET all == Append(recordedPings, [seq |-> w.seq, ping |-> RoundTrip(w.age), age |-> 0])
  IN  SubSeq(all, 1 + IF Len(all) > PingsLen THEN 1 ELSE 0, Len(all))

(* register_ping: the oldest makes room for the newest.                    *)
Registered(w) ==
  SubSeq(<<[seq |-> w.seq, ping |-> RoundTrip(w.age), age |-> 0]>> \o recordedPings,
         1, IF Len(recordedPings) < PingsLen THEN Len(recordedPings) + 1 ELSE PingsLen)

(* Mutant of IsPongOf: any receipt is a pong.                              *)
IsPongOfAny(w, q) == TRUE

IsPongOf(w, q) == w.seq = q

(* pong: a receipt of the message q arrived.                               *)
Pong(q) ==
  \/ \E w \in waitingPing :
       /\ IsPongOf(w, q)
       /\ recordedPings' = Registered(w)
       /\ waitingPing' = {}
  \/ (\A w \in waitingPing : ~ IsPongOf(w, q)) /\ UNCHANGED pingVars

(* Duration::from_secs_f32 panics on a negative number of seconds.         *)
AvgPingPanics(seconds) == seconds < 0

(* The pings avg_ping averages: those of the last seconds, or else the     *)
(* latest.  It stops looking at the first one that is too old.             *)
AveragedPings(seconds) ==
  LET taken == {i \in DOMAIN recordedPings :
                  \A j \in 1 .. i : recordedPings[j].age <= seconds}
  IN  IF seconds = 0 \/ taken = {} THEN DOMAIN recordedPings \cap {1} ELSE taken

Later(age, limit) == IF age < limit THEN age + 1 ELSE age

(* Ages are told apart up to the limits they are compared with.            *)
PingAgeLimit == IF PingClamp > PingPatience THEN PingClamp ELSE PingPatience + 1

PingsAge ==
  /\ waitingPing' = {[w EXCEPT !.age = Later(@, PingAgeLimit)] : w \in waitingPing}
  /\ recordedPings' =
       [i \in DOMAIN recordedPings |->
          [recordedPings[i] EXCEPT !.age = Later(@, MaxWindow + 1)]]

-----------------------------------------------------------------------------
PingTypeOK ==
  /\ waitingPing \subseteq [seq : Nat, age : 0 .. PingAgeLimit]
  /\ \A v, w \in waitingPing : v = w
  /\ recordedPings \in Seq([seq : Nat, ping : 0 .. PingClamp - 1, age : 0 .. MaxWindow + 1])
  /\ Len(recordedPings) <= PingsLen

(* An average over the last seconds is one of all the pings recorded in    *)
(* them and of no other (or, when there is none, of the latest): avg_ping  *)
(* relies on the order the pings were recorded in.                         *)
AveragesAreComplete ==
  \A s \in 1 .. MaxWindow :
    LET recent == {i \in DOMAIN recordedPings : recordedPings[i].age <= s}
    IN  AveragedPings(s) = IF recent = {} THEN DOMAIN recordedPings \cap {1} ELSE recent
=============================================================================
