--------------------------- MODULE TcpConnection ---------------------------
(***************************************************************************)
(* One rbtl-tcp connection: the client's Socket with the thread that       *)
(* connects it, and the Listener with the Socket it keeps for that client  *)
(* (socket.rs, listener.rs).                                               *)
(*                                                                         *)
(* Each end is one thread; process() is one step, as the other end only    *)
(* appends to what it reads.  Ingester shows that reads cut anywhere yield *)
(* the messages that were written, so the stream is kept as messages; a    *)
(* message of which write() took a part only ("Torn"), or that exceeds the *)
(* receiver's limit ("Oversize"), breaks the framing, and from then on a   *)
(* read may yield anything.                                                *)
(*                                                                         *)
(* Time is kept as ages, saturated at the delays they are compared with.   *)
(* Messages are numbered as they are sent; SeqIds has what the code sees.  *)
(***************************************************************************)
EXTENDS SeqIds, Selections, SequencesExt

CONSTANTS
  HeartbeatInterval,  \* 1 s
  TimeoutDelay,       \* SocketConfig::timeout_ms; 5 s
  MaxDial,            \* the timeout of connect; 5 s
  MaxIdle,            \* bound: time between two calls of process()
  MaxLate,            \* bound: messages under way while time passes, and that a
                      \* read does not find yet
  MaxSends,           \* bound: calls of send_data, of both ends
  MaxSendsMixed,      \* bound: the same, if the server sends or the network is
                      \* cut; one more, if a write fails
  MaxEnds,            \* bound: calls of send_end, of both ends
  MaxFaults           \* bound: writes the system takes in part or not at all, and
                      \* messages that exceed the receiver's limit

ASSUME TcpAssumption ==
  /\ {HeartbeatInterval, TimeoutDelay, MaxDial, MaxIdle} \subseteq Nat \ {0}
  /\ {MaxLate, MaxSends, MaxSendsMixed, MaxEnds, MaxFaults} \subseteq Nat

Ends == {"client", "server"}
Other(e) == IF e = "client" THEN "server" ELSE "client"

VARIABLES
  socks,         \* the client's socket, and the listener's one for it
  dial,          \* tcp_stream, as the connecting thread leaves it
  dialAge,       \* how long that thread has taken
  checked,       \* the client's process() has looked at dial, and goes on
  backlog,       \* the system has a connection for the listener to accept
  inbox,         \* per end, the messages written to it and not yet read
  shut,          \* the ends whose writing side is shut down
  closed,        \* the ends whose stream is closed
  eof,           \* the ends that find, after inbox, the end of the stream
  cut,           \* the network carries nothing any more
  faults, sends, ends,
  accepted,      \* history: per end, the ids for which send_data returned Ok
  got,           \* history: per end, the data it queued for its application
  broken,        \* per end: the framing of what it reads is lost
  sinceProcess,  \* per end, the time since its last process()
  dropped        \* the ends whose Socket or Listener was dropped

tcpVars == <<inbox, shut, closed, eof, cut, faults>>
dialVars == <<dial, dialAge, backlog>>
history == <<accepted, got, broken>>

vars ==
  <<socks, dialVars, checked, tcpVars, sends, ends, history, sinceProcess, dropped>>

-----------------------------------------------------------------------------
(* Sockets.  events holds every event ever queued, and drained counts      *)
(* those the application has taken; lastOk is {} for None.                 *)
NoSocket == [status |-> "None"]
Exists(e) == socks[e] # NoSocket

NewSocket(status, events) ==
  [status |-> status, recvAge |-> 0, sentAge |-> 0, nextSeq |-> 0, lastOk |-> {},
   events |-> events, drained |-> 0]

IsOver(status) == status \notin {"Connecting", "Connected"}

StatusEvent(status) == [kind |-> "Status", status |-> status]
DataEvent(q) == [kind |-> "Data", seq |-> q]

Pushed(s, event) == [s EXCEPT !.events = Append(@, event)]
HasEvents(s) == s.drained < Len(s.events)

(* Mutant of SetStatus: an over status replaces another.                   *)
SetStatusAlways(s, status) ==
  [Pushed(s, StatusEvent(status)) EXCEPT !.status = status]

(* set_status                                                              *)
SetStatus(s, status) ==
  IF IsOver(status) /\ IsOver(s.status) THEN s
    ELSE [Pushed(s, StatusEvent(status)) EXCEPT !.status = status]

IsSeqIdReceived(s, q) == \E ok \in s.lastOk : IsNotAfter(SeqIdOf(q), SeqIdOf(ok))

Init ==
  /\ socks = [e \in Ends |-> IF e = "client" THEN NewSocket("Connecting", <<>>)
                                             ELSE NoSocket]
  /\ dial = "Trying" /\ dialAge = 0 /\ backlog = FALSE /\ checked = FALSE
  /\ inbox = [e \in Ends |-> <<>>]
  /\ shut = {} /\ closed = {} /\ eof = {} /\ cut = FALSE /\ faults = 0
  /\ sends = 0 /\ ends = 0
  /\ accepted = [e \in Ends |-> <<>>] /\ got = [e \in Ends |-> <<>>]
  /\ broken = [e \in Ends |-> FALSE]
  /\ sinceProcess = [e \in Ends |-> 0]
  /\ dropped = {}

-----------------------------------------------------------------------------
(* The TCP stream.                                                         *)
HasStream(e) == e = "client" => dial = "Ok"

Data(q)     == [kind |-> "Data", seq |-> q]
Oversize(q) == [kind |-> "Oversize", seq |-> q]
Receipt(q)  == [kind |-> "Receipt", seq |-> q]
Heartbeat   == [kind |-> "Heartbeat"]
Torn        == [kind |-> "Torn"]

MayFail == faults < MaxFaults /\ sends <= MaxSendsMixed

(* What the system may take of several writes: everything, or it is full   *)
(* after the first ones and takes nothing of the rest, or a part of the    *)
(* next one.  The number of bytes that write() returns is not looked at.   *)
Taken(messages) ==
  {messages} \cup
    (IF MayFail
       THEN UNION {{SubSeq(messages, 1, n), Append(SubSeq(messages, 1, n), Torn)} :
                     n \in 0 .. Len(messages) - 1}
       ELSE {})

Counts(messages, taken) == faults' = IF taken = messages THEN faults ELSE faults + 1

(* What is written to a closed stream is answered with a reset, and the    *)
(* writer may lose what it has not read.                                   *)
Carried(e, box, taken) ==
  CASE cut \/ e \in shut \/ taken = <<>> -> {box}
    [] ~ (cut \/ e \in shut \/ taken = <<>>) /\ Other(e) \in closed ->
         {[box EXCEPT ![e] = SubSeq(@, 1, n)] : n \in 0 .. Len(box[e])}
    [] ~ (cut \/ e \in shut \/ taken = <<>>) /\ Other(e) \notin closed ->
         {[box EXCEPT ![Other(e)] = @ \o taken]}

EndsStreamOf(e) == eof' = IF cut THEN eof ELSE eof \cup {Other(e)}

(* A stream is closed; with unread bytes in it, it is reset.               *)
Closes(e) ==
  LET to == Other(e)
  IN  /\ closed' = closed \cup {e}
      /\ EndsStreamOf(e)
      /\ \E n \in 0 .. Len(inbox[to]) :
           /\ inbox[e] = <<>> \/ cut => n = Len(inbox[to])
           /\ inbox' = [d \in Ends |-> IF d = e THEN <<>> ELSE SubSeq(inbox[to], 1, n)]

(* The network fails: what is under way arrives, or it does not.           *)
Cut ==
  /\ ~ cut /\ sends <= MaxSendsMixed /\ cut' = TRUE
  /\ \E lost \in SUBSET Ends :
       /\ inbox' = [e \in Ends |-> IF e \in lost THEN <<>> ELSE inbox[e]]
       /\ eof' = eof \ lost
  /\ UNCHANGED <<socks, dialVars, checked, shut, closed, faults, sends, ends, history,
                 sinceProcess, dropped>>

(* The connecting thread: connect succeeds, and the stream waits in the    *)
(* listener's backlog; or it fails, or takes too long.  If the client's    *)
(* socket was dropped in the meantime, the thread drops the stream.        *)
Dials ==
  /\ dial = "Trying"
  /\ \/ /\ dial' = "Ok" /\ ~ cut /\ "server" \notin dropped
        /\ backlog' = TRUE
        /\ IF Exists("client") THEN UNCHANGED <<inbox, closed, eof>>
                               ELSE Closes("client")
     \/ /\ dial' \in {"Failed"} \cup (IF dialAge >= MaxDial THEN {"TimedOut"} ELSE {})
        /\ UNCHANGED <<backlog, inbox, closed, eof>>
  /\ UNCHANGED <<socks, dialAge, checked, shut, cut, faults, sends, ends, history,
                 sinceProcess, dropped>>

-----------------------------------------------------------------------------
(* What the ingester may report of the messages that are read.             *)
Misread ==
  {[kind |-> "Data", seq |-> 0], [kind |-> "SeqIdOk", seq |-> 0],
   [kind |-> "Heartbeat"], [kind |-> "Error"]}

ResultOf(m) ==
  CASE m.kind = "Data"      -> [kind |-> "Data", seq |-> m.seq]
    [] m.kind = "Receipt"   -> [kind |-> "SeqIdOk", seq |-> m.seq]
    [] m.kind = "Heartbeat" -> [kind |-> "Heartbeat"]

IsSound(m) == m.kind \notin {"Torn", "Oversize"}

SoundLen(messages) ==
  LET bad == {i \in DOMAIN messages : ~ IsSound(messages[i])}
  IN  IF bad = {} THEN Len(messages) ELSE Min(bad) - 1

Breaks(e, messages) == broken[e] \/ SoundLen(messages) < Len(messages)

(* The messages before the framing is lost, an error at a message that is  *)
(* too long, and then, as a bound, at most one result of any kind.         *)
Readings(e, messages) ==
  LET n     == SoundLen(messages)
      sound == [i \in 1 .. n |-> ResultOf(messages[i])]
      error == IF messages[n + 1].kind = "Oversize" THEN <<[kind |-> "Error"]>> ELSE <<>>
  IN  CASE broken[e]             -> {<<>>}
        [] ~ broken[e] /\ n = Len(messages) -> {sound}
        [] ~ broken[e] /\ n < Len(messages) ->
             {sound \o error} \cup {Append(sound \o error, r) : r \in Misread}

DataOf(results) == Selected(results, {r \in ToSet(results) : r.kind = "Data"})
Replies(results) ==
  [i \in DOMAIN DataOf(results) |-> Receipt(DataOf(results)[i].seq)]

(* Mutant of WithResult: an error is not announced.                        *)
WithResultSilently(s, r) ==
  CASE r.kind = "Data"      -> Pushed(s, DataEvent(r.seq))
    [] r.kind = "Heartbeat" -> [s EXCEPT !.recvAge = 0]
    [] r.kind = "Error"     -> [s EXCEPT !.status = "Error"]
    [] r.kind = "SeqIdOk"   -> [s EXCEPT !.lastOk = {r.seq}]

(* process_ingester_results; an error is not kept from replacing a status. *)
WithResult(s, r) ==
  CASE r.kind = "Data"      -> Pushed(s, DataEvent(r.seq))
    [] r.kind = "Heartbeat" -> [s EXCEPT !.recvAge = 0]
    [] r.kind = "Error"     -> [Pushed(s, StatusEvent("Error")) EXCEPT !.status = "Error"]
    [] r.kind = "SeqIdOk"   -> [s EXCEPT !.lastOk = {r.seq}]

Ingested(s, results) ==
  LET after[i \in 0 .. Len(results)] ==
        IF i = 0 THEN s ELSE WithResult(after[i - 1], results[i])
  IN  after[Len(results)]

(* Mutant of CheckedTimeout: only the connection attempt can time out.     *)
CheckedTimeoutOfDial(s) ==
  IF s.status = "Connecting" /\ s.recvAge >= TimeoutDelay THEN SetStatus(s, "Timeout")
                                                          ELSE s

CheckedTimeout(s) ==
  IF s.recvAge >= TimeoutDelay THEN SetStatus(s, "Timeout") ELSE s

(* Mutant of IsHeartbeatDue: a heartbeat answers one of the other end.     *)
IsHeartbeatDueInReply(s) ==
  s.status = "Connected" /\ s.sentAge >= HeartbeatInterval /\ s.recvAge = 0

IsHeartbeatDue(s) == s.status = "Connected" /\ s.sentAge >= HeartbeatInterval

(* What recv_all returns, as a status; "Ok" if the stream goes on.         *)
ReadEnds(e, n) ==
  IF e \in eof /\ n = Len(inbox[e]) THEN {"RemoteEnded"}
    ELSE IF cut THEN {"Ok", "Timeout", "Error"} ELSE {"Ok"}

(* Mutant of Processed: the end of the stream hides what was read with it. *)
ProcessedUnlessOver(s, results, end) ==
  LET t == CheckedTimeout(IF end = "Ok" THEN Ingested(s, results) ELSE s)
      u == IF IsHeartbeatDue(t) THEN [t EXCEPT !.sentAge = 0] ELSE t
  IN  IF end = "Ok" THEN u ELSE SetStatus(u, end)

(* process() once the stream is read.                                      *)
Processed(s, results, end) ==
  LET t == CheckedTimeout(Ingested(s, results))
      u == IF IsHeartbeatDue(t) THEN [t EXCEPT !.sentAge = 0] ELSE t
  IN  IF end = "Ok" THEN u ELSE SetStatus(u, end)

Written(s, results) ==
  Replies(results) \o
    IF IsHeartbeatDue(CheckedTimeout(Ingested(s, results))) THEN <<Heartbeat>> ELSE <<>>

(* process() of a socket s of end e, once it has looked at dial.           *)
Processes(e, s) ==
  \E n \in 0 .. IF HasStream(e) THEN Len(inbox[e]) ELSE 0 :
    LET messages == SubSeq(inbox[e], 1, n)
        left     == [inbox EXCEPT ![e] = SubSeq(@, n + 1, Len(@))]
    IN  /\ HasStream(e) => Len(inbox[e]) - n <= MaxLate
        /\ \E results \in Readings(e, messages), end \in ReadEnds(e, n) :
             \E taken \in Taken(Written(s, results)) :
               /\ socks' = [socks EXCEPT ![e] = Processed(s, results, end)]
               /\ got' = [got EXCEPT ![e] = DataOf(socks'[e].events)]
               /\ broken' = [broken EXCEPT ![e] = Breaks(e, messages)]
               /\ inbox' \in Carried(e, left, taken)
               /\ Counts(Written(s, results), taken)
        /\ sinceProcess' = [sinceProcess EXCEPT ![e] = 0]
        /\ UNCHANGED <<shut, closed, eof, cut, dial, dialAge, sends, ends, accepted,
                       dropped>>

(* A call of process() with nothing to read and no time gone by since the  *)
(* last one is left out.                                                   *)
Calls(e) ==
  sinceProcess[e] > 0 \/ (HasStream(e) /\ (inbox[e] # <<>> \/ e \in eof))

(* The client.  Its process() looks at what the connecting thread has left *)
(* first; the thread may come to its end right after that.                 *)
UpdatedConnecting(s) ==
  CASE dial = "Trying"   -> s
    [] dial = "Ok"       -> SetStatus(s, "Connected")
    [] dial = "TimedOut" -> SetStatus(s, "Timeout")
    [] dial = "Failed"   -> SetStatus(s, "Error")

ClientChecksDial ==
  /\ ~ checked /\ Calls("client")
  /\ Exists("client") /\ socks["client"].status = "Connecting"
  /\ checked' = TRUE
  /\ socks' = [socks EXCEPT !["client"] = UpdatedConnecting(@)]
  /\ UNCHANGED <<dialVars, tcpVars, sends, ends, history, sinceProcess, dropped>>

ClientProcesses ==
  /\ Exists("client")
  /\ checked \/ (socks["client"].status # "Connecting" /\ Calls("client"))
  /\ checked' = FALSE
  /\ Processes("client", socks["client"])
  /\ UNCHANGED backlog

(* Mutant of ShouldRetain: a remote is removed as soon as it is over.      *)
ShouldRetainAlive(s) == s.status = "Connected"

(* Listener::process: a remote that is over is removed once its events are *)
(* taken, then the backlog is accepted, then the remote is processed.      *)
ShouldRetain(s) == s.status = "Connected" \/ HasEvents(s)

ListenerRemoves ==
  /\ Exists("server") /\ ~ ShouldRetain(socks["server"])
  /\ socks' = [socks EXCEPT !["server"] = NoSocket]
  /\ Closes("server")
  /\ sinceProcess' = [sinceProcess EXCEPT !["server"] = 0]
  /\ UNCHANGED <<dialVars, checked, shut, cut, faults, sends, ends, history, dropped>>

ListenerAccepts ==
  /\ backlog /\ backlog' = FALSE
  /\ Processes("server", NewSocket("Connected", <<StatusEvent("Connected")>>))
  /\ UNCHANGED checked

ListenerProcesses ==
  /\ Exists("server") /\ ShouldRetain(socks["server"]) /\ Calls("server")
  /\ Processes("server", socks["server"])
  /\ UNCHANGED <<backlog, checked>>

-----------------------------------------------------------------------------
(* The applications, between two calls of process().                       *)
AppCalls(e) == Exists(e) /\ (e = "client" => ~ checked)

(* send_data: the id is used up even if there is no stream to write to.    *)
AppSends(e) ==
  /\ AppCalls(e) /\ sends < MaxSends /\ sends' = sends + 1
  /\ e = "server" \/ accepted["server"] # <<>> \/ cut => sends < MaxSendsMixed
  /\ faults > 0 => sends <= MaxSendsMixed
  /\ socks' = [socks EXCEPT ![e].nextSeq = @ + 1]
  /\ LET q == socks[e].nextSeq
     IN  \/ /\ ~ HasStream(e) \/ e \in shut \/ Other(e) \in closed \/ cut
            /\ UNCHANGED <<inbox, faults, accepted>>
         \/ /\ HasStream(e) /\ e \notin shut
            /\ \E taken \in Taken(<<Data(q)>>) \cup
                              (IF MayFail THEN {<<Oversize(q)>>} ELSE {}) :
                 /\ inbox' \in Carried(e, inbox, taken)
                 /\ Counts(<<Data(q)>>, taken)
                 /\ accepted' = IF taken = <<>> THEN accepted
                                  ELSE [accepted EXCEPT ![e] = Append(@, q)]
  /\ UNCHANGED <<dialVars, checked, shut, closed, eof, cut, ends, got, broken,
                 sinceProcess, dropped>>

(* send_end; before there is a stream nothing tells the other end.         *)
AppEnds(e) ==
  /\ AppCalls(e) /\ ends < MaxEnds /\ ends' = ends + 1
  /\ socks' = [socks EXCEPT ![e] = SetStatus(@, "LocalEnded")]
  /\ IF HasStream(e) THEN shut' = shut \cup {e} /\ EndsStreamOf(e)
                     ELSE UNCHANGED <<shut, eof>>
  /\ UNCHANGED <<dialVars, checked, inbox, closed, cut, faults, sends, history,
                 sinceProcess, dropped>>

(* The listener's application takes the events there are.  What the client *)
(* takes no step depends on.                                               *)
AppDrains ==
  /\ Exists("server") /\ HasEvents(socks["server"])
  /\ socks' = [socks EXCEPT !["server"].drained = Len(socks["server"].events)]
  /\ UNCHANGED <<dialVars, checked, tcpVars, sends, ends, history, sinceProcess, dropped>>

(* The client's socket, or the listener with its socket and its backlog,   *)
(* is dropped, by the program or by its end.                               *)
AppDrops(e) ==
  /\ e \notin dropped /\ dropped' = dropped \cup {e}
  /\ e = "client" => ~ checked
  /\ socks' = [socks EXCEPT ![e] = NoSocket]
  /\ IF (Exists(e) /\ HasStream(e)) \/ (e = "server" /\ backlog)
       THEN Closes(e) ELSE UNCHANGED <<closed, eof, inbox>>
  /\ backlog' = (backlog /\ e = "client")
  /\ sinceProcess' = [sinceProcess EXCEPT ![e] = 0]
  /\ UNCHANGED <<dial, dialAge, checked, shut, cut, faults, sends, ends, history>>

-----------------------------------------------------------------------------
Older(age, limit) == IF age < limit THEN age + 1 ELSE age

AgedSocket(s) ==
  IF IsOver(s.status) THEN s
    ELSE [s EXCEPT !.recvAge = Older(@, TimeoutDelay),
                   !.sentAge = Older(@, HeartbeatInterval)]

(* The ends that process() something.                                      *)
Busy == {e \in Ends : Exists(e) \/ (e = "server" /\ backlog)}

TimePasses ==
  /\ ~ checked
  /\ Len(inbox["client"]) + Len(inbox["server"]) <= MaxLate
  /\ dial = "Trying" => dialAge < MaxDial
  /\ \A e \in Busy : sinceProcess[e] < MaxIdle
  /\ sinceProcess' = [e \in Ends |-> IF e \in Busy THEN sinceProcess[e] + 1 ELSE 0]
  /\ dialAge' = IF dial = "Trying" THEN dialAge + 1 ELSE dialAge
  /\ socks' = [e \in Ends |-> IF Exists(e) THEN AgedSocket(socks[e]) ELSE NoSocket]
  /\ UNCHANGED <<dial, backlog, checked, tcpVars, sends, ends, history, dropped>>

Next ==
  \/ Cut \/ Dials
  \/ ClientChecksDial \/ ClientProcesses
  \/ ListenerRemoves \/ ListenerAccepts \/ ListenerProcesses
  \/ \E e \in Ends : AppSends(e) \/ AppEnds(e) \/ AppDrops(e)
  \/ AppDrains
  \/ TimePasses

Spec == Init /\ [][Next]_vars

(* connect() returns, both applications call process() and take the events *)
(* again and again, and time goes on.                                      *)
Fairness ==
  /\ WF_vars(Dials)
  /\ WF_vars(ClientChecksDial) /\ WF_vars(ClientProcesses)
  /\ WF_vars(ListenerRemoves) /\ WF_vars(ListenerAccepts) /\ WF_vars(ListenerProcesses)
  /\ WF_vars(AppDrains)
  /\ WF_vars(TimePasses)

FairSpec == Spec /\ Fairness

-----------------------------------------------------------------------------
(* Properties                                                              *)

Statuses ==
  {"Connecting", "Connected", "Error", "Timeout", "LocalEnded", "RemoteEnded"}

Event ==
  [kind : {"Data"}, seq : 0 .. MaxSends] \cup [kind : {"Status"}, status : Statuses]

SocketRecord ==
  [status : Statuses, recvAge : 0 .. TimeoutDelay, sentAge : 0 .. HeartbeatInterval,
   nextSeq : 0 .. MaxSends, lastOk : SUBSET (0 .. MaxSends), events : Seq(Event),
   drained : Nat]

(* The types of the variables.  The status of a socket is the one its      *)
(* application was told last, or will be: no status goes unannounced.      *)
TypeOK ==
  /\ \A e \in Ends : Exists(e) =>
       LET s == socks[e]
           told == {i \in DOMAIN s.events : s.events[i].kind = "Status"}
       IN  /\ s \in SocketRecord
           /\ s.drained <= Len(s.events)
           /\ Cardinality(s.lastOk) <= 1
           /\ IF told = {} THEN s.status = "Connecting"
                           ELSE s.events[Max(told)].status = s.status
  /\ dial \in {"Trying", "Ok", "Failed", "TimedOut"} /\ dialAge \in 0 .. MaxDial
  /\ {backlog, checked, cut} \cup {broken[e] : e \in Ends} \subseteq BOOLEAN
  /\ shut \cup closed \cup eof \cup dropped \subseteq Ends
  /\ faults \in 0 .. MaxFaults /\ sends \in 0 .. MaxSends
  /\ sinceProcess \in [Ends -> 0 .. MaxIdle]

Ids(e) == [i \in DOMAIN got[e] |-> got[e][i].seq]

(* What an end queues for its application is what the other one sent, in   *)
(* order and once, as long as the framing holds; and what it is told is    *)
(* received is queued at the other end, though ids are used again: for the *)
(* half of all ids that follow the one of the last receipt.                *)
DataIsWhatWasSent ==
  \A e \in Ends : ~ broken[e] =>
    /\ IsPrefix(Ids(e), accepted[Other(e)])
    /\ ~ broken[Other(e)] /\ Exists(Other(e)) =>
         \A q \in ToSet(accepted[Other(e)]) :
           /\ IsSeqIdReceived(socks[Other(e)], q)
           /\ \A ok \in socks[Other(e)].lastOk : 2 * (q - ok) <= SeqIdBound
           => q \in ToSet(Ids(e))

(* A socket that reports an end by the remote has queued all the data the  *)
(* remote sent before: the end comes with the data or after it, and does   *)
(* not hide it.  (Not so if the stream was closed with data in it.)        *)
EndComesLast ==
  \A e \in Ends :
    Exists(e) /\ socks[e].status = "RemoteEnded" /\ closed = {} /\ ~ cut /\ ~ broken[e] =>
      Ids(e) = accepted[Other(e)]

(* A socket that is over stays so, and the reason its application is given *)
(* does not change, but to an error of the framing.                        *)
OverIsFinal ==
  [][\A e \in Ends : Exists(e) /\ IsOver(socks[e].status) =>
       \/ socks'[e] = NoSocket
       \/ socks'[e].status \in {socks[e].status, "Error"}]_vars

(* The listener removes a remote only when its application has taken every *)
(* event of it, and one of them says how the connection ended.             *)
RemovalIsAnnounced ==
  [][Exists("server") /\ socks'["server"] = NoSocket /\ "server" \notin dropped' =>
       LET s == socks["server"]
       IN  /\ s.drained = Len(s.events)
           /\ \E i \in DOMAIN s.events :
                s.events[i].kind = "Status" /\ IsOver(s.events[i].status)
     ]_vars

IsAlive(e) == Exists(e) /\ ~ IsOver(socks[e].status)

(* No end times out while the other is alive and the network works, if the *)
(* connection did not take long to be made: the client's timeout runs from *)
(* the start of connect, and only a heartbeat of the other end stops it.   *)
NoSpuriousTimeout ==
  [][\A e \in Ends : IsAlive(e) /\ socks'[e].status = "Timeout" =>
       \/ ~ IsAlive(Other(e)) \/ cut \/ faults > 0 \/ broken[e]
       \/ e = "client" /\ dialAge + 2 * MaxIdle + HeartbeatInterval >= TimeoutDelay]_vars

(* When one end is over or gone, the other end notices for good.           *)
BothEndsLearn ==
  \A e \in Ends :
    (e \in dropped \/ (Exists(e) /\ IsOver(socks[e].status))) ~> [] ~ IsAlive(Other(e))
=============================================================================
