------------------------------- MODULE Client -------------------------------
(***************************************************************************)
(* A client as the structures of rbtl_structs! see it: RBTLClient, an rudp *)
(* or a tcp socket behind the Client trait of rbtl-core.  What happens     *)
(* inside a call of process() is Connection, TcpConnection and             *)
(* ReliableTransfer; here remains what the caller can tell: the statuses   *)
(* and the events, as the sockets name them and as the adapters convert    *)
(* them, the sending of messages, and the pings their receipts are.        *)
(*                                                                         *)
(* A call of process() is any number of the steps ClientMoves.             *)
(***************************************************************************)
EXTENDS PingTracker, Selections, SocketMoves, SequencesExt

CONSTANT MaxActivity   \* bound: events and messages of a client together

ASSUME ClientAssumption == MaxActivity \in Nat

VARIABLES
  client,        \* the socket: its protocol, status and queue of events
  events,        \* history: every event it ever queued; queues hold indices
  sent,          \* history: per message sent, its age, if it is on its way
                 \* or its receipts are, and how long the first receipt took
  nextSeqId      \* out_seq_id, next_local_seq_id

clientVars == <<client, events, sent, nextSeqId, pingVars>>

NoClient == [kind |-> "None"]

(* A new socket, not connected yet.                                        *)
Connecting(kind) ==
  [kind |-> kind, status |-> IF kind = "Rudp" THEN "SynSent" ELSE "Connecting",
   queue |-> <<>>]

ClientInit ==
  /\ client = NoClient
  /\ events = <<>> /\ sent = <<>> /\ nextSeqId = 0
  /\ PingInit

ClientStarts(c) ==
  /\ client' = c
  /\ events' = <<>> /\ sent' = <<>> /\ nextSeqId' = 0
  /\ waitingPing' = {} /\ recordedPings' = <<>>

-----------------------------------------------------------------------------
(* The adapters.                                                           *)

(* rudp's to_rbtl_status and tcp's convert_status.                         *)
RbtlStatus(status) ==
  CASE status \in {"SynSent", "SynReceived", "Connecting"}      -> "Connecting"
    [] status = "Connected"                                     -> "Ok"
    [] status \in {"TimeoutError", "Timeout"}                   -> "Timeout"
    [] status \in {"TerminateSent", "LocalEnded"}               -> "EndedByUs"
    [] status \in {"TerminateReceived", "RemoteEnded"}          -> "EndedByRemote"
    [] status = "Error"                                         -> "Error"

Status == RbtlStatus(client.status)

IsConnOver(status) == status \notin {"Connecting", "Ok"}

(* Mutant of RbtlEvent: an abort is nothing either.                        *)
RbtlEventWithoutAbort(event) == IF event = "Aborted" THEN <<>> ELSE
  CASE event = "Data"                 -> <<"Data">>
    [] event = "Connected"            -> <<"StatusChanged", "Ok">>
    [] event = "Ended"                -> <<"StatusChanged", "EndedByRemote">>
    [] event = "Raw"                  -> <<>>
    [] OTHER                          -> <<"StatusChanged", RbtlStatus(event)>>

(* rudp's to_rbtl_event, tcp's map_event: a raw datagram is nothing.       *)
RbtlEvent(event) ==
  CASE event = "Data"                 -> <<"Data">>
    [] event = "Timeout"              -> <<"StatusChanged", "Timeout">>
    [] event = "Connected"            -> <<"StatusChanged", "Ok">>
    [] event \in {"Ended", "Aborted"} -> <<"StatusChanged", "EndedByRemote">>
    [] event = "Raw"                  -> <<>>
    [] event \in {"LocalEnded", "RemoteEnded", "Error"}
                                      -> <<"StatusChanged", RbtlStatus(event)>>

PassedOn == {i \in DOMAIN events : RbtlEvent(events[i]) # <<>>}

(* drain_events of both adapters.                                          *)
DrainedEvents == Selected(client.queue, PassedOn)

-----------------------------------------------------------------------------
(* Inside process().                                                       *)

(* The socket takes a status and queues events.                            *)
Becomes(status, queued) ==
  /\ events' = events \o queued
  /\ client' = [client EXCEPT !.status = status,
                              !.queue = @ \o [i \in DOMAIN queued |-> Len(events) + i]]
  /\ UNCHANGED <<sent, nextSeqId, pingVars>>

Moves == IF client.kind = "Rudp" THEN RudpMoves(client.status) ELSE TcpMoves(client.status)

(* The handshake ends, with or without success.                            *)
HandshakeResolves ==
  /\ Status = "Connecting"
  /\ \E m \in Moves : RbtlStatus(m[1]) # "Connecting" /\ Becomes(m[1], <<m[2]>>)

IsActive == Len(events) + nextSeqId < MaxActivity

ClientQueues ==
  /\ IsActive
  /\ \E m \in Moves : Becomes(m[1], <<m[2]>>)

(* An Ack, which may come again, or a receipt of tcp: these come in the    *)
(* order sent, and one whose write failed never comes.                     *)
ClientGetsReceipt ==
  \E q \in DOMAIN sent :
    /\ sent[q].underWay
    /\ client.kind = "Tcp" => \A p \in DOMAIN sent : q < p => sent[p].underWay
    /\ Pong(q)
    /\ \E again \in IF client.kind = "Tcp" THEN {FALSE} ELSE BOOLEAN :
         sent' = [sent EXCEPT ![q].underWay = again,
                              ![q].took = IF @ = {} THEN {RoundTrip(sent[q].age)} ELSE @]
    /\ UNCHANGED <<client, events, nextSeqId>>

ClientMoves == HandshakeResolves \/ ClientQueues \/ ClientGetsReceipt

-----------------------------------------------------------------------------
(* Calls of the application.                                               *)

(* send: rudp pings with key messages only, and before it knows whether    *)
(* the message is refused; tcp with every message it has written.  The     *)
(* sequence id is spent whatever becomes of the message.                   *)
ClientSends ==
  /\ IsActive
  /\ nextSeqId' = nextSeqId + 1
  /\ \/ /\ client.kind = "Rudp" \/ client.status # "Connecting"
        /\ Ping(nextSeqId)
        /\ sent' = [q \in DOMAIN sent \cup {nextSeqId} |->
                      IF q = nextSeqId THEN [age |-> 0, underWay |-> TRUE, took |-> {}]
                        ELSE sent[q]]
     \/ /\ client.kind = "Rudp"
        /\ Ping(nextSeqId)
        /\ UNCHANGED sent
     \/ UNCHANGED <<sent, pingVars>>
  /\ UNCHANGED <<client, events>>

(* end: rudp sends an End whatever its status, and is ended unless that    *)
(* fails; tcp is ended unless it is over.                                  *)
ClientEnds ==
  \/ client.kind = "Rudp" /\ Becomes("TerminateSent", <<"Ended">>)
  \/ client.kind = "Rudp" /\ UNCHANGED clientVars
  \/ /\ client.kind = "Tcp" /\ ~ IsConnOver(Status)
     /\ Becomes("LocalEnded", <<"LocalEnded">>)
  \/ client.kind = "Tcp" /\ IsConnOver(Status) /\ UNCHANGED clientVars

ClientAges ==
  /\ PingsAge
  /\ sent' = [q \in DOMAIN sent |->
                [sent[q] EXCEPT !.age = IF sent[q].underWay /\ sent[q].took = {}
                                          THEN Later(@, PingClamp) ELSE @]]
  /\ UNCHANGED <<client, events, nextSeqId>>

-----------------------------------------------------------------------------
(* Every ping is the time from the sending of the message it was taken     *)
(* with to the first receipt of that message, whatever receipts of others  *)
(* came in between and whether pings were given up for newer ones; and     *)
(* every average is over all pings recorded in its window.                 *)
PingsAreTrue ==
  /\ \A i \in DOMAIN recordedPings :
       LET r == recordedPings[i] IN r.seq \in DOMAIN sent /\ r.ping \in sent[r.seq].took
  /\ AveragesAreComplete
=============================================================================
