---------------------------- MODULE SocketMoves ----------------------------
(***************************************************************************)
(* What the socket of a client may do inside one call of process(), as its *)
(* owner sees it: the statuses it may take and the event it queues with    *)
(* each.  Client builds on this; ConnectionProofs and TcpConnectionProofs  *)
(* show that the sockets, whatever the network does, do nothing else.      *)
(***************************************************************************)

(* An rudp socket: before the SynAck, the SynAck or a timeout; then data,  *)
(* and the End or Abort of the remote, which is heard whatever the status. *)
RudpMoves(status) ==
  (IF status = "SynSent" THEN {<<"Connected", "Connected">>}
     ELSE {<<"TerminateReceived", "Ended">>, <<"TerminateReceived", "Aborted">>,
           <<status, "Data">>})
  \cup (IF status \in {"SynSent", "Connected"} THEN {<<"TimeoutError", "Timeout">>} ELSE {})
  \cup {<<status, "Raw">>}

(* A tcp socket.  Data may come before Connected, and after the end; the   *)
(* remote may have ended before a socket that is connecting has seen that  *)
(* its stream is there; an error of the framing replaces any status.       *)
TcpMoves(status) ==
  {<<status, "Data">>, <<"Error", "Error">>}
  \cup (IF status = "Connecting" THEN {<<"Connected", "Connected">>} ELSE {})
  \cup (IF status \in {"Connecting", "Connected"}
          THEN {<<"RemoteEnded", "RemoteEnded">>, <<"Timeout", "Timeout">>} ELSE {})
=============================================================================
