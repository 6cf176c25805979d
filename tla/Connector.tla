------------------------------ MODULE Connector ------------------------------
(***************************************************************************)
(* RBTLConnector: it tries the protocols a server offers one after the     *)
(* other, in the order of rbtl_structs!, until one connects.  The owner    *)
(* calls attempt_connect until it gets an answer.  A call is a step that   *)
(* begins it and one per turn of its recursion, with what the client's     *)
(* process() does in between.                                              *)
(***************************************************************************)
EXTENDS Client

CONSTANT Protocols   \* in the order of rbtl_structs!; <<"Rudp", "Tcp">>

(* They are the variants of an enum, so none comes twice.                  *)
ASSUME ConnectorAssumption ==
  /\ Protocols \in Seq({"Rudp", "Tcp"})
  /\ \A i, j \in DOMAIN Protocols : Protocols[i] = Protocols[j] => i = j

VARIABLES
  offered,       \* the protocols with both a stem and a connect info
  done,          \* the protocols set as done
  connector,     \* "new", "idle", "inside" attempt_connect, and its answers
                 \* "connected" and "failed"; "discarded" by its owner
  failed         \* history: the protocols that did not connect, in order

connectorVars == <<offered, done, connector, failed>>

ConnectorInit ==
  /\ ClientInit
  /\ offered \in SUBSET Range(Protocols)
  /\ done = {} /\ connector = "new" /\ failed = <<>>

(* curr_kind: the first protocol that is not done, if there is one.        *)
CurrKind(d) ==
  LET left == {i \in DOMAIN Protocols : Protocols[i] \notin d}
  IN  {Protocols[i] : i \in {j \in left : \A k \in left : j <= k}}

SetDone(d) == d \cup CurrKind(d)

(* Mutant of NextClient: a protocol that cannot be used is not set as      *)
(* done, and is the one set_done hits when the next one fails.             *)
NextClientKeepingUnusable(d, unusable) ==
  LET usable == {i \in DOMAIN Protocols : Protocols[i] \notin d \cup unusable}
  IN  {[done |-> d, kind |-> Protocols[i]] : i \in {j \in usable : \A k \in usable : j <= k}}
      \cup (IF usable = {} THEN {[done |-> Range(Protocols), kind |-> "None"]} ELSE {})

(* next: the first protocol that is not done and of which a client can be  *)
(* made; those before it are set as done on the way.                       *)
NextClient(d, unusable) ==
  LET from[e \in SUBSET Range(Protocols)] ==
        IF CurrKind(e) = {} THEN {[done |-> e, kind |-> "None"]}
        ELSE IF CurrKind(e) \subseteq unusable THEN from[SetDone(e)]
        ELSE {[done |-> e, kind |-> k] : k \in CurrKind(e)}
  IN  from[d]

(* The protocols before that of a client; all of them if there is none.    *)
Preceding(kind) ==
  {Protocols[j] : j \in {i \in DOMAIN Protocols :
     \A k \in DOMAIN Protocols : Protocols[k] = kind => i < k}}

InOrder(protocols) == Selected(Protocols, protocols)

(* The next client, from_connect_info failing for some of the protocols.   *)
Proceeds(d) ==
  \E failing \in SUBSET (offered \ d) :
    \E n \in NextClient(d, failing \cup (Range(Protocols) \ offered)) :
      /\ done' = n.done
      /\ failed' = failed \o (IF client = NoClient THEN <<>> ELSE <<client.kind>>)
                         \o InOrder(failing \cap Preceding(n.kind))
      /\ ClientStarts(IF n.kind = "None" THEN NoClient ELSE Connecting(n.kind))
      /\ UNCHANGED offered

(* RBTLConnector::new                                                      *)
NewConnector ==
  /\ connector = "new"
  /\ Proceeds({})
  /\ connector' = IF client' = NoClient THEN "failed" ELSE "idle"

(* attempt_connect, which may find that there is nothing left to try, and  *)
(* otherwise calls process() of the client.                                *)
AttemptBegins ==
  /\ connector = "idle" /\ client # NoClient
  /\ connector' = "inside"
  /\ UNCHANGED <<offered, done, failed, clientVars>>

AttemptFindsNothing ==
  /\ connector = "inside" /\ client = NoClient
  /\ connector' = "failed"
  /\ UNCHANGED <<offered, done, failed, clientVars>>

InAttempt == connector = "inside" /\ client # NoClient

ClientMovesInAttempt == InAttempt /\ ClientMoves /\ UNCHANGED connectorVars

(* Mutant of AttemptIsPending: as long as there is no connection.          *)
AttemptIsPendingUnlessOk ==
  /\ InAttempt /\ Status # "Ok"
  /\ connector' = "idle"
  /\ UNCHANGED <<offered, done, failed, clientVars>>

AttemptIsPending ==
  /\ InAttempt /\ Status = "Connecting"
  /\ connector' = "idle"
  /\ UNCHANGED <<offered, done, failed, clientVars>>

AttemptSucceeds ==
  /\ InAttempt /\ Status = "Ok"
  /\ connector' = "connected"
  /\ UNCHANGED <<offered, done, failed, clientVars>>

AttemptTriesNext ==
  /\ InAttempt /\ IsConnOver(Status)
  /\ Proceeds(SetDone(done))
  /\ UNCHANGED connector

ConnectorSteps ==
  \/ NewConnector \/ AttemptBegins \/ AttemptFindsNothing
  \/ AttemptIsPending \/ AttemptSucceeds \/ AttemptTriesNext

HandshakeResolvesInAttempt == InAttempt /\ HandshakeResolves /\ UNCHANGED connectorVars

-----------------------------------------------------------------------------
(* The connector skips no protocol the server offers and tries none twice: *)
(* when it has a client, exactly the offered protocols before the client's *)
(* were tried and failed; it gives up only when all of them have.          *)
VerdictIsDeserved ==
  /\ client # NoClient /\ connector # "discarded" =>
       client.kind \in offered /\ failed = InOrder(offered \cap Preceding(client.kind))
  /\ connector = "failed" => failed = InOrder(offered)

(* The owner of a connector gets an answer.                                *)
ConnectorDecides == connector \in {"idle", "inside"} ~> connector \in {"connected", "failed"}
=============================================================================
