--------------------------- MODULE MCAsyncClient ---------------------------
(***************************************************************************)
(* Constants of the TLC run of AsyncClient: the protocols of               *)
(* macr_default.rs, and averages over a negative number of seconds, over   *)
(* none and over one.                                                      *)
(***************************************************************************)
EXTENDS AsyncClient

ProtocolsDef == <<"Rudp", "Tcp">>

PingWindowsDef == {-1, 0, 1}
=============================================================================
