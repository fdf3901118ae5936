----------------------------- MODULE MCWsGauge ------------------------------
(***************************************************************************)
(* Model values for the checks of a connection and its gauge: those of     *)
(* MCWsConnection.                                                         *)
(***************************************************************************)
EXTENDS MCWsConnection, WsGauge
=============================================================================
