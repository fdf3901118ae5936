----------------------------- MODULE MCWsProxy ------------------------------
(***************************************************************************)
(* Model values for the checks of WsProxy.                                 *)
(***************************************************************************)
EXTENDS WsProxy

CONSTANTS newHeads, s1, s2

MCRpcId == 1 .. MaxRequests
MCParams == {newHeads}
MCSubId == {s1, s2}
=============================================================================
