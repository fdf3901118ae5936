--------------------------- MODULE MCWsConnection ---------------------------
(***************************************************************************)
(* Model values for the checks of WsConnection.  Subscription ids and      *)
(* subscription parameters are interchangeable: the proxy only compares    *)
(* them.                                                                   *)
(***************************************************************************)
EXTENDS WsConnection

CONSTANTS newHeads, logs, s1, s2, s3

MCRpcId == 1 .. MaxRequests
MCParams == {newHeads, logs}
MCSubId == {s1, s2, s3}

Interchangeable == Permutations(MCParams) \cup Permutations(MCSubId)
=============================================================================
