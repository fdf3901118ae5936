------------------------------ MODULE WsGauge -------------------------------
(***************************************************************************)
(* A connection and the gauge ws_subscriptions of src/src/metrics.rs, in a *)
(* process whose only connection it is.  The gauge is not computed from    *)
(* the tracker: the loop increments and decrements it (ws.rs, the two      *)
(* message handlers) beside its changes of the tracker, and sets it once,  *)
(* when the connection ends (handle_websocket).  Between a change of the   *)
(* tracker and that of the gauge nothing is awaited: they are one step.    *)
(***************************************************************************)
EXTENDS WsConnection

VARIABLE ws_subscriptions

gvars == <<cvars, ws_subscriptions>>

GInit == CInit /\ ws_subscriptions = 0

(***************************************************************************)
(* What a step adds to the gauge; if it ends the connection, the gauge is  *)
(* set to the number of subscriptions the tracker still holds.             *)
(***************************************************************************)
Counts(change) ==
  ws_subscriptions' = IF stage' = "closed" THEN Cardinality(tracker'.subscriptions)
                      ELSE ws_subscriptions + change

\* Mutation of NewlyTracked: every subscription id in an answer is counted.
AnyAccepted(msg) == msg.type = "response" /\ msg.sub # NoSub

(***************************************************************************)
(* The answer to a subscribe request that is pending.                      *)
(***************************************************************************)
NewlyTracked(msg) ==
  /\ msg.type = "response" /\ msg.sub # NoSub
  /\ PendingFor(pending_subscribes, msg.id) # {}

(***************************************************************************)
(* eth_unsubscribe, whatever its id.                                       *)
(***************************************************************************)
CountedClientMessage ==
  /\ HandleClientMessage
  /\ Counts(IF Head(c2p).type = "unsubscribe" THEN -1 ELSE 0)

CountedUpstreamMessage ==
  /\ HandleUpstreamMessage
  /\ Counts(IF NewlyTracked(Head(up.out)) THEN 1 ELSE 0)

(***************************************************************************)
(* Every other step, a reconnection with its replay included.              *)
(***************************************************************************)
Uncounted ==
  \/ RefuseUpgrade
  \/ \E n \in EL : Upgrade(n) \/ Signal(n)
  \/ \E connected \in BOOLEAN : InitialConnect(connected)
  \/ TakeReconnect \/ Reconnected \/ ReconnectFails
  \/ Client
  \/ UpstreamNode

GNext ==
  \/ CountedClientMessage
  \/ CountedUpstreamMessage
  \/ Uncounted /\ Counts(0)

GSpec == GInit /\ [][GNext]_gvars

-----------------------------------------------------------------------------
(***************************************************************************)
(* The gauge is the number of subscriptions of the client, as the tracker  *)
(* has them, through all reconnections: an answer to a replayed request is *)
(* not counted again, one that is lost was not counted, and each           *)
(* eth_unsubscribe that is counted removes one.  Of a client that          *)
(* unsubscribes what it has, and nodes that use no id twice.               *)
(***************************************************************************)
GaugeFollowsTracker == ws_subscriptions = Cardinality(tracker.subscriptions)
=============================================================================
