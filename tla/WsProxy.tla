------------------------------ MODULE WsProxy -------------------------------
(***************************************************************************)
(* A connection of the WebSocket proxy with what decides which node it is  *)
(* connected to: the upgrade handler (el_ws_handler) and the health task   *)
(* of the connection (health_monitor).  Both read the health of the EL     *)
(* nodes, under their read lock, and the failover flag, which the proxy's  *)
(* health monitor changes as MonitorInterface promises.                    *)
(***************************************************************************)
EXTENDS WsConnection, MonitorInterface, Selection

CONSTANT HungWs    \* EL nodes that may accept a connect attempt and never answer it

ASSUME HungWsAssumption == HungWs \subseteq EL

VARIABLES
  handler,    \* el_ws_handler: has it loaded the flag, and the flag
  health      \* the health task: where it is and what it has read

env == <<healthy, failover, due, locked>>
wvars == <<env, cvars, handler, health>>

Nodes == [n \in EL |-> [is_healthy |-> healthy[n]]]

(***************************************************************************)
(* The health task before it has read anything.  Its locals are set back   *)
(* to this when they are dead.                                             *)
(***************************************************************************)
Resting == [at |-> "tick", node |-> NoNode, flag |-> FALSE, target |-> NoNode]

WInit ==
  /\ IInit
  /\ CInit
  /\ handler = [loaded |-> FALSE, flag |-> FALSE]
  /\ health = [Resting EXCEPT !.at = "off"]

-----------------------------------------------------------------------------
Monitor == INext /\ UNCHANGED <<cvars, handler, health>>

(***************************************************************************)
(* el_ws_handler loads the flag, awaits the read lock and selects; then    *)
(* handle_websocket spawns the health task and awaits the first connect.   *)
(***************************************************************************)
LoadFlag ==
  /\ stage = "new" /\ ~handler.loaded
  /\ handler' = [loaded |-> TRUE, flag |-> failover]
  /\ UNCHANGED <<env, cvars, health>>

\* Mutation of SelectFirst: the health task is not started.
SelectFirstUnwatched ==
  /\ handler.loaded /\ ~locked
  /\ LET n == select_el_node(Nodes, handler.flag)
     IN  (n = NoNode /\ RefuseUpgrade) \/ (n # NoNode /\ Upgrade(n))
  /\ UNCHANGED <<env, handler, health>>

SelectFirst ==
  /\ handler.loaded /\ ~locked
  /\ LET n == select_el_node(Nodes, handler.flag)
     IN  \/ n = NoNode /\ RefuseUpgrade /\ UNCHANGED health
         \/ n # NoNode /\ Upgrade(n) /\ health' = Resting
  /\ UNCHANGED <<env, handler>>

-----------------------------------------------------------------------------
(***************************************************************************)
(* The health_monitor task: a step is what it does between two awaits.     *)
(***************************************************************************)
ReadName ==
  /\ health.at = "tick"
  /\ health' = [health EXCEPT !.at = "named", !.node = current_node_name]
  /\ UNCHANGED <<env, cvars, handler>>

(***************************************************************************)
(* is_node_healthy, under the read lock, which it releases.                *)
(***************************************************************************)
CheckNode ==
  /\ health.at = "named" /\ ~locked
  /\ health' = IF healthy[health.node] THEN Resting
               ELSE [health EXCEPT !.at = "unhealthy"]
  /\ UNCHANGED <<env, cvars, handler>>

(***************************************************************************)
(* select_healthy_node: it loads the flag, awaits the lock and selects.    *)
(***************************************************************************)
ReadFlag ==
  /\ health.at = "unhealthy"
  /\ health' = [health EXCEPT !.at = "select", !.flag = failover]
  /\ UNCHANGED <<env, cvars, handler>>

\* Mutation of SelectNode: the health task never asks for a backup.
SelectPrimaryOnly ==
  /\ health.at = "select" /\ ~locked
  /\ LET n == select_el_node(Nodes, FALSE)
     IN  health' = IF n \in {NoNode, health.node} THEN Resting
                   ELSE [health EXCEPT !.at = "send", !.target = n]
  /\ UNCHANGED <<env, cvars, handler>>

SelectNode ==
  /\ health.at = "select" /\ ~locked
  /\ LET n == select_el_node(Nodes, health.flag)
     IN  health' = IF n \in {NoNode, health.node} THEN Resting
                   ELSE [health EXCEPT !.at = "send", !.target = n]
  /\ UNCHANGED <<env, cvars, handler>>

\* Mutation of SendReconnect: the send does not wait for room.
SendUnbounded ==
  /\ health.at = "send"
  /\ stage \in {"initial", "open", "connecting"}
  /\ reconnect' = Append(reconnect, health.target)
  /\ health' = Resting
  /\ UNCHANGED <<env, handler, loop_vars, up, client, c2p, used>>

(***************************************************************************)
(* The send waits for room in the channel.                                 *)
(***************************************************************************)
SendReconnect ==
  /\ health.at = "send"
  /\ Signal(health.target)
  /\ health' = Resting
  /\ UNCHANGED <<env, handler>>

(***************************************************************************)
(* It fails, and ends the task, when the loop has dropped the receiver.    *)
(***************************************************************************)
SendFails ==
  /\ health.at = "send" /\ stage = "closed"
  /\ health' = [Resting EXCEPT !.at = "off"]
  /\ UNCHANGED <<env, cvars, handler>>

HealthTask ==
  ReadName \/ CheckNode \/ ReadFlag \/ SelectNode \/ SendReconnect \/ SendFails

(***************************************************************************)
(* A step of the loop, the client or the upstream.                         *)
(***************************************************************************)
Alone(A) == A /\ UNCHANGED <<env, handler, health>>

WNext == Monitor \/ LoadFlag \/ SelectFirst \/ HealthTask \/ Alone(Session)

WSpec == WInit /\ [][WNext]_wvars

(***************************************************************************)
(* The runtime runs every ready task, and select! picks at random among    *)
(* its ready branches, so that a branch that is ready again and again is   *)
(* taken.  A connect attempt returns unless the node is one that may hang  *)
(* (connect_async has no timeout), and does not fail for ever.  The lock   *)
(* of el_nodes is fair: a reader that waits gets it when the monitor       *)
(* releases it.  But nothing says that the monitor does: its checks have   *)
(* no timeout either.  Nothing is assumed of the client and the upstream.  *)
(***************************************************************************)
Reachable == current_node_name \notin HungWs

WFairness ==
  /\ WF_wvars(Reachable /\ Alone(\E connected \in BOOLEAN : InitialConnect(connected)))
  /\ WF_wvars(Reachable /\ Alone(Reconnected \/ ReconnectFails))
  /\ SF_wvars(Reachable /\ Alone(Reconnected))
  /\ SF_wvars(Alone(TakeReconnect))
  /\ SF_wvars(Alone(HandleClientMessage))
  /\ SF_wvars(Alone(HandleUpstreamMessage))
  /\ WF_wvars(ReadName \/ ReadFlag \/ SendReconnect \/ SendFails)
  /\ SF_wvars(CheckNode \/ SelectNode)

WFairSpec == WSpec /\ WFairness

-----------------------------------------------------------------------------
(***************************************************************************)
(* Types, and when the health task runs.                                   *)
(***************************************************************************)
WTypeOK ==
  /\ ITypeOK
  /\ CTypeOK
  /\ handler \in [loaded : BOOLEAN, flag : BOOLEAN]
  /\ health \in [at : {"off", "tick", "named", "unhealthy", "select", "send"},
                 node : {NoNode} \cup EL, flag : BOOLEAN, target : {NoNode} \cup EL]
  /\ stage \in {"new", "refused"} => health.at = "off"
  /\ stage \in {"initial", "open", "connecting"} => health.at # "off"

(***************************************************************************)
(* The upgrade handler and the health task drive the connection as         *)
(* WsConnection allows: what is checked there holds here.                  *)
(***************************************************************************)
IsWsConnection == CSpec

(***************************************************************************)
(* If the monitor's checks are answered, and from some time on the health  *)
(* of the nodes does not change, some node is healthy, the failover flag   *)
(* agrees and a healthy node keeps the streams it has, a connection that   *)
(* stays open settles on the living stream of one healthy node, whatever   *)
(* stale signals, failed attempts and dead streams came before.  Which of  *)
(* the healthy nodes is not said: the task (ws.rs:166) looks no further    *)
(* while its node is healthy, and does not go back to a primary.           *)
(***************************************************************************)
Calm(h) ==
  /\ healthy = h /\ failover = NoPrimary
  /\ stage \in {"open", "connecting"}
  /\ h[up.node] => up.alive

OnNode(n) == stage = "open" /\ up.node = n /\ up.alive

SettlesOnHealthyNode ==
  \A h \in [EL -> BOOLEAN] :
    (\E n \in EL : h[n]) /\ []<>(~locked) /\ <>[]Calm(h) =>
      \E n \in EL : h[n] /\ <>[]OnNode(n)

(***************************************************************************)
(* A Close frame of the client ends the connection.                        *)
(***************************************************************************)
CloseEndsConnection == client.state = "closing" ~> stage = "closed"

(***************************************************************************)
(* ws.rs:406, "All channels closed, exit": when the client and the         *)
(* upstream are both gone, the loop ends.                                  *)
(***************************************************************************)
DeadConnectionEnds ==
  stage = "open" /\ client.state = "gone" /\ ~up.alive ~> stage = "closed"
=============================================================================
