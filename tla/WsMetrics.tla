----------------------------- MODULE WsMetrics ------------------------------
(***************************************************************************)
(* The WebSocket gauges of src/src/metrics.rs, which all connections of    *)
(* the process share, and what each connection does to them (ws.rs,        *)
(* handle_websocket and run_proxy_loop); the gauge of subscriptions is in  *)
(* WsGauge.  Of a connection only what decides those calls is kept: the    *)
(* node it is on and where it is:                                          *)
(*   "none"        no connection                                           *)
(*   "counted"     in ws_connections, not in ws_upstream_node yet          *)
(*   "initial"     awaiting the first connect_async                        *)
(*   "open"        in the select! of run_proxy_loop                        *)
(*   "connecting"  in the reconnect branch, awaiting connect_async         *)
(*   "switching"   reconnected, the old node's gauge is cleared            *)
(*   "leaving", "left"   before the two updates at its end                 *)
(* Each update of a gauge is atomic, two in a row are not.                 *)
(***************************************************************************)
EXTENDS AppState, Integers, FiniteSets

CONSTANTS
  Conn    \* slots of connections; a slot is used again

ASSUME MetricsAssumption == IsFiniteSet(Conn)

VARIABLES
  conn,
  ws_connections,
  ws_upstream_node,
  cleared    \* history: connections whose node another connection cleared

gauges == <<ws_connections, ws_upstream_node, cleared>>
mvars == <<conn, gauges>>

NoConn == [at |-> "none", node |-> NoNode, old |-> NoNode]

MInit ==
  /\ conn = [c \in Conn |-> NoConn]
  /\ ws_connections = 0
  /\ ws_upstream_node = [n \in EL |-> 0]
  /\ cleared = {}

(***************************************************************************)
(* The node whose gauge connection c has set and not cleared.              *)
(***************************************************************************)
Holds(c) ==
  IF conn[c].at \in {"initial", "open", "leaving"} THEN conn[c].node
  ELSE IF conn[c].at = "connecting" THEN conn[c].old ELSE NoNode

(***************************************************************************)
(* set_ws_upstream_node, called by connection c.                           *)
(***************************************************************************)
set_ws_upstream_node(c, n, connected) ==
  /\ ws_upstream_node' = [ws_upstream_node EXCEPT ![n] = IF connected THEN 1 ELSE 0]
  /\ LET there == {d \in Conn \ {c} : Holds(d) = n}
     IN  cleared' = IF connected THEN cleared \ ({c} \cup there)
                    ELSE (cleared \ {c}) \cup there
  /\ UNCHANGED ws_connections

Moves(c, from, to) == conn[c].at = from /\ conn' = [conn EXCEPT ![c].at = to]

-----------------------------------------------------------------------------
Begin(c, n) ==
  /\ conn[c] = NoConn
  /\ conn' = [conn EXCEPT ![c].at = "counted", ![c].node = n]
  /\ ws_connections' = ws_connections + 1
  /\ UNCHANGED <<ws_upstream_node, cleared>>

SetInitial(c) ==
  /\ Moves(c, "counted", "initial")
  /\ set_ws_upstream_node(c, conn[c].node, TRUE)

\* Mutation of ConnectFails: a failed first connect skips the updates at the end.
ConnectFailsEarly(c) ==
  /\ Moves(c, "initial", "none")
  /\ UNCHANGED gauges

ConnectFails(c) ==
  /\ Moves(c, "initial", "leaving")
  /\ UNCHANGED gauges

Connected(c) ==
  /\ Moves(c, "initial", "open")
  /\ UNCHANGED gauges

-----------------------------------------------------------------------------
(***************************************************************************)
(* The health task may have signalled the node the connection is already   *)
(* on: n can be its current node.                                          *)
(***************************************************************************)
TakeReconnect(c, n) ==
  /\ conn[c].at = "open"
  /\ conn' = [conn EXCEPT ![c].at = "connecting", ![c].node = n, ![c].old = conn[c].node]
  /\ UNCHANGED gauges

ClearOld(c) ==
  /\ Moves(c, "connecting", "switching")
  /\ set_ws_upstream_node(c, conn[c].old, FALSE)

\* Mutation of SetNew: the old node is cleared after the new one is set.
SetNewThenClearOld(c) ==
  /\ conn[c].at = "switching"
  /\ conn' = [conn EXCEPT ![c].at = "open", ![c].old = NoNode]
  /\ ws_upstream_node' = [ws_upstream_node EXCEPT ![conn[c].node] = 1, ![conn[c].old] = 0]
  /\ UNCHANGED <<ws_connections, cleared>>

SetNew(c) ==
  /\ conn[c].at = "switching"
  /\ conn' = [conn EXCEPT ![c].at = "open", ![c].old = NoNode]
  /\ set_ws_upstream_node(c, conn[c].node, TRUE)

\* Mutation of ReconnectFails: the old node is not forgotten.
ReconnectFailsRemembers(c) ==
  /\ conn[c].at = "connecting"
  /\ conn' = [conn EXCEPT ![c].at = "open", ![c].node = conn[c].old]
  /\ UNCHANGED gauges

ReconnectFails(c) ==
  /\ conn[c].at = "connecting"
  /\ conn' = [conn EXCEPT ![c].at = "open", ![c].node = conn[c].old, ![c].old = NoNode]
  /\ UNCHANGED gauges

-----------------------------------------------------------------------------
LoopEnds(c) ==
  /\ Moves(c, "open", "leaving")
  /\ UNCHANGED gauges

\* Mutation of ClearFinal: the node to clear is taken for granted.
ClearFirstNode(c) ==
  /\ Moves(c, "leaving", "left")
  /\ set_ws_upstream_node(c, 1, FALSE)

ClearFinal(c) ==
  /\ Moves(c, "leaving", "left")
  /\ set_ws_upstream_node(c, conn[c].node, FALSE)

Uncount(c) ==
  /\ conn[c].at = "left"
  /\ conn' = [conn EXCEPT ![c] = NoConn]
  /\ ws_connections' = ws_connections - 1
  /\ UNCHANGED <<ws_upstream_node, cleared>>

-----------------------------------------------------------------------------
MNext == \E c \in Conn :
  \/ \E n \in EL : Begin(c, n)
  \/ SetInitial(c) \/ Connected(c) \/ ConnectFails(c)
  \/ \E n \in EL : TakeReconnect(c, n)
  \/ ClearOld(c) \/ SetNew(c) \/ ReconnectFails(c)
  \/ LoopEnds(c) \/ ClearFinal(c) \/ Uncount(c)

MSpec == MInit /\ [][MNext]_mvars

-----------------------------------------------------------------------------
At == {"none", "counted", "initial", "open", "connecting", "switching", "leaving", "left"}

(***************************************************************************)
(* Types; a connection is on a node until the last update at its end, and  *)
(* remembers an old node exactly while it reconnects.                      *)
(***************************************************************************)
MTypeOK ==
  /\ conn \in [Conn -> [at : At, node : {NoNode} \cup EL, old : {NoNode} \cup EL]]
  /\ ws_connections \in Int
  /\ ws_upstream_node \in [EL -> {0, 1}]
  /\ cleared \subseteq Conn
  /\ \A c \in Conn :
       /\ conn[c].at = "none" <=> conn[c].node = NoNode
       /\ conn[c].at \in {"connecting", "switching"} <=> conn[c].old # NoNode

(***************************************************************************)
(* Every connection that was counted is uncounted, whichever way it ends:  *)
(* ws_connections is the number of connections that are neither before     *)
(* their first update nor past its counterpart.                            *)
(***************************************************************************)
ConnectionsCounted ==
  ws_connections = Cardinality({c \in Conn : conn[c].at # "none"})

(***************************************************************************)
(* A node that is shown as an upstream is one: some connection has set its *)
(* gauge and is still on that node, or about to clear it.                  *)
(***************************************************************************)
UpGaugeIsTrue ==
  \A n \in EL : ws_upstream_node[n] = 1 => \E c \in Conn : Holds(c) = n

(***************************************************************************)
(* A node that has a connection is shown as an upstream, unless another    *)
(* connection has left that node since: a reconnection to the very node a  *)
(* connection is on, which a repeated signal causes, does not hide it.     *)
(***************************************************************************)
MissingGaugeIsExplained ==
  \A c \in Conn \ cleared : Holds(c) # NoNode => ws_upstream_node[Holds(c)] = 1
=============================================================================
