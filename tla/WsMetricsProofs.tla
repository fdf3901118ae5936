-------------------------- MODULE WsMetricsProofs ---------------------------
(***************************************************************************)
(* Proofs about WsMetrics, for every set of connections and every number   *)
(* of nodes.                                                               *)
(***************************************************************************)
EXTENDS WsMetrics, FiniteSetTheorems, TLAPS

LEMMA NoNodeIsNoNode == NoNode \notin EL
BY ConfigAssumption DEF NoNode, EL

-----------------------------------------------------------------------------
(***************************************************************************)
(* Type correctness.                                                       *)
(***************************************************************************)
LEMMA GaugeUpdateType ==
  ASSUME MTypeOK, NEW c \in Conn, NEW n \in EL, NEW connected \in BOOLEAN,
         set_ws_upstream_node(c, n, connected)
  PROVE  /\ ws_upstream_node' \in [EL -> {0, 1}]
         /\ cleared' \subseteq Conn
         /\ ws_connections' \in Int
BY DEF MTypeOK, set_ws_upstream_node

LEMMA NoConnType ==
  NoConn \in [at : At, node : {NoNode} \cup EL, old : {NoNode} \cup EL]
BY DEF NoConn, At

LEMMA MInitType == MInit => MTypeOK
<1> SUFFICES ASSUME MInit PROVE MTypeOK
  OBVIOUS
<1>1. conn \in [Conn -> [at : At, node : {NoNode} \cup EL, old : {NoNode} \cup EL]]
  BY NoConnType DEF MInit
<1>2. \A c \in Conn : conn[c].at = "none" /\ conn[c].node = NoNode /\ conn[c].old = NoNode
  BY DEF MInit, NoConn
<1>3. ws_connections \in Int
  BY DEF MInit
<1>4. ws_upstream_node \in [EL -> {0, 1}]
  BY DEF MInit
<1>5. cleared \subseteq Conn
  BY DEF MInit
<1>6. \A c \in Conn : conn[c].at = "none" <=> conn[c].node = NoNode
  BY <1>2
<1>7. \A c \in Conn : conn[c].at \in {"connecting", "switching"} <=> conn[c].old # NoNode
  BY <1>2
<1> QED
  BY <1>1, <1>3, <1>4, <1>5, <1>6, <1>7 DEF MTypeOK

LEMMA MNextType == MTypeOK /\ [MNext]_mvars => MTypeOK'
<1> SUFFICES ASSUME MTypeOK, [MNext]_mvars PROVE MTypeOK'
  OBVIOUS
<1> USE NoNodeIsNoNode
<1>1. CASE UNCHANGED mvars
  BY <1>1 DEF MTypeOK, mvars, gauges
<1>2. CASE MNext
  <2>1. PICK c \in Conn :
          \/ \E n \in EL : Begin(c, n)
          \/ SetInitial(c) \/ Connected(c) \/ ConnectFails(c)
          \/ \E n \in EL : TakeReconnect(c, n)
          \/ ClearOld(c) \/ SetNew(c) \/ ReconnectFails(c)
          \/ LoopEnds(c) \/ ClearFinal(c) \/ Uncount(c)
    BY <1>2 DEF MNext
  <2>2. /\ conn[c] \in [at : At, node : {NoNode} \cup EL, old : {NoNode} \cup EL]
        /\ conn[c].at # "none" => conn[c].node \in EL
        /\ conn[c].at \in {"connecting", "switching"} => conn[c].old \in EL
    BY DEF MTypeOK
  <2>3. ASSUME NEW n \in EL, Begin(c, n) PROVE MTypeOK'
    <3>1. conn[c].at = "none"
      BY <2>3 DEF Begin, NoConn
    <3> QED
      BY <2>3, <3>1 DEF Begin, MTypeOK, At
  <2>4. CASE SetInitial(c)
    <3>1. conn[c].node \in EL
      BY <2>2, <2>4 DEF SetInitial, Moves
    <3>2. set_ws_upstream_node(c, conn[c].node, TRUE)
      BY <2>4 DEF SetInitial
    <3> QED
      BY <2>4, <3>1, <3>2, GaugeUpdateType DEF SetInitial, Moves, MTypeOK, At
  <2>5. CASE Connected(c)
    BY <2>5 DEF Connected, Moves, MTypeOK, At, gauges
  <2>6. CASE ConnectFails(c)
    BY <2>6 DEF ConnectFails, Moves, MTypeOK, At, gauges
  <2>7. ASSUME NEW n \in EL, TakeReconnect(c, n) PROVE MTypeOK'
    <3>1. conn[c].node \in EL
      BY <2>2, <2>7 DEF TakeReconnect
    <3>2. /\ conn'[c].at = "connecting" /\ conn'[c].node = n
          /\ conn'[c].old = conn[c].node
          /\ \A d \in Conn \ {c} : conn'[d] = conn[d]
      BY <2>7 DEF TakeReconnect, MTypeOK
    <3>3. conn' \in [Conn -> [at : At, node : {NoNode} \cup EL, old : {NoNode} \cup EL]]
      BY <2>7, <3>1 DEF TakeReconnect, MTypeOK, At
    <3>4. \A d \in Conn :
            /\ conn'[d].at = "none" <=> conn'[d].node = NoNode
            /\ conn'[d].at \in {"connecting", "switching"} <=> conn'[d].old # NoNode
      BY <3>1, <3>2 DEF MTypeOK
    <3> QED
      BY <2>7, <3>3, <3>4 DEF TakeReconnect, MTypeOK, gauges
  <2>8. CASE ClearOld(c)
    <3>1. conn[c].old \in EL
      BY <2>2, <2>8 DEF ClearOld, Moves
    <3>2. set_ws_upstream_node(c, conn[c].old, FALSE)
      BY <2>8 DEF ClearOld
    <3> QED
      BY <2>8, <3>1, <3>2, GaugeUpdateType DEF ClearOld, Moves, MTypeOK, At
  <2>9. CASE SetNew(c)
    <3>1. conn[c].node \in EL
      BY <2>2, <2>9 DEF SetNew
    <3>2. set_ws_upstream_node(c, conn[c].node, TRUE)
      BY <2>9 DEF SetNew
    <3> QED
      BY <2>9, <3>1, <3>2, GaugeUpdateType DEF SetNew, MTypeOK, At
  <2>10. CASE ReconnectFails(c)
    <3>1. conn[c].old \in EL
      BY <2>2, <2>10 DEF ReconnectFails
    <3> QED
      BY <2>10, <3>1 DEF ReconnectFails, MTypeOK, At, gauges
  <2>11. CASE LoopEnds(c)
    BY <2>11 DEF LoopEnds, Moves, MTypeOK, At, gauges
  <2>12. CASE ClearFinal(c)
    <3>1. conn[c].node \in EL
      BY <2>2, <2>12 DEF ClearFinal, Moves
    <3>2. set_ws_upstream_node(c, conn[c].node, FALSE)
      BY <2>12 DEF ClearFinal
    <3> QED
      BY <2>12, <3>1, <3>2, GaugeUpdateType DEF ClearFinal, Moves, MTypeOK, At
  <2>13. CASE Uncount(c)
    BY <2>13 DEF Uncount, NoConn, MTypeOK, At
  <2> QED
    BY <2>1, <2>3, <2>4, <2>5, <2>6, <2>7, <2>8, <2>9, <2>10, <2>11, <2>12, <2>13
<1> QED
  BY <1>1, <1>2

(***************************************************************************)
(* Every variable of the gauges' model stays in its domain.                *)
(***************************************************************************)
THEOREM MTypeCorrect == MSpec => []MTypeOK
<1> QED
  BY MInitType, MNextType, PTL DEF MSpec

-----------------------------------------------------------------------------
(***************************************************************************)
(* The upstream gauges.  The two properties together are inductive: what a *)
(* connection holds and what the gauges show change in the same steps.     *)
(***************************************************************************)
GaugesMatch == MTypeOK /\ UpGaugeIsTrue /\ MissingGaugeIsExplained

LEMMA GaugesMatchInit == MInit => GaugesMatch
<1> SUFFICES ASSUME MInit PROVE GaugesMatch
  OBVIOUS
<1>1. MTypeOK
  BY MInitType
<1>2. UpGaugeIsTrue
  BY DEF MInit, UpGaugeIsTrue
<1>3. \A c \in Conn : Holds(c) = NoNode
  BY DEF MInit, NoConn, Holds
<1> QED
  BY <1>1, <1>2, <1>3 DEF GaugesMatch, MissingGaugeIsExplained

(***************************************************************************)
(* A step that leaves the gauges and what the connections hold alone.      *)
(***************************************************************************)
LEMMA SameHoldings ==
  ASSUME GaugesMatch, ws_upstream_node' = ws_upstream_node, cleared' = cleared,
         \A d \in Conn : Holds(d)' = Holds(d)
  PROVE  UpGaugeIsTrue' /\ MissingGaugeIsExplained'
BY DEF GaugesMatch, UpGaugeIsTrue, MissingGaugeIsExplained

(***************************************************************************)
(* Connection c sets the gauge of the node it holds from now on.           *)
(***************************************************************************)
LEMMA SetsGauge ==
  ASSUME GaugesMatch, NEW c \in Conn, NEW n \in EL, set_ws_upstream_node(c, n, TRUE),
         Holds(c) = NoNode, Holds(c)' = n,
         \A d \in Conn \ {c} : Holds(d)' = Holds(d)
  PROVE  UpGaugeIsTrue' /\ MissingGaugeIsExplained'
<1>1. /\ ws_upstream_node' = [ws_upstream_node EXCEPT ![n] = 1]
      /\ cleared' = cleared \ ({c} \cup {d \in Conn \ {c} : Holds(d) = n})
  BY DEF set_ws_upstream_node
<1>2. ws_upstream_node \in [EL -> {0, 1}]
  BY DEF GaugesMatch, MTypeOK
<1>3. UpGaugeIsTrue'
  <2> SUFFICES ASSUME NEW m \in EL, ws_upstream_node'[m] = 1
               PROVE  \E d \in Conn : Holds(d)' = m
    BY DEF UpGaugeIsTrue
  <2>1. CASE m = n
    BY <2>1
  <2>2. CASE m # n
    <3>1. ws_upstream_node[m] = 1
      BY <1>1, <1>2, <2>2
    <3>2. PICK d \in Conn : Holds(d) = m
      BY <3>1 DEF GaugesMatch, UpGaugeIsTrue
    <3>3. d # c
      BY <3>2, NoNodeIsNoNode
    <3> QED
      BY <3>2, <3>3
  <2> QED
    BY <2>1, <2>2
<1>4. MissingGaugeIsExplained'
  <2> SUFFICES ASSUME NEW d \in Conn, d \notin cleared', Holds(d)' # NoNode
               PROVE  ws_upstream_node'[Holds(d)'] = 1
    BY DEF MissingGaugeIsExplained
  <2>1. CASE Holds(d)' = n
    BY <2>1, <1>1, <1>2
  <2>2. CASE Holds(d)' # n
    <3>1. d # c /\ Holds(d)' = Holds(d)
      BY <2>2
    <3>2. d \notin cleared
      BY <2>2, <3>1, <1>1
    <3>3. ws_upstream_node[Holds(d)] = 1
      BY <3>1, <3>2 DEF GaugesMatch, MissingGaugeIsExplained
    <3> QED
      BY <2>2, <3>1, <3>3, <1>1, <1>2
  <2> QED
    BY <2>1, <2>2
<1> QED
  BY <1>3, <1>4

(***************************************************************************)
(* Connection c clears the gauge of the node it has held.                  *)
(***************************************************************************)
LEMMA ClearsGauge ==
  ASSUME GaugesMatch, NEW c \in Conn, NEW n \in EL, set_ws_upstream_node(c, n, FALSE),
         Holds(c) = n, Holds(c)' = NoNode,
         \A d \in Conn \ {c} : Holds(d)' = Holds(d)
  PROVE  UpGaugeIsTrue' /\ MissingGaugeIsExplained'
<1>1. /\ ws_upstream_node' = [ws_upstream_node EXCEPT ![n] = 0]
      /\ cleared' = (cleared \ {c}) \cup {d \in Conn \ {c} : Holds(d) = n}
  BY DEF set_ws_upstream_node
<1>2. ws_upstream_node \in [EL -> {0, 1}]
  BY DEF GaugesMatch, MTypeOK
<1>3. UpGaugeIsTrue'
  <2> SUFFICES ASSUME NEW m \in EL, ws_upstream_node'[m] = 1
               PROVE  \E d \in Conn : Holds(d)' = m
    BY DEF UpGaugeIsTrue
  <2>1. m # n /\ ws_upstream_node[m] = 1
    BY <1>1, <1>2
  <2>2. PICK d \in Conn : Holds(d) = m
    BY <2>1 DEF GaugesMatch, UpGaugeIsTrue
  <2> QED
    BY <2>1, <2>2
<1>4. MissingGaugeIsExplained'
  <2> SUFFICES ASSUME NEW d \in Conn, d \notin cleared', Holds(d)' # NoNode
               PROVE  ws_upstream_node'[Holds(d)'] = 1
    BY DEF MissingGaugeIsExplained
  <2>1. d # c /\ Holds(d)' = Holds(d)
    OBVIOUS
  <2>2. d \notin cleared /\ Holds(d) # n
    BY <2>1, <1>1
  <2>3. ws_upstream_node[Holds(d)] = 1
    BY <2>1, <2>2 DEF GaugesMatch, MissingGaugeIsExplained
  <2> QED
    BY <2>1, <2>2, <2>3, <1>1, <1>2
<1> QED
  BY <1>3, <1>4

LEMMA GaugesMatchNext == GaugesMatch /\ [MNext]_mvars => GaugesMatch'
<1> SUFFICES ASSUME GaugesMatch, [MNext]_mvars
             PROVE  UpGaugeIsTrue' /\ MissingGaugeIsExplained'
  BY MNextType DEF GaugesMatch
<1> USE NoNodeIsNoNode
<1>1. MTypeOK
  BY DEF GaugesMatch
<1>2. CASE UNCHANGED mvars
  BY <1>2, SameHoldings DEF mvars, gauges, Holds
<1>3. CASE MNext
  <2>1. PICK c \in Conn :
          \/ \E n \in EL : Begin(c, n)
          \/ SetInitial(c) \/ Connected(c) \/ ConnectFails(c)
          \/ \E n \in EL : TakeReconnect(c, n)
          \/ ClearOld(c) \/ SetNew(c) \/ ReconnectFails(c)
          \/ LoopEnds(c) \/ ClearFinal(c) \/ Uncount(c)
    BY <1>3 DEF MNext
  <2>2. /\ conn \in [Conn -> [at : At, node : {NoNode} \cup EL, old : {NoNode} \cup EL]]
        /\ conn[c].at # "none" => conn[c].node \in EL
        /\ conn[c].at \in {"connecting", "switching"} => conn[c].old \in EL
    BY <1>1 DEF MTypeOK
  <2>3. CASE Connected(c) \/ ConnectFails(c) \/ LoopEnds(c)
    <3>1. \A d \in Conn : Holds(d)' = Holds(d)
      BY <2>2, <2>3 DEF Connected, ConnectFails, LoopEnds, Moves, Holds
    <3> QED
      BY <2>3, <3>1, SameHoldings
         DEF Connected, ConnectFails, LoopEnds, gauges
  <2>4. CASE \E n \in EL : Begin(c, n)
    <3>1. PICK n \in EL : Begin(c, n)
      BY <2>4
    <3>2. conn[c].at = "none"
      BY <3>1 DEF Begin, NoConn
    <3>3. \A d \in Conn : Holds(d)' = Holds(d)
      BY <2>2, <3>1, <3>2 DEF Begin, Holds
    <3> QED
      BY <3>1, <3>3, SameHoldings DEF Begin
  <2>5. CASE \E n \in EL : TakeReconnect(c, n)
    <3>1. PICK n \in EL : TakeReconnect(c, n)
      BY <2>5
    <3>2. \A d \in Conn : Holds(d)' = Holds(d)
      BY <2>2, <3>1 DEF TakeReconnect, Holds
    <3> QED
      BY <3>1, <3>2, SameHoldings DEF TakeReconnect, gauges
  <2>6. CASE ReconnectFails(c)
    <3>1. \A d \in Conn : Holds(d)' = Holds(d)
      BY <2>2, <2>6 DEF ReconnectFails, Holds
    <3> QED
      BY <2>6, <3>1, SameHoldings DEF ReconnectFails, gauges
  <2>7. CASE Uncount(c)
    <3>1. \A d \in Conn : Holds(d)' = Holds(d)
      BY <2>2, <2>7 DEF Uncount, NoConn, Holds
    <3> QED
      BY <2>7, <3>1, SameHoldings DEF Uncount
  <2>8. CASE SetInitial(c)
    <3>1. /\ conn[c].node \in EL /\ Holds(c) = NoNode /\ Holds(c)' = conn[c].node
          /\ \A d \in Conn \ {c} : Holds(d)' = Holds(d)
      BY <2>2, <2>8 DEF SetInitial, Moves, Holds
    <3> QED
      BY <2>8, <3>1, SetsGauge DEF SetInitial
  <2>9. CASE SetNew(c)
    <3>1. /\ conn[c].node \in EL /\ Holds(c) = NoNode /\ Holds(c)' = conn[c].node
          /\ \A d \in Conn \ {c} : Holds(d)' = Holds(d)
      BY <2>2, <2>9 DEF SetNew, Holds
    <3> QED
      BY <2>9, <3>1, SetsGauge DEF SetNew
  <2>10. CASE ClearOld(c)
    <3>1. /\ conn[c].old \in EL /\ Holds(c) = conn[c].old /\ Holds(c)' = NoNode
          /\ \A d \in Conn \ {c} : Holds(d)' = Holds(d)
      BY <2>2, <2>10 DEF ClearOld, Moves, Holds
    <3> QED
      BY <2>10, <3>1, ClearsGauge DEF ClearOld
  <2>11. CASE ClearFinal(c)
    <3>1. /\ conn[c].node \in EL /\ Holds(c) = conn[c].node /\ Holds(c)' = NoNode
          /\ \A d \in Conn \ {c} : Holds(d)' = Holds(d)
      BY <2>2, <2>11 DEF ClearFinal, Moves, Holds
    <3> QED
      BY <2>11, <3>1, ClearsGauge DEF ClearFinal
  <2> QED
    BY <2>1, <2>3, <2>4, <2>5, <2>6, <2>7, <2>8, <2>9, <2>10, <2>11
<1> QED
  BY <1>2, <1>3

(***************************************************************************)
(* A node that is shown as an upstream is the upstream of a connection.    *)
(***************************************************************************)
THEOREM UpGaugesAreTrue == MSpec => []UpGaugeIsTrue
<1>1. GaugesMatch => UpGaugeIsTrue
  BY DEF GaugesMatch
<1> QED
  BY <1>1, GaugesMatchInit, GaugesMatchNext, PTL DEF MSpec

(***************************************************************************)
(* The upstream of a connection is shown as one, unless another connection *)
(* has left it since.                                                      *)
(***************************************************************************)
THEOREM MissingGaugesExplained == MSpec => []MissingGaugeIsExplained
<1>1. GaugesMatch => MissingGaugeIsExplained
  BY DEF GaugesMatch
<1> QED
  BY <1>1, GaugesMatchInit, GaugesMatchNext, PTL DEF MSpec

-----------------------------------------------------------------------------
(***************************************************************************)
(* The gauge of open connections.                                          *)
(***************************************************************************)
Counted == {c \in Conn : conn[c].at # "none"}

CountIsRight == MTypeOK /\ ws_connections = Cardinality(Counted)

LEMMA CountedIsFinite == IsFiniteSet(Counted)
BY MetricsAssumption, FS_Subset DEF Counted

LEMMA CountIsRightInit == MInit => CountIsRight
<1> SUFFICES ASSUME MInit PROVE CountIsRight
  OBVIOUS
<1>1. Counted = {}
  BY DEF MInit, NoConn, Counted
<1> QED
  BY <1>1, MInitType, FS_EmptySet DEF CountIsRight, MInit

LEMMA CountIsRightNext == CountIsRight /\ [MNext]_mvars => CountIsRight'
<1> SUFFICES ASSUME CountIsRight, [MNext]_mvars
             PROVE  ws_connections' = Cardinality(Counted')
  BY MNextType DEF CountIsRight
<1>1. CASE UNCHANGED mvars
  BY <1>1 DEF CountIsRight, mvars, gauges, Counted
<1>2. CASE MNext
  <2>1. PICK c \in Conn :
          \/ \E n \in EL : Begin(c, n)
          \/ SetInitial(c) \/ Connected(c) \/ ConnectFails(c)
          \/ \E n \in EL : TakeReconnect(c, n)
          \/ ClearOld(c) \/ SetNew(c) \/ ReconnectFails(c)
          \/ LoopEnds(c) \/ ClearFinal(c) \/ Uncount(c)
    BY <1>2 DEF MNext
  <2>2. conn \in [Conn -> [at : At, node : {NoNode} \cup EL, old : {NoNode} \cup EL]]
    BY DEF CountIsRight, MTypeOK
  <2>3. CASE \E n \in EL : Begin(c, n)
    <3>1. c \notin Counted /\ Counted' = Counted \cup {c}
      BY <2>2, <2>3 DEF Begin, NoConn, Counted
    <3> QED
      BY <2>3, <3>1, CountedIsFinite, FS_AddElement DEF CountIsRight, Begin
  <2>4. CASE Uncount(c)
    <3>1. c \in Counted /\ Counted' = Counted \ {c}
      BY <2>2, <2>4 DEF Uncount, NoConn, Counted
    <3> QED
      BY <2>4, <3>1, CountedIsFinite, FS_RemoveElement DEF CountIsRight, Uncount
  <2>5. CASE SetInitial(c) \/ ClearOld(c) \/ SetNew(c) \/ ClearFinal(c)
    <3>1. Counted' = Counted
      BY <2>2, <2>5 DEF SetInitial, ClearOld, SetNew, ClearFinal, Moves, Counted
    <3>2. ws_connections' = ws_connections
      BY <2>5 DEF SetInitial, ClearOld, SetNew, ClearFinal, set_ws_upstream_node
    <3> QED
      BY <3>1, <3>2 DEF CountIsRight
  <2>6. CASE Connected(c) \/ ConnectFails(c) \/ LoopEnds(c)
    <3>1. Counted' = Counted
      BY <2>2, <2>6 DEF Connected, ConnectFails, LoopEnds, Moves, Counted
    <3> QED
      BY <2>6, <3>1 DEF CountIsRight, Connected, ConnectFails, LoopEnds, gauges
  <2>7. CASE (\E n \in EL : TakeReconnect(c, n)) \/ ReconnectFails(c)
    <3>1. ASSUME NEW n \in EL, TakeReconnect(c, n) PROVE Counted' = Counted
      <4>1. /\ conn[c].at = "open" /\ conn'[c].at = "connecting"
            /\ \A d \in Conn \ {c} : conn'[d] = conn[d]
        BY <2>2, <3>1 DEF TakeReconnect
      <4> QED
        BY <4>1 DEF Counted
    <3>2. ASSUME ReconnectFails(c) PROVE Counted' = Counted
      <4>1. /\ conn[c].at = "connecting" /\ conn'[c].at = "open"
            /\ \A d \in Conn \ {c} : conn'[d] = conn[d]
        BY <2>2, <3>2 DEF ReconnectFails
      <4> QED
        BY <4>1 DEF Counted
    <3>3. Counted' = Counted
      BY <2>7, <3>1, <3>2
    <3> QED
      BY <2>7, <3>3 DEF CountIsRight, TakeReconnect, ReconnectFails, gauges
  <2> QED
    BY <2>1, <2>3, <2>4, <2>5, <2>6, <2>7
<1> QED
  BY <1>1, <1>2

(***************************************************************************)
(* The gauge counts every connection from its first update to the          *)
(* counterpart of it, whichever way it ends.                               *)
(***************************************************************************)
THEOREM ConnectionsAreCounted == MSpec => []ConnectionsCounted
<1>1. CountIsRight => ConnectionsCounted
  BY DEF CountIsRight, ConnectionsCounted, Counted
<1> QED
  BY <1>1, CountIsRightInit, CountIsRightNext, PTL DEF MSpec

=============================================================================
