------------------------------ MODULE WsProofs ------------------------------
(***************************************************************************)
(* Proofs about WsConnection, WsProxy and WsGauge, for every number of     *)
(* nodes and requests and any subscription ids: the types and the          *)
(* refinement, then the subscriptions and their gauge, then how a          *)
(* connection ends.                                                        *)
(***************************************************************************)
EXTENDS WsProxy, WsGauge, SelectionProofs, FiniteSetTheorems, SequenceTheorems, TLAPS

(***************************************************************************)
(* Messages by their types.                                                *)
(***************************************************************************)
LEMMA ClientMessages ==
  ASSUME NEW m \in ToUpstream \cup {Close}
  PROVE  \/ m.type = "subscribe" /\ m.id \in RpcId /\ m.params \in Params /\ m \in ToUpstream
         \/ m.type = "unsubscribe" /\ m.id \in RpcId /\ m.sub \in SubId /\ m \in ToUpstream
         \/ m.type = "close" /\ m = Close
<1>1. CASE m \in {Subscribe(i, p) : i \in RpcId, p \in Params}
  <2>1. PICK i \in RpcId, p \in Params : m = Subscribe(i, p)
    BY <1>1
  <2>2. m.type = "subscribe" /\ m.id = i /\ m.params = p
    BY <2>1 DEF Subscribe
  <2> QED
    BY <1>1, <2>2 DEF ToUpstream
<1>2. CASE m \in {Unsubscribe(i, s) : i \in RpcId, s \in SubId}
  <2>1. PICK i \in RpcId, s \in SubId : m = Unsubscribe(i, s)
    BY <1>2
  <2>2. m.type = "unsubscribe" /\ m.id = i /\ m.sub = s
    BY <2>1 DEF Unsubscribe
  <2> QED
    BY <1>2, <2>2 DEF ToUpstream
<1>3. CASE m = Close
  BY <1>3 DEF Close
<1> QED
  BY <1>1, <1>2, <1>3 DEF ToUpstream

LEMMA NodeMessages ==
  ASSUME NEW m \in ToClient
  PROVE  m.type = "response" => m.id \in RpcId /\ m.sub \in SubId \cup {NoSub}
<1>1. CASE m \in {Response(i, s) : i \in RpcId, s \in SubId \cup {NoSub}}
  <2>1. PICK i \in RpcId, s \in SubId \cup {NoSub} : m = Response(i, s)
    BY <1>1
  <2> QED
    BY <2>1 DEF Response
<1>2. CASE m \in {Notification(s, p) : s \in SubId, p \in Params}
  <2>1. PICK s \in SubId, p \in Params : m = Notification(s, p)
    BY <1>2
  <2> QED
    BY <2>1 DEF Notification
<1>3. CASE m = Close
  BY <1>3 DEF Close
<1> QED
  BY <1>1, <1>2, <1>3 DEF ToClient

(***************************************************************************)
(* The operators on the tracker return trackers, with finitely many        *)
(* subscriptions if they are given one.                                    *)
(***************************************************************************)
FiniteTracker == {t \in Tracker : IsFiniteSet(t.subscriptions)}

LEMMA NewTrackerType == NewTracker \in FiniteTracker
BY FS_EmptySet DEF NewTracker, Tracker, FiniteTracker

LEMMA MapUpstreamIdType ==
  ASSUME NEW t \in FiniteTracker, NEW u \in SubId, NEW c \in SubId
  PROVE  map_upstream_id(t, u, c) \in FiniteTracker
<1>1. {m \in t.upstream_to_client_id : m.upstream # u}
        \cup {[upstream |-> u, client |-> c]} \in SUBSET Mapping
  BY DEF FiniteTracker, Tracker, Mapping
<1> QED
  BY <1>1 DEF map_upstream_id, FiniteTracker, Tracker

LEMMA TrackSubscribeType ==
  ASSUME NEW t \in FiniteTracker, NEW p \in Params, NEW i \in RpcId, NEW s \in SubId
  PROVE  track_subscribe(t, p, i, s) \in FiniteTracker
<1> DEFINE request == [client_sub_id |-> s, rpc_id |-> i, params |-> p]
           others == {r \in t.subscriptions : r.client_sub_id # s}
           inserted == [t EXCEPT !.subscriptions = others \cup {request}]
<1>1. IsFiniteSet(others \cup {request})
  <2>1. IsFiniteSet(others)
    BY FS_Subset DEF FiniteTracker
  <2> HIDE DEF others
  <2> QED
    BY <2>1, FS_AddElement
<1>2. others \cup {request} \in SUBSET SubscribeRequest
  BY DEF FiniteTracker, Tracker, SubscribeRequest
<1>3. inserted \in FiniteTracker
  BY <1>1, <1>2 DEF FiniteTracker, Tracker
<1>4. track_subscribe(t, p, i, s) = map_upstream_id(inserted, s, s)
  BY DEF track_subscribe
<1> QED
  BY <1>3, <1>4, MapUpstreamIdType

LEMMA RemoveSubscriptionType ==
  ASSUME NEW t \in FiniteTracker, NEW s
  PROVE  remove_subscription(t, s) \in FiniteTracker
<1>1. t \in Tracker /\ IsFiniteSet(t.subscriptions)
  BY DEF FiniteTracker
<1>2. IsFiniteSet({r \in t.subscriptions : r.client_sub_id # s})
  BY <1>1, FS_Subset
<1> QED
  BY <1>1, <1>2 DEF remove_subscription, Tracker, FiniteTracker

LEMMA ClearMappingsType ==
  ASSUME NEW t \in FiniteTracker
  PROVE  clear_upstream_mappings(t) \in FiniteTracker
BY DEF clear_upstream_mappings, Tracker, FiniteTracker

(***************************************************************************)
(* What is replayed is a sequence of requests to the upstream.             *)
(***************************************************************************)
LEMMA ReplayOf ==
  ASSUME tracker \in FiniteTracker, NEW replays \in Replays
  PROVE  LET T == tracker.subscriptions
             D == 1 .. Cardinality(T)
         IN  /\ IsFiniteSet(T) /\ Cardinality(T) \in Nat
             /\ \E s \in [D -> T] :
                  /\ \A i, j \in D : i # j => s[i] # s[j]
                  /\ replays = [i \in D |-> Subscribe(s[i].rpc_id, s[i].params)]
<1> DEFINE T == tracker.subscriptions
           D == 1 .. Cardinality(T)
<1>1. IsFiniteSet(T) /\ Cardinality(T) \in Nat
  BY FS_CardinalityType DEF FiniteTracker
<1>2. PICK s \in SetToSeqs(T) : replays = [i \in DOMAIN s |-> Subscribe(s[i].rpc_id, s[i].params)]
  BY DEF Replays, RequestsFor
<1>3. s \in [D -> T] /\ \A i, j \in D : i # j => s[i] # s[j]
  BY <1>2 DEF SetToSeqs
<1> QED
  BY <1>1, <1>2, <1>3

LEMMA ReplaysType ==
  ASSUME tracker \in FiniteTracker, NEW replays \in Replays
  PROVE  replays \in Seq(ToUpstream)
<1> DEFINE T == tracker.subscriptions
           D == 1 .. Cardinality(T)
<1>1. Cardinality(T) \in Nat
  BY ReplayOf
<1>2. PICK s \in [D -> T] : replays = [i \in D |-> Subscribe(s[i].rpc_id, s[i].params)]
  BY ReplayOf
<1>3. T \subseteq SubscribeRequest
  BY DEF FiniteTracker, Tracker
<1>4. \A i \in D : Subscribe(s[i].rpc_id, s[i].params) \in ToUpstream
  BY <1>3 DEF SubscribeRequest, ToUpstream
<1>5. replays \in [D -> ToUpstream]
  BY <1>2, <1>4
<1> HIDE DEF T
<1> QED
  BY <1>1, <1>5

-----------------------------------------------------------------------------
(***************************************************************************)
(* Type correctness of a connection.  The inductive invariant has three    *)
(* parts: the names, with the reason why the loop's name is that of its    *)
(* upstream again when a reconnection has failed; what is tracked; and the *)
(* channels, with the whole of their messages.                             *)
(***************************************************************************)
NamesOK ==
  /\ stage \in {"new", "refused", "initial", "open", "connecting", "closed"}
  /\ current_node_name \in {NoNode} \cup EL
  /\ old_node \in {NoNode} \cup EL
  /\ reconnect \in {<<>>} \cup {<<n>> : n \in EL}
  /\ stage = "open" => current_node_name = up.node
  /\ stage = "connecting" => old_node = up.node

TrackingOK == tracker \in FiniteTracker /\ pending_subscribes \subseteq Pending

UpstreamType ==
  [node : {NoNode} \cup EL, alive : BOOLEAN, in : Seq(ToUpstream),
   subs : SUBSET [sub : SubId, id : RpcId, params : Params],
   rejected : SUBSET RpcId, out : Seq(ToClient)]

ChannelsOK == up \in UpstreamType /\ c2p \in Seq(ToUpstream \cup {Close})

CInv == NamesOK /\ TrackingOK /\ ChannelsOK

LEMMA CInvTypes == CInv => CTypeOK
<1> SUFFICES ASSUME CInv PROVE CTypeOK
  OBVIOUS
<1>1. up.in \in Seq(ToUpstream) /\ up.out \in Seq(ToClient) /\ up.node \in {NoNode} \cup EL
  BY DEF CInv, ChannelsOK, UpstreamType
<1>2. ToSet(up.in) \subseteq ToUpstream /\ ToSet(up.out) \subseteq ToClient
  BY <1>1, ElementOfSeq DEF ToSet
<1> QED
  BY <1>1, <1>2 DEF CInv, NamesOK, TrackingOK, FiniteTracker, CTypeOK

LEMMA FreshUpstream ==
  ASSUME NEW n \in {NoNode} \cup EL, NEW in \in Seq(ToUpstream)
  PROVE  Upstream(n, in) \in UpstreamType /\ Upstream(n, in).node = n
BY DEF Upstream, UpstreamType

LEMMA CInvInit == CInit => CInv
<1> SUFFICES ASSUME CInit PROVE CInv
  OBVIOUS
<1>1. NamesOK
  BY DEF CInit, NamesOK
<1>2. TrackingOK
  BY NewTrackerType DEF CInit, TrackingOK
<1>3. ChannelsOK
  <2>1. <<>> \in Seq(ToUpstream) /\ <<>> \in Seq(ToUpstream \cup {Close})
    OBVIOUS
  <2>2. Upstream(NoNode, <<>>) \in UpstreamType
    BY <2>1, FreshUpstream
  <2> QED
    BY <2>1, <2>2 DEF CInit, ChannelsOK
<1> QED
  BY <1>1, <1>2, <1>3 DEF CInv

(***************************************************************************)
(* The names.                                                              *)
(***************************************************************************)
LEMMA UpstreamKeepsNode ==
  ASSUME CInv, UpstreamNode
  PROVE  up'.node = up.node /\ UNCHANGED <<loop_vars, reconnect, client, c2p>>
BY DEF CInv, ChannelsOK, UpstreamType, UpstreamNode, Accepts, Rejects, Unsubscribed,
       Notifies, UpstreamCloses, UpstreamDies, UpstreamStep

LEMMA NamesNext == CInv /\ [CNext]_cvars => NamesOK'
<1> SUFFICES ASSUME CInv, [CNext]_cvars PROVE NamesOK'
  OBVIOUS
<1> USE DEF CInv, NamesOK, loop_vars
<1>1. CASE UNCHANGED cvars
  BY <1>1 DEF cvars
<1>2. CASE RefuseUpgrade \/ \E n \in EL : Upgrade(n) \/ Signal(n)
  BY <1>2 DEF RefuseUpgrade, Upgrade, Signal
<1>3. CASE Client
  BY <1>3 DEF Client, ClientSubscribes, ClientUnsubscribes, ClientCloses,
              ClientVanishes, Asks, ClientStep
<1>4. CASE UpstreamNode
  BY <1>4, UpstreamKeepsNode
<1>5. CASE \E connected \in BOOLEAN : InitialConnect(connected)
  BY <1>5 DEF InitialConnect, Upstream
<1>6. CASE HandleClientMessage
  <2>1. up'.node = up.node
    BY <1>6 DEF HandleClientMessage, Forward, ChannelsOK, UpstreamType
  <2>2. stage = "open" /\ stage' \in {"open", "closed"}
    BY <1>6 DEF HandleClientMessage
  <2> QED
    BY <1>6, <2>1, <2>2 DEF HandleClientMessage
<1>7. CASE HandleUpstreamMessage
  <2>1. up'.node = up.node
    BY <1>7 DEF HandleUpstreamMessage, ChannelsOK, UpstreamType
  <2>2. stage = "open" /\ stage' \in {"open", "closed"}
    BY <1>7 DEF HandleUpstreamMessage
  <2> QED
    BY <1>7, <2>1, <2>2 DEF HandleUpstreamMessage
<1>8. CASE TakeReconnect
  <2>1. PICK n \in EL : reconnect = <<n>>
    BY <1>8 DEF TakeReconnect
  <2>2. Head(reconnect) = n /\ Tail(reconnect) = <<>>
    BY <2>1
  <2> QED
    BY <1>8, <2>2 DEF TakeReconnect
<1>9. CASE Reconnected
  BY <1>9 DEF Reconnected, Upstream
<1>10. CASE ReconnectFails
  BY <1>10 DEF ReconnectFails
<1> QED
  BY <1>1, <1>2, <1>3, <1>4, <1>5, <1>6, <1>7, <1>8, <1>9, <1>10
     DEF CNext, Session, ProxyLoop

(***************************************************************************)
(* What is tracked and what is pending.                                    *)
(***************************************************************************)
LEMMA TrackType ==
  ASSUME TrackingOK, NEW m \in ToClient, Track(m)
  PROVE  TrackingOK'
<1> DEFINE match == PendingFor(pending_subscribes, m.id)
           p == CHOOSE x \in match : TRUE
<1>1. CASE m.type = "response" /\ m.sub # NoSub /\ match # {}
  <2>1. p \in Pending /\ m.id \in RpcId /\ m.sub \in SubId
    BY <1>1, NodeMessages DEF TrackingOK, PendingFor
  <2>2. track_subscribe(tracker, p.params, m.id, m.sub) \in FiniteTracker
    BY <2>1, TrackSubscribeType DEF TrackingOK, Pending
  <2> QED
    BY <1>1, <2>2 DEF Track, TrackingOK, RemovePending
<1>2. CASE ~(m.type = "response" /\ m.sub # NoSub /\ match # {})
  BY <1>2 DEF Track, TrackingOK
<1> QED
  BY <1>1, <1>2

LEMMA TrackingNext == CInv /\ [CNext]_cvars => TrackingOK'
<1> SUFFICES ASSUME CInv, [CNext]_cvars PROVE TrackingOK'
  OBVIOUS
<1> USE DEF CInv, TrackingOK, loop_vars
<1>1. CASE UNCHANGED <<tracker, pending_subscribes>>
  BY <1>1
<1>2. CASE HandleClientMessage
  <2>1. Head(c2p) \in ToUpstream \cup {Close}
    BY <1>2, HeadTailProperties DEF HandleClientMessage, ChannelsOK
  <2>2. CASE Head(c2p).type = "subscribe"
    <3>1. [rpc_id |-> Head(c2p).id, params |-> Head(c2p).params] \in Pending
      BY <2>1, <2>2, ClientMessages DEF Pending
    <3> QED
      BY <1>2, <2>2, <3>1 DEF HandleClientMessage, InsertPending
  <2>3. CASE Head(c2p).type = "unsubscribe"
    BY <1>2, <2>3, RemoveSubscriptionType DEF HandleClientMessage
  <2>4. CASE Head(c2p).type = "close"
    BY <1>2, <2>4 DEF HandleClientMessage
  <2> QED
    BY <2>1, <2>2, <2>3, <2>4, ClientMessages
<1>3. CASE HandleUpstreamMessage
  <2>1. Head(up.out) \in ToClient
    BY <1>3, HeadTailProperties DEF HandleUpstreamMessage, ChannelsOK, UpstreamType
  <2> QED
    BY <1>1, <1>3, <2>1, TrackType DEF HandleUpstreamMessage
<1>4. CASE Reconnected \/ ReconnectFails
  BY <1>4, ClearMappingsType DEF Reconnected, ReconnectFails
<1>5. CASE RefuseUpgrade \/ \E n \in EL : Upgrade(n) \/ Signal(n)
  BY <1>5 DEF RefuseUpgrade, Upgrade, Signal
<1>6. CASE Client
  BY <1>6 DEF Client, ClientSubscribes, ClientUnsubscribes, ClientCloses,
              ClientVanishes, Asks, ClientStep
<1>7. CASE UpstreamNode
  BY <1>7, UpstreamKeepsNode
<1>8. CASE TakeReconnect \/ \E connected \in BOOLEAN : InitialConnect(connected)
  BY <1>8 DEF TakeReconnect, InitialConnect
<1> QED
  BY <1>1, <1>2, <1>3, <1>4, <1>5, <1>6, <1>7, <1>8 DEF CNext, Session, ProxyLoop, cvars

(***************************************************************************)
(* The channels.                                                           *)
(***************************************************************************)
LEMMA UpstreamNodeType ==
  ASSUME CInv, UpstreamNode
  PROVE  up' \in UpstreamType
<1> USE DEF CInv, ChannelsOK, UpstreamType
<1>1. CASE Accepts
  <2>1. PICK s \in SubId :
          up' = [up EXCEPT
                   !.in = Tail(@),
                   !.subs = @ \cup {[sub |-> s, id |-> Head(up.in).id,
                                     params |-> Head(up.in).params]},
                   !.out = Append(@, Response(Head(up.in).id, s))]
    BY <1>1 DEF Accepts, UpstreamStep
  <2>2. Head(up.in) \in ToUpstream /\ Tail(up.in) \in Seq(ToUpstream)
    BY <1>1, HeadTailProperties DEF Accepts
  <2>3. Head(up.in).id \in RpcId /\ Head(up.in).params \in Params
    BY <1>1, <2>2, ClientMessages DEF Accepts
  <2>4. Response(Head(up.in).id, s) \in ToClient
    BY <2>3 DEF ToClient
  <2>5. Append(up.out, Response(Head(up.in).id, s)) \in Seq(ToClient)
    BY <2>4
  <2>6. [sub |-> s, id |-> Head(up.in).id, params |-> Head(up.in).params]
          \in [sub : SubId, id : RpcId, params : Params]
    BY <2>3
  <2> QED
    BY <2>1, <2>2, <2>5, <2>6
<1>2. CASE Rejects \/ Unsubscribed
  <2>1. Head(up.in) \in ToUpstream /\ Tail(up.in) \in Seq(ToUpstream)
    BY <1>2, HeadTailProperties DEF Rejects, Unsubscribed
  <2>2. Head(up.in).id \in RpcId
    BY <1>2, <2>1, ClientMessages DEF Rejects, Unsubscribed
  <2>3. Response(Head(up.in).id, NoSub) \in ToClient
    BY <2>2 DEF ToClient
  <2>4. Append(up.out, Response(Head(up.in).id, NoSub)) \in Seq(ToClient)
    BY <2>3
  <2>5. CASE Rejects
    BY <2>1, <2>2, <2>4, <2>5 DEF Rejects, UpstreamStep
  <2>6. CASE Unsubscribed
    <3>1. {x \in up.subs : x.sub # Head(up.in).sub}
            \in SUBSET [sub : SubId, id : RpcId, params : Params]
      OBVIOUS
    <3> QED
      BY <2>1, <2>4, <2>6, <3>1 DEF Unsubscribed, UpstreamStep
  <2> QED
    BY <1>2, <2>5, <2>6
<1>3. CASE Notifies
  <2>1. PICK x \in up.subs :
          up' = [up EXCEPT !.out = Append(@, Notification(x.sub, x.params))]
    BY <1>3 DEF Notifies, UpstreamStep
  <2>2. Notification(x.sub, x.params) \in ToClient
    BY <2>1 DEF ToClient
  <2>3. Append(up.out, Notification(x.sub, x.params)) \in Seq(ToClient)
    BY <2>2
  <2> QED
    BY <2>1, <2>3
<1>4. CASE UpstreamCloses
  <2>1. Append(up.out, Close) \in Seq(ToClient)
    BY DEF ToClient
  <2> QED
    BY <1>4, <2>1 DEF UpstreamCloses, UpstreamStep
<1>5. CASE UpstreamDies
  BY <1>5 DEF UpstreamDies, UpstreamStep
<1> QED
  BY <1>1, <1>2, <1>3, <1>4, <1>5 DEF UpstreamNode

LEMMA ChannelsNext == CInv /\ [CNext]_cvars => ChannelsOK'
<1> SUFFICES ASSUME CInv, [CNext]_cvars PROVE ChannelsOK'
  OBVIOUS
<1> USE DEF CInv, ChannelsOK
<1>1. CASE UNCHANGED <<up, c2p>>
  BY <1>1
<1>2. CASE UpstreamNode
  BY <1>2, UpstreamNodeType, UpstreamKeepsNode
<1>3. CASE Client
  <2>1. PICK msgs \in Seq(ToUpstream \cup {Close}) : c2p' = c2p \o msgs /\ UNCHANGED up
    <3>1. ASSUME NEW id \in RpcId, NEW p \in Params, ClientSubscribes(id, p)
          PROVE  \E msgs \in Seq(ToUpstream \cup {Close}) : c2p' = c2p \o msgs /\ UNCHANGED up
      <4>1. <<Subscribe(id, p)>> \in Seq(ToUpstream \cup {Close})
        BY DEF ToUpstream
      <4> QED
        BY <3>1, <4>1 DEF ClientSubscribes, Asks, ClientStep
    <3>2. ASSUME NEW id \in RpcId, NEW s \in SubId, ClientUnsubscribes(id, s)
          PROVE  \E msgs \in Seq(ToUpstream \cup {Close}) : c2p' = c2p \o msgs /\ UNCHANGED up
      <4>1. <<Unsubscribe(id, s)>> \in Seq(ToUpstream \cup {Close})
        BY DEF ToUpstream
      <4> QED
        BY <3>2, <4>1 DEF ClientUnsubscribes, Asks, ClientStep
    <3>3. CASE ClientCloses
      <4>1. <<Close>> \in Seq(ToUpstream \cup {Close})
        OBVIOUS
      <4> QED
        BY <3>3, <4>1 DEF ClientCloses, ClientStep
    <3>4. CASE ClientVanishes
      <4>1. <<>> \in Seq(ToUpstream \cup {Close})
        OBVIOUS
      <4> QED
        BY <3>4, <4>1 DEF ClientVanishes, ClientStep
    <3> QED
      BY <1>3, <3>1, <3>2, <3>3, <3>4 DEF Client
  <2>2. c2p \o msgs \in Seq(ToUpstream \cup {Close})
    BY <2>1, ConcatProperties
  <2> QED
    BY <2>1, <2>2
<1>4. CASE HandleClientMessage
  <2>1. Head(c2p) \in ToUpstream \cup {Close} /\ Tail(c2p) \in Seq(ToUpstream \cup {Close})
    BY <1>4, HeadTailProperties DEF HandleClientMessage
  <2>2. CASE Head(c2p).type = "close"
    BY <1>4, <2>1, <2>2 DEF HandleClientMessage
  <2>3. CASE Head(c2p).type # "close"
    <3>1. Head(c2p) \in ToUpstream
      BY <2>1, <2>3, ClientMessages
    <3>2. Append(up.in, Head(c2p)) \in Seq(ToUpstream)
      BY <3>1 DEF UpstreamType
    <3>3. Forward(Head(c2p))
      BY <1>4, <2>3 DEF HandleClientMessage
    <3>4. up' \in UpstreamType
      BY <3>2, <3>3 DEF Forward, UpstreamType
    <3> QED
      BY <1>4, <2>1, <3>4 DEF HandleClientMessage
  <2> QED
    BY <2>2, <2>3
<1>5. CASE HandleUpstreamMessage
  <2>1. Tail(up.out) \in Seq(ToClient)
    BY <1>5, HeadTailProperties DEF HandleUpstreamMessage, UpstreamType
  <2> QED
    BY <1>5, <2>1 DEF HandleUpstreamMessage, UpstreamType
<1>6. CASE Reconnected
  <2>1. PICK replays \in Replays : up' = Upstream(current_node_name, replays)
    BY <1>6 DEF Reconnected
  <2>2. replays \in Seq(ToUpstream)
    BY ReplaysType DEF TrackingOK
  <2> QED
    BY <1>6, <2>1, <2>2, FreshUpstream DEF Reconnected, NamesOK
<1>7. ASSUME NEW connected \in BOOLEAN, InitialConnect(connected) PROVE ChannelsOK'
  <2>1. <<>> \in Seq(ToUpstream)
    OBVIOUS
  <2> QED
    BY <1>7, <2>1, FreshUpstream DEF InitialConnect, NamesOK
<1>8. CASE \/ RefuseUpgrade \/ TakeReconnect \/ ReconnectFails
           \/ \E n \in EL : Upgrade(n) \/ Signal(n)
  BY <1>8 DEF RefuseUpgrade, Upgrade, Signal, TakeReconnect, ReconnectFails
<1> QED
  BY <1>1, <1>2, <1>3, <1>4, <1>5, <1>6, <1>7, <1>8 DEF CNext, Session, ProxyLoop, cvars

LEMMA CInvNext == CInv /\ [CNext]_cvars => CInv'
BY NamesNext, TrackingNext, ChannelsNext DEF CInv

(***************************************************************************)
(* The variables of a connection stay in their domains, and whenever the   *)
(* loop is in its select! the name the health task watches is that of the  *)
(* upstream it uses.                                                       *)
(***************************************************************************)
THEOREM CTypeCorrect == CSpec => []CTypeOK
BY CInvInit, CInvNext, CInvTypes, PTL DEF CSpec

-----------------------------------------------------------------------------
(***************************************************************************)
(* WsProxy.  Whatever the health task has read, however long ago, what it  *)
(* sends is a configured node; so its steps, and those of the upgrade      *)
(* handler, are steps that WsConnection allows.                            *)
(***************************************************************************)
HealthType ==
  [at : {"off", "tick", "named", "unhealthy", "select", "send"},
   node : {NoNode} \cup EL, flag : BOOLEAN, target : {NoNode} \cup EL]

TargetsOK ==
  /\ ITypeOK
  /\ handler \in [loaded : BOOLEAN, flag : BOOLEAN]
  /\ health \in HealthType
  /\ health.at = "send" => health.target \in EL
  /\ stage \in {"new", "refused"} => health.at = "off"
  /\ stage \in {"initial", "open", "connecting"} => health.at # "off"

WInv == CInv /\ TargetsOK

LEMMA WInvInit == WInit => WInv
<1> SUFFICES ASSUME WInit PROVE WInv
  OBVIOUS
<1>1. CInv
  BY CInvInit DEF WInit
<1>2. TargetsOK
  BY DEF WInit, IInit, CInit, Resting, TargetsOK, ITypeOK, HealthType
<1> QED
  BY <1>1, <1>2 DEF WInv

(***************************************************************************)
(* Every step is a step of the connection, or leaves it alone.             *)
(***************************************************************************)
LEMMA ConnectionStep == WInv /\ [WNext]_wvars => [CNext]_cvars
<1> SUFFICES ASSUME WInv, [WNext]_wvars PROVE [CNext]_cvars
  OBVIOUS
<1>1. CASE UNCHANGED wvars
  BY <1>1 DEF wvars
<1>2. CASE \/ Monitor \/ LoadFlag \/ ReadName \/ CheckNode \/ ReadFlag
           \/ SelectNode \/ SendFails
  BY <1>2 DEF Monitor, LoadFlag, ReadName, CheckNode, ReadFlag, SelectNode, SendFails
<1>3. CASE SelectFirst
  <2>1. handler.flag \in BOOLEAN
    BY DEF WInv, TargetsOK
  <2>2. select_el_node(Nodes, handler.flag) \in {NoNode} \cup EL
    BY <2>1, SelectElNode
  <2> QED
    BY <1>3, <2>2 DEF SelectFirst, CNext
<1>4. CASE SendReconnect
  BY <1>4 DEF SendReconnect, CNext, WInv, TargetsOK
<1>5. CASE Alone(Session)
  BY <1>5 DEF Alone, CNext
<1> QED
  BY <1>1, <1>2, <1>3, <1>4, <1>5 DEF WNext, HealthTask

LEMMA TargetsNext == WInv /\ [WNext]_wvars => TargetsOK'
<1> SUFFICES ASSUME WInv, [WNext]_wvars PROVE TargetsOK'
  OBVIOUS
<1> USE DEF WInv, TargetsOK, ITypeOK
<1>1. CASE UNCHANGED wvars
  BY <1>1 DEF wvars, env, cvars, loop_vars
<1>2. CASE Monitor
  BY <1>2 DEF Monitor, INext, TakeLock, ReleaseLock, PublishHealth, PublishFailover,
              NoPrimary, cvars, loop_vars
<1>3. CASE LoadFlag
  BY <1>3 DEF LoadFlag, env, cvars, loop_vars
<1>4. CASE SelectFirst
  <2>1. Resting \in HealthType /\ Resting.at = "tick"
    BY DEF Resting, HealthType
  <2> QED
    BY <1>4, <2>1 DEF SelectFirst, Upgrade, RefuseUpgrade, env
<1>5. CASE ReadName
  BY <1>5 DEF ReadName, HealthType, env, cvars, loop_vars, CInv, NamesOK
<1>6. CASE CheckNode
  BY <1>6 DEF CheckNode, Resting, HealthType, env, cvars, loop_vars
<1>7. CASE SelectNode
  <2>1. health.flag \in BOOLEAN
    BY DEF HealthType
  <2>2. select_el_node(Nodes, health.flag) \in {NoNode} \cup EL
    BY <2>1, SelectElNode
  <2> QED
    BY <1>7, <2>2 DEF SelectNode, Resting, HealthType, env, cvars, loop_vars
<1>8. CASE SendReconnect
  BY <1>8 DEF SendReconnect, Signal, Resting, HealthType, env, loop_vars
<1>9. CASE SendFails
  BY <1>9 DEF SendFails, Resting, HealthType, env, cvars, loop_vars
<1>10. CASE ReadFlag
  BY <1>10 DEF ReadFlag, HealthType, env, cvars, loop_vars
<1>11. CASE Alone(Session)
  <2>1. UNCHANGED <<env, handler, health>>
    BY <1>11 DEF Alone
  <2>2. \/ stage \in {"initial", "open", "connecting"}
        \/ UNCHANGED stage
    BY <1>11 DEF Alone, Session, ProxyLoop, InitialConnect, HandleClientMessage,
       HandleUpstreamMessage, TakeReconnect, Reconnected, ReconnectFails, Client,
       ClientSubscribes, ClientUnsubscribes, ClientCloses, ClientVanishes, Asks,
       ClientStep, UpstreamNode, Accepts, Rejects, Unsubscribed, Notifies,
       UpstreamCloses, UpstreamDies, UpstreamStep, loop_vars
  <2>3. stage' \in {"open", "connecting", "closed"} \/ UNCHANGED stage
    BY <1>11 DEF Alone, Session, ProxyLoop, InitialConnect, HandleClientMessage,
       HandleUpstreamMessage, TakeReconnect, Reconnected, ReconnectFails, Client,
       ClientSubscribes, ClientUnsubscribes, ClientCloses, ClientVanishes, Asks,
       ClientStep, UpstreamNode, Accepts, Rejects, Unsubscribed, Notifies,
       UpstreamCloses, UpstreamDies, UpstreamStep, loop_vars
  <2> QED
    BY <2>1, <2>2, <2>3 DEF env
<1> QED
  BY <1>1, <1>2, <1>3, <1>4, <1>5, <1>6, <1>7, <1>8, <1>9, <1>10, <1>11
     DEF WNext, HealthTask

LEMMA WInvNext == WInv /\ [WNext]_wvars => WInv'
BY ConnectionStep, CInvNext, TargetsNext DEF WInv

(***************************************************************************)
(* Types, and that the health task starts with the upgrade and does not    *)
(* end before the connection.                                              *)
(***************************************************************************)
THEOREM WTypeCorrect == WSpec => []WTypeOK
<1>1. WInv => WTypeOK
  BY CInvTypes DEF WInv, TargetsOK, HealthType, WTypeOK
<1> QED
  BY <1>1, WInvInit, WInvNext, PTL DEF WSpec

(***************************************************************************)
(* The upgrade handler and the health task drive the connection as         *)
(* WsConnection allows, so that everything true of every connection of     *)
(* WsConnection is true under them.                                        *)
(***************************************************************************)
THEOREM ConnectionIsDriven == WSpec => IsWsConnection
<1>1. WInit => CInit
  BY DEF WInit
<1> QED
  BY <1>1, WInvInit, WInvNext, ConnectionStep, PTL DEF WSpec, CSpec, IsWsConnection

-----------------------------------------------------------------------------
(***************************************************************************)
(* The subscriptions of a connection: from the request of the client       *)
(* through the loop to the node and its answer, and through every          *)
(* reconnection.  What follows is about a client that uses each request id *)
(* once and nodes that assign each subscription id once.  The invariant is *)
(* SessionInv.                                                             *)
(*                                                                         *)
(* The messages on their way to the loop, to the node and back, by kind.   *)
(***************************************************************************)
QueuedSubscribes == {m \in ToSet(c2p) : m.type = "subscribe"}
QueuedUnsubscribes == {m \in ToSet(c2p) : m.type = "unsubscribe"}
QueuedIds == {m.id : m \in QueuedSubscribes \cup QueuedUnsubscribes}

ForwardedSubscribes == {m \in ToSet(up.in) : m.type = "subscribe"}
ForwardedUnsubscribes == {m \in ToSet(up.in) : m.type = "unsubscribe"}
ForwardedIds == {m.id : m \in ForwardedSubscribes \cup ForwardedUnsubscribes}

Responses == {m \in ToSet(up.out) : m.type = "response"}
Events == {m \in ToSet(up.out) : m.type = "notification"}
AnsweredIds == {m.id : m \in Responses}
Accepted == {m \in Responses : m.sub # NoSub}

(***************************************************************************)
(* The request ids and the subscription ids that each part remembers.      *)
(***************************************************************************)
PendingIds == {p.rpc_id : p \in pending_subscribes}
AskedIds == {a.rpc_id : a \in client.asked}
TrackedIds == {r.rpc_id : r \in tracker.subscriptions}
LiveIds == {x.id : x \in up.subs}

KnownSubs == {k.sub : k \in client.known}
LeavingSubs == {m.sub : m \in QueuedUnsubscribes}
RemovedSubs == {m.sub : m \in ForwardedUnsubscribes}
TrackedSubs == {r.client_sub_id : r \in tracker.subscriptions}
AcceptedSubs == {m.sub : m \in Accepted}
LiveSubs == {x.sub : x \in up.subs}
EventSubs == {m.sub : m \in Events}

(***************************************************************************)
(* No two requests, or answers, in a channel have one id; no two answers   *)
(* assign one subscription id.                                             *)
(***************************************************************************)
Requests == {"subscribe", "unsubscribe", "response"}

OneIdEach(seq) ==
  \A i, j \in 1 .. Len(seq) :
    /\ seq[i].type \in Requests /\ seq[j].type \in Requests
    /\ seq[i].id = seq[j].id
    => i = j

OneSubEach(seq) ==
  \A i, j \in 1 .. Len(seq) :
    /\ seq[i].type = "response" /\ seq[j].type = "response"
    /\ seq[i].sub = seq[j].sub /\ seq[i].sub # NoSub
    => i = j

(***************************************************************************)
(* The client numbers its requests, and no number is ahead of it.          *)
(***************************************************************************)
ClientType ==
  [state : {"up", "closing", "gone"}, sent : Nat,
   asked : SUBSET [rpc_id : RpcId, params : Params \cup {NoParams}],
   known : SUBSET [sub : SubId, params : Params]]

Numbered ==
  /\ client \in ClientType
  /\ \A id \in QueuedIds \cup ForwardedIds \cup AnsweredIds
                 \cup PendingIds \cup AskedIds \cup TrackedIds \cup LiveIds :
       id <= client.sent

(***************************************************************************)
(* A request is in one place at most: on its way to the loop, on its way   *)
(* to the node, or as an answer on its way back.                           *)
(***************************************************************************)
OneMessageEach ==
  /\ OneIdEach(c2p) /\ OneIdEach(up.in) /\ OneIdEach(up.out) /\ OneSubEach(up.out)
  /\ QueuedIds \cap (ForwardedIds \cup AnsweredIds) = {}
  /\ ForwardedIds \cap AnsweredIds = {}

(***************************************************************************)
(* The maps are maps; a request is pending or tracked, and neither before  *)
(* the loop has it; the id in a mapping is mapped to itself.               *)
(***************************************************************************)
OneEntryEach ==
  /\ \A p, q \in pending_subscribes : p.rpc_id = q.rpc_id => p = q
  /\ \A a, b \in client.asked : a.rpc_id = b.rpc_id => a = b
  /\ \A r, t \in tracker.subscriptions : r.rpc_id = t.rpc_id => r = t
  /\ \A x, y \in up.subs : x.sub = y.sub => x = y
  /\ \A m \in tracker.upstream_to_client_id : m.upstream = m.client
  /\ PendingIds \cap TrackedIds = {}
  /\ QueuedIds \cap (PendingIds \cup TrackedIds \cup LiveIds) = {}

(***************************************************************************)
(* Client, loop and node mean the same subscription by a request id, and   *)
(* a request the node has, or has accepted, is pending in the loop exactly *)
(* if the client waits for its answer.                                     *)
(***************************************************************************)
RequestsAgree ==
  /\ \A m \in QueuedSubscribes : [rpc_id |-> m.id, params |-> m.params] \in client.asked
  /\ \A m \in ForwardedSubscribes, p \in pending_subscribes :
       p.rpc_id = m.id => p.params = m.params
  /\ \A m \in Accepted : \E x \in up.subs :
       /\ x.sub = m.sub /\ x.id = m.id
       /\ \A p \in pending_subscribes : p.rpc_id = m.id => p.params = x.params
  /\ client.state = "up" =>
       /\ TrackedIds \cap AskedIds = {}
       /\ \A m \in ForwardedSubscribes \cup Accepted :
            PendingFor(pending_subscribes, m.id) = PendingFor(client.asked, m.id)

(***************************************************************************)
(* Every subscription id in sight has been assigned, and one that is on    *)
(* its way to the loop is known to nobody else yet.                        *)
(***************************************************************************)
IdsAreFresh ==
  /\ KnownSubs \cup LeavingSubs \cup RemovedSubs \cup TrackedSubs \cup AcceptedSubs
       \cup LiveSubs \cup EventSubs \subseteq used
  /\ AcceptedSubs \cap (KnownSubs \cup LeavingSubs \cup RemovedSubs \cup TrackedSubs) = {}

(***************************************************************************)
(* Carried, in terms of the messages on their way.                         *)
(***************************************************************************)
HeldByNode(r) ==
  \/ \E x \in up.subs : x.id = r.rpc_id /\ x.params = r.params
  \/ r.rpc_id \in up.rejected
  \/ \E m \in ForwardedSubscribes : m.id = r.rpc_id /\ m.params = r.params

(***************************************************************************)
(* The node has what is tracked; and what the client removes, under the id *)
(* it was given, carries no other subscription.                            *)
(***************************************************************************)
SubscriptionsCarried ==
  /\ stage \in {"new", "initial"} => tracker.subscriptions = {}
  /\ \A r \in tracker.subscriptions : HeldByNode(r)
  /\ \A r \in tracker.subscriptions, x \in up.subs :
       r.client_sub_id = x.sub => r.rpc_id = x.id
  /\ \A x \in up.subs : x.sub \in KnownSubs \cup LeavingSubs =>
       /\ x.id \notin PendingIds
       /\ \A r \in tracker.subscriptions : r.rpc_id = x.id => r.client_sub_id = x.sub
  /\ \A x \in up.subs : x.sub \in RemovedSubs => x.id \notin PendingIds \cup TrackedIds

(***************************************************************************)
(* A subscription id stands for the same subscription at the node, in its  *)
(* events and with the client.                                             *)
(***************************************************************************)
KindsAgree ==
  /\ \A k \in client.known, x \in up.subs : k.sub = x.sub => k.params = x.params
  /\ \A k \in client.known, e \in Events : k.sub = e.sub => k.params = e.params
  /\ \A x \in up.subs, e \in Events : x.sub = e.sub => x.params = e.params

(***************************************************************************)
(* TrackerMatchesClient, whatever the stage.                               *)
(***************************************************************************)
TrackerMatches ==
  client.state = "up" =>
    client.known = {[sub |-> r.client_sub_id, params |-> r.params] :
                      r \in {x \in tracker.subscriptions : x.client_sub_id \notin LeavingSubs}}

SessionInv ==
  /\ Numbered /\ OneMessageEach /\ OneEntryEach /\ RequestsAgree
  /\ IdsAreFresh /\ SubscriptionsCarried /\ KindsAgree /\ TrackerMatches

-----------------------------------------------------------------------------
(***************************************************************************)
(* Channels.  What is appended to one, and what is taken from one.         *)
(***************************************************************************)
LEMMA AppendedSet ==
  ASSUME NEW T, NEW seq \in Seq(T), NEW m \in T
  PROVE  ToSet(Append(seq, m)) = ToSet(seq) \cup {m}
<1>1. /\ Len(Append(seq, m)) = Len(seq) + 1
      /\ \A i \in 1 .. Len(seq) : Append(seq, m)[i] = seq[i]
      /\ Append(seq, m)[Len(seq) + 1] = m
  OBVIOUS
<1>2. Len(seq) \in Nat /\ DOMAIN seq = 1 .. Len(seq)
  OBVIOUS
<1>3. DOMAIN Append(seq, m) = 1 .. (Len(seq) + 1)
  OBVIOUS
<1> QED
  BY <1>1, <1>2, <1>3 DEF ToSet

LEMMA TailSet ==
  ASSUME NEW T, NEW seq \in Seq(T), seq # <<>>
  PROVE  ToSet(seq) = ToSet(Tail(seq)) \cup {Head(seq)}
<1>1. /\ Len(seq) \in Nat /\ Len(seq) >= 1
      /\ Tail(seq) \in Seq(T) /\ Len(Tail(seq)) = Len(seq) - 1
      /\ \A i \in 1 .. Len(Tail(seq)) : Tail(seq)[i] = seq[i + 1]
      /\ Head(seq) = seq[1]
  BY HeadTailProperties
<1>2. DOMAIN seq = 1 .. Len(seq) /\ DOMAIN Tail(seq) = 1 .. Len(Tail(seq))
  BY <1>1
<1>3. ASSUME NEW i \in 1 .. Len(seq) PROVE seq[i] \in ToSet(Tail(seq)) \cup {Head(seq)}
  <2>1. CASE i = 1
    BY <1>1, <2>1
  <2>2. CASE i # 1
    <3>1. i - 1 \in 1 .. Len(Tail(seq)) /\ Tail(seq)[i - 1] = seq[i]
      BY <1>1, <2>2
    <3> QED
      BY <1>2, <3>1 DEF ToSet
  <2> QED
    BY <2>1, <2>2
<1>4. ASSUME NEW i \in 1 .. Len(Tail(seq)) PROVE Tail(seq)[i] \in ToSet(seq)
  <2>1. i + 1 \in 1 .. Len(seq) /\ Tail(seq)[i] = seq[i + 1]
    BY <1>1
  <2> QED
    BY <1>2, <2>1 DEF ToSet
<1>5. Head(seq) \in ToSet(seq)
  <2>1. 1 \in 1 .. Len(seq)
    BY <1>1
  <2> QED
    BY <1>1, <1>2, <2>1 DEF ToSet
<1> QED
  BY <1>2, <1>3, <1>4, <1>5 DEF ToSet

LEMMA AppendOneEach ==
  ASSUME NEW T, NEW seq \in Seq(T), NEW m \in T
  PROVE  /\ /\ OneIdEach(seq)
            /\ \A x \in ToSet(seq) :
                 m.type \in Requests /\ x.type \in Requests => x.id # m.id
            => OneIdEach(Append(seq, m))
         /\ /\ OneSubEach(seq)
            /\ \A x \in ToSet(seq) :
                 /\ m.type = "response" /\ m.sub # NoSub
                 /\ x.type = "response" /\ x.sub # NoSub
                 => x.sub # m.sub
            => OneSubEach(Append(seq, m))
<1> DEFINE new == Append(seq, m)
<1>1. /\ Len(seq) \in Nat /\ Len(new) = Len(seq) + 1
      /\ \A i \in 1 .. Len(seq) : new[i] = seq[i] /\ seq[i] \in ToSet(seq)
      /\ new[Len(seq) + 1] = m
  BY DEF ToSet
<1>2. \A i \in 1 .. Len(new) : i \in 1 .. Len(seq) \/ i = Len(seq) + 1
  BY <1>1
<1> HIDE DEF new
<1>3. ASSUME OneIdEach(seq),
             \A x \in ToSet(seq) : m.type \in Requests /\ x.type \in Requests => x.id # m.id
      PROVE  OneIdEach(new)
  BY <1>1, <1>2, <1>3 DEF OneIdEach
<1>4. ASSUME OneSubEach(seq),
             \A x \in ToSet(seq) :
                 /\ m.type = "response" /\ m.sub # NoSub
                 /\ x.type = "response" /\ x.sub # NoSub
                 => x.sub # m.sub
      PROVE  OneSubEach(new)
  BY <1>1, <1>2, <1>4 DEF OneSubEach
<1> QED
  BY <1>3, <1>4 DEF new

LEMMA TailOneEach ==
  ASSUME NEW T, NEW seq \in Seq(T), seq # <<>>
  PROVE  /\ OneIdEach(seq) =>
              /\ OneIdEach(Tail(seq))
              /\ Head(seq).type \in Requests =>
                   \A x \in ToSet(Tail(seq)) : x.type \in Requests => x.id # Head(seq).id
         /\ OneSubEach(seq) =>
              /\ OneSubEach(Tail(seq))
              /\ Head(seq).type = "response" /\ Head(seq).sub # NoSub =>
                   \A x \in ToSet(Tail(seq)) :
                     x.type = "response" /\ x.sub # NoSub => x.sub # Head(seq).sub
<1> DEFINE rest == Tail(seq)
<1>1. /\ Len(seq) \in Nat /\ Len(seq) >= 1
      /\ rest \in Seq(T) /\ Len(rest) = Len(seq) - 1
      /\ \A i \in 1 .. Len(rest) : rest[i] = seq[i + 1]
      /\ Head(seq) = seq[1]
  BY HeadTailProperties
<1>2. /\ \A i \in 1 .. Len(rest) : i + 1 \in 1 .. Len(seq) /\ i + 1 # 1
      /\ 1 \in 1 .. Len(seq)
      /\ \A i, j \in 1 .. Len(rest) : i + 1 = j + 1 => i = j
  BY <1>1
<1>3. \A x \in ToSet(rest) : \E i \in 1 .. Len(rest) : x = seq[i + 1]
  BY <1>1 DEF ToSet
<1> HIDE DEF rest
<1>4. ASSUME OneIdEach(seq)
      PROVE  /\ OneIdEach(rest)
             /\ Head(seq).type \in Requests =>
                  \A x \in ToSet(rest) : x.type \in Requests => x.id # Head(seq).id
  <2>1. OneIdEach(rest)
    BY <1>1, <1>2, <1>4 DEF OneIdEach
  <2> QED
    BY <1>1, <1>2, <1>3, <1>4, <2>1 DEF OneIdEach
<1>5. ASSUME OneSubEach(seq)
      PROVE  /\ OneSubEach(rest)
             /\ Head(seq).type = "response" /\ Head(seq).sub # NoSub =>
                  \A x \in ToSet(rest) :
                    x.type = "response" /\ x.sub # NoSub => x.sub # Head(seq).sub
  <2>1. OneSubEach(rest)
    BY <1>1, <1>2, <1>5 DEF OneSubEach
  <2> QED
    BY <1>1, <1>2, <1>3, <1>5, <2>1 DEF OneSubEach
<1> QED
  BY <1>4, <1>5 DEF rest
(***************************************************************************)
(* The messages of each kind after a message was appended, or taken.       *)
(***************************************************************************)
LEMMA QueueGrows ==
  ASSUME CInv, NEW m \in ToUpstream \cup {Close}, c2p' = Append(c2p, m)
  PROVE  /\ m.type = "subscribe" =>
              /\ QueuedSubscribes' = QueuedSubscribes \cup {m}
              /\ QueuedUnsubscribes' = QueuedUnsubscribes
              /\ QueuedIds' = QueuedIds \cup {m.id}
         /\ m.type = "unsubscribe" =>
              /\ QueuedSubscribes' = QueuedSubscribes
              /\ QueuedUnsubscribes' = QueuedUnsubscribes \cup {m}
              /\ QueuedIds' = QueuedIds \cup {m.id}
         /\ m.type = "close" =>
              /\ QueuedSubscribes' = QueuedSubscribes
              /\ QueuedUnsubscribes' = QueuedUnsubscribes
              /\ QueuedIds' = QueuedIds
              /\ OneIdEach(c2p) => OneIdEach(c2p')
         /\ m.type # "close" /\ m.id \notin QueuedIds /\ OneIdEach(c2p) => OneIdEach(c2p')
<1>1. c2p \in Seq(ToUpstream \cup {Close})
  BY DEF CInv, ChannelsOK
<1>2. ToSet(c2p') = ToSet(c2p) \cup {m}
  BY <1>1, AppendedSet
<1>3. /\ QueuedSubscribes' = {x \in ToSet(c2p') : x.type = "subscribe"}
      /\ QueuedUnsubscribes' = {x \in ToSet(c2p') : x.type = "unsubscribe"}
      /\ QueuedIds' = {x.id : x \in QueuedSubscribes' \cup QueuedUnsubscribes'}
  BY DEF QueuedSubscribes, QueuedUnsubscribes, QueuedIds
<1>4. \A x \in ToSet(c2p) : x.type \in Requests => x.id \in QueuedIds
  <2>1. \A x \in ToSet(c2p) : x \in ToUpstream \cup {Close}
    BY <1>1 DEF ToSet
  <2> QED
    BY <2>1, ClientMessages DEF Requests, QueuedIds, QueuedSubscribes, QueuedUnsubscribes
<1>5. m.type # "close" /\ m.id \notin QueuedIds /\ OneIdEach(c2p) => OneIdEach(c2p')
  BY <1>1, <1>4, AppendOneEach
<1>6. m.type = "close" /\ OneIdEach(c2p) => OneIdEach(c2p')
  BY <1>1, AppendOneEach DEF Requests
<1> QED
  BY <1>2, <1>3, <1>5, <1>6 DEF QueuedSubscribes, QueuedUnsubscribes, QueuedIds

LEMMA QueueShrinks ==
  ASSUME CInv, OneIdEach(c2p), c2p # <<>>, c2p' = Tail(c2p)
  PROVE  LET m == Head(c2p)
         IN  /\ m \in ToUpstream \cup {Close}
             /\ OneIdEach(c2p')
             /\ m.type = "subscribe" =>
                  /\ QueuedSubscribes = QueuedSubscribes' \cup {m}
                  /\ QueuedUnsubscribes' = QueuedUnsubscribes
                  /\ QueuedIds = QueuedIds' \cup {m.id}
                  /\ m.id \notin QueuedIds'
             /\ m.type = "unsubscribe" =>
                  /\ QueuedSubscribes' = QueuedSubscribes
                  /\ QueuedUnsubscribes = QueuedUnsubscribes' \cup {m}
                  /\ QueuedIds = QueuedIds' \cup {m.id}
                  /\ m.id \notin QueuedIds'
             /\ m.type = "close" =>
                  /\ QueuedSubscribes' = QueuedSubscribes
                  /\ QueuedUnsubscribes' = QueuedUnsubscribes
                  /\ QueuedIds' = QueuedIds
<1> DEFINE m == Head(c2p)
<1>1. c2p \in Seq(ToUpstream \cup {Close})
  BY DEF CInv, ChannelsOK
<1>2. m \in ToUpstream \cup {Close}
  BY <1>1, HeadTailProperties
<1>3. ToSet(c2p) = ToSet(c2p') \cup {m}
  BY <1>1, TailSet
<1>4. /\ OneIdEach(c2p')
      /\ m.type \in Requests =>
           \A x \in ToSet(c2p') : x.type \in Requests => x.id # m.id
  BY <1>1, TailOneEach
<1> HIDE DEF m
<1>5. /\ QueuedSubscribes' = {x \in ToSet(c2p') : x.type = "subscribe"}
      /\ QueuedUnsubscribes' = {x \in ToSet(c2p') : x.type = "unsubscribe"}
      /\ QueuedIds' = {x.id : x \in QueuedSubscribes' \cup QueuedUnsubscribes'}
  BY DEF QueuedSubscribes, QueuedUnsubscribes, QueuedIds
<1>6. m.type \in {"subscribe", "unsubscribe"} => m.id \notin QueuedIds'
  BY <1>4, <1>5 DEF Requests
<1> QED
  BY <1>2, <1>3, <1>4, <1>5, <1>6 DEF QueuedSubscribes, QueuedUnsubscribes, QueuedIds, m

LEMMA NodeQueueGrows ==
  ASSUME CInv, NEW m \in ToUpstream, up'.in = Append(up.in, m)
  PROVE  /\ m.type = "subscribe" =>
              /\ ForwardedSubscribes' = ForwardedSubscribes \cup {m}
              /\ ForwardedUnsubscribes' = ForwardedUnsubscribes
              /\ ForwardedIds' = ForwardedIds \cup {m.id}
         /\ m.type = "unsubscribe" =>
              /\ ForwardedSubscribes' = ForwardedSubscribes
              /\ ForwardedUnsubscribes' = ForwardedUnsubscribes \cup {m}
              /\ ForwardedIds' = ForwardedIds \cup {m.id}
         /\ m.id \notin ForwardedIds /\ OneIdEach(up.in) => OneIdEach(up.in)'
<1>1. up.in \in Seq(ToUpstream)
  BY DEF CInv, ChannelsOK, UpstreamType
<1>2. ToSet(up'.in) = ToSet(up.in) \cup {m}
  BY <1>1, AppendedSet
<1>3. /\ ForwardedSubscribes' = {x \in ToSet(up'.in) : x.type = "subscribe"}
      /\ ForwardedUnsubscribes' = {x \in ToSet(up'.in) : x.type = "unsubscribe"}
      /\ ForwardedIds' = {x.id : x \in ForwardedSubscribes' \cup ForwardedUnsubscribes'}
  BY DEF ForwardedSubscribes, ForwardedUnsubscribes, ForwardedIds
<1>4. \A x \in ToSet(up.in) : x.type \in Requests => x.id \in ForwardedIds
  <2>1. \A x \in ToSet(up.in) : x \in ToUpstream \cup {Close}
    BY <1>1 DEF ToSet
  <2> QED
    BY <2>1, ClientMessages DEF Requests, ForwardedIds, ForwardedSubscribes,
                                ForwardedUnsubscribes
<1>5. m.id \notin ForwardedIds /\ OneIdEach(up.in) => OneIdEach(up.in)'
  BY <1>1, <1>4, AppendOneEach
<1> QED
  BY <1>2, <1>3, <1>5 DEF ForwardedSubscribes, ForwardedUnsubscribes, ForwardedIds

LEMMA NodeQueueShrinks ==
  ASSUME CInv, OneIdEach(up.in), up.in # <<>>, up'.in = Tail(up.in)
  PROVE  LET m == Head(up.in)
         IN  /\ m \in ToUpstream
             /\ OneIdEach(up.in)'
             /\ m.id \notin ForwardedIds'
             /\ ForwardedIds = ForwardedIds' \cup {m.id}
             /\ m.type = "subscribe" =>
                  /\ ForwardedSubscribes = ForwardedSubscribes' \cup {m}
                  /\ ForwardedUnsubscribes' = ForwardedUnsubscribes
             /\ m.type = "unsubscribe" =>
                  /\ ForwardedSubscribes' = ForwardedSubscribes
                  /\ ForwardedUnsubscribes = ForwardedUnsubscribes' \cup {m}
<1> DEFINE m == Head(up.in)
<1>1. up.in \in Seq(ToUpstream)
  BY DEF CInv, ChannelsOK, UpstreamType
<1>2. m \in ToUpstream
  BY <1>1, HeadTailProperties
<1>3. m.type = "subscribe" \/ m.type = "unsubscribe"
  BY <1>2 DEF ToUpstream, Subscribe, Unsubscribe
<1>4. ToSet(up.in) = ToSet(up'.in) \cup {m}
  BY <1>1, TailSet
<1>5. /\ OneIdEach(up.in)'
      /\ m.type \in Requests =>
           \A x \in ToSet(up'.in) : x.type \in Requests => x.id # m.id
  BY <1>1, TailOneEach
<1> HIDE DEF m
<1>6. /\ ForwardedSubscribes' = {x \in ToSet(up'.in) : x.type = "subscribe"}
      /\ ForwardedUnsubscribes' = {x \in ToSet(up'.in) : x.type = "unsubscribe"}
      /\ ForwardedIds' = {x.id : x \in ForwardedSubscribes' \cup ForwardedUnsubscribes'}
  BY DEF ForwardedSubscribes, ForwardedUnsubscribes, ForwardedIds
<1>7. m.id \notin ForwardedIds'
  BY <1>3, <1>5, <1>6 DEF Requests
<1> QED
  BY <1>2, <1>3, <1>4, <1>5, <1>6, <1>7
     DEF ForwardedSubscribes, ForwardedUnsubscribes, ForwardedIds, m

LEMMA AnswersGrow ==
  ASSUME CInv, NEW m \in ToClient, up'.out = Append(up.out, m)
  PROVE  /\ m.type = "response" =>
              /\ Responses' = Responses \cup {m}
              /\ Events' = Events
              /\ AnsweredIds' = AnsweredIds \cup {m.id}
              /\ m.sub # NoSub => Accepted' = Accepted \cup {m}
              /\ m.sub = NoSub => Accepted' = Accepted
              /\ m.id \notin AnsweredIds /\ OneIdEach(up.out) => OneIdEach(up.out)'
              /\ m.sub \notin AcceptedSubs /\ OneSubEach(up.out) => OneSubEach(up.out)'
         /\ m.type # "response" =>
              /\ Responses' = Responses
              /\ AnsweredIds' = AnsweredIds
              /\ Accepted' = Accepted
              /\ OneIdEach(up.out) => OneIdEach(up.out)'
              /\ OneSubEach(up.out) => OneSubEach(up.out)'
         /\ m.type = "notification" => Events' = Events \cup {m}
         /\ m.type = "close" => Events' = Events
<1>1. up.out \in Seq(ToClient)
  BY DEF CInv, ChannelsOK, UpstreamType
<1>2. ToSet(up'.out) = ToSet(up.out) \cup {m}
  BY <1>1, AppendedSet
<1>3. /\ Responses' = {x \in ToSet(up'.out) : x.type = "response"}
      /\ Events' = {x \in ToSet(up'.out) : x.type = "notification"}
      /\ AnsweredIds' = {x.id : x \in Responses'}
      /\ Accepted' = {x \in Responses' : x.sub # NoSub}
  BY DEF Responses, Events, AnsweredIds, Accepted
<1>4. \A x \in ToSet(up.out) : x.type \in Requests => x.type = "response"
  <2>1. \A x \in ToSet(up.out) : x \in ToClient
    BY <1>1 DEF ToSet
  <2> QED
    BY <2>1 DEF Requests, ToClient, Response, Notification, Close
<1>5. m.type \in Requests => m.type = "response"
  BY DEF Requests, ToClient, Response, Notification, Close
<1>6. \A x \in ToSet(up.out) :
        x.type = "response" => x.id \in AnsweredIds /\ (x.sub # NoSub => x.sub \in AcceptedSubs)
  BY DEF AnsweredIds, Responses, AcceptedSubs, Accepted
<1>7. /\ /\ m.type = "response" => m.id \notin AnsweredIds
         /\ OneIdEach(up.out)
         => OneIdEach(up.out)'
      /\ /\ m.type = "response" => m.sub \notin AcceptedSubs
         /\ OneSubEach(up.out)
         => OneSubEach(up.out)'
  BY <1>1, <1>4, <1>5, <1>6, AppendOneEach
<1> QED
  BY <1>2, <1>3, <1>7 DEF Responses, Events, AnsweredIds, Accepted

LEMMA AnswersShrink ==
  ASSUME CInv, OneIdEach(up.out), OneSubEach(up.out),
         up.out # <<>>, up'.out = Tail(up.out)
  PROVE  LET m == Head(up.out)
         IN  /\ m \in ToClient
             /\ OneIdEach(up.out)' /\ OneSubEach(up.out)'
             /\ Responses' \subseteq Responses
             /\ Events' \subseteq Events
             /\ m.type = "response" =>
                  /\ m \in Responses
                  /\ Responses = Responses' \cup {m}
                  /\ AnsweredIds = AnsweredIds' \cup {m.id}
                  /\ m.id \notin AnsweredIds'
                  /\ m.sub # NoSub =>
                       /\ Accepted = Accepted' \cup {m}
                       /\ m.sub \notin AcceptedSubs'
                  /\ m.sub = NoSub => Accepted' = Accepted
             /\ m.type # "response" =>
                  /\ Responses' = Responses
                  /\ AnsweredIds' = AnsweredIds
                  /\ Accepted' = Accepted
             /\ m.type = "notification" => m \in Events
<1> DEFINE m == Head(up.out)
<1>1. up.out \in Seq(ToClient)
  BY DEF CInv, ChannelsOK, UpstreamType
<1>2. m \in ToClient
  BY <1>1, HeadTailProperties
<1>3. ToSet(up.out) = ToSet(up'.out) \cup {m}
  BY <1>1, TailSet
<1>4. /\ OneIdEach(up.out)' /\ OneSubEach(up.out)'
      /\ m.type \in Requests =>
           \A x \in ToSet(up'.out) : x.type \in Requests => x.id # m.id
      /\ m.type = "response" /\ m.sub # NoSub =>
           \A x \in ToSet(up'.out) : x.type = "response" /\ x.sub # NoSub => x.sub # m.sub
  BY <1>1, TailOneEach
<1> HIDE DEF m
<1>5. /\ Responses' = {x \in ToSet(up'.out) : x.type = "response"}
      /\ Events' = {x \in ToSet(up'.out) : x.type = "notification"}
      /\ AnsweredIds' = {x.id : x \in Responses'}
      /\ Accepted' = {x \in Responses' : x.sub # NoSub}
      /\ AcceptedSubs' = {x.sub : x \in Accepted'}
  BY DEF Responses, Events, AnsweredIds, Accepted, AcceptedSubs
<1>6. m.type = "response" => m.id \notin AnsweredIds'
  BY <1>4, <1>5 DEF Requests
<1>7. m.type = "response" /\ m.sub # NoSub => m.sub \notin AcceptedSubs'
  BY <1>4, <1>5
<1> QED
  BY <1>2, <1>3, <1>4, <1>5, <1>6, <1>7 DEF Responses, Events, AnsweredIds, Accepted, m

(***************************************************************************)
(* A replay contains each tracked request, and nothing else, once.         *)
(***************************************************************************)
LEMMA ReplayedOnce ==
  ASSUME tracker \in FiniteTracker, NEW replays \in Replays,
         \A r, t \in tracker.subscriptions : r.rpc_id = t.rpc_id => r = t
  PROVE  /\ ToSet(replays) = {Subscribe(r.rpc_id, r.params) : r \in tracker.subscriptions}
         /\ OneIdEach(replays)
<1> DEFINE T == tracker.subscriptions
           D == 1 .. Cardinality(T)
<1>1. IsFiniteSet(T) /\ Cardinality(T) \in Nat
  BY ReplayOf
<1>2. PICK s \in [D -> T] :
        /\ \A i, j \in D : i # j => s[i] # s[j]
        /\ replays = [i \in D |-> Subscribe(s[i].rpc_id, s[i].params)]
  BY ReplayOf
<1>3. \A i \in D : /\ s[i] \in T
                   /\ replays[i] = Subscribe(s[i].rpc_id, s[i].params)
                   /\ replays[i].id = s[i].rpc_id
  BY <1>2 DEF Subscribe
<1>4. Len(replays) = Cardinality(T) /\ DOMAIN replays = D
  BY <1>1, <1>2
<1>5. \A r \in T : \E i \in D : s[i] = r
  <2> HIDE DEF T
  <2>1. IsFiniteSet(D) /\ Cardinality(D) = Cardinality(T)
    BY <1>1, FS_Interval
  <2>2. s \in Injection(D, T)
    BY <1>2 DEF Injection, IsInjective
  <2>3. s \in Surjection(D, T)
    BY <1>1, <2>1, <2>2, FS_Injection
  <2> QED
    BY <2>3 DEF Surjection
<1>6. \A i, j \in D : s[i].rpc_id = s[j].rpc_id => i = j
  BY <1>2, <1>3
<1>7. OneIdEach(replays)
  BY <1>3, <1>4, <1>6 DEF OneIdEach
<1>8. ToSet(replays) = {Subscribe(r.rpc_id, r.params) : r \in T}
  <2> HIDE DEF T, D
  <2> QED
    BY <1>3, <1>4, <1>5 DEF ToSet
<1> QED
  BY <1>7, <1>8

(***************************************************************************)
(* A channel that is left alone.                                           *)
(***************************************************************************)
LEMMA QueueSame ==
  ASSUME c2p' = c2p
  PROVE  /\ QueuedSubscribes' = QueuedSubscribes
         /\ QueuedUnsubscribes' = QueuedUnsubscribes
         /\ QueuedIds' = QueuedIds
         /\ OneIdEach(c2p) => OneIdEach(c2p')
BY DEF QueuedSubscribes, QueuedUnsubscribes, QueuedIds

LEMMA NodeQueueSame ==
  ASSUME up'.in = up.in
  PROVE  /\ ForwardedSubscribes' = ForwardedSubscribes
         /\ ForwardedUnsubscribes' = ForwardedUnsubscribes
         /\ ForwardedIds' = ForwardedIds
         /\ OneIdEach(up.in) => OneIdEach(up.in)'
BY DEF ForwardedSubscribes, ForwardedUnsubscribes, ForwardedIds

LEMMA AnswersSame ==
  ASSUME up'.out = up.out
  PROVE  /\ Responses' = Responses
         /\ Events' = Events
         /\ AnsweredIds' = AnsweredIds
         /\ Accepted' = Accepted
         /\ OneIdEach(up.out) => OneIdEach(up.out)'
         /\ OneSubEach(up.out) => OneSubEach(up.out)'
BY DEF Responses, Events, AnsweredIds, Accepted

(***************************************************************************)
(* A step that leaves alone what is asked, pending, tracked, live and on   *)
(* its way, or loses an event, preserves the invariant.                    *)
(***************************************************************************)
SameRequests ==
  /\ UNCHANGED <<pending_subscribes, used>>
  /\ tracker'.subscriptions = tracker.subscriptions
  /\ tracker'.upstream_to_client_id \subseteq tracker.upstream_to_client_id
  /\ client' \in ClientType
  /\ client'.sent = client.sent
  /\ client'.asked = client.asked
  /\ client'.known = client.known
  /\ client'.state = "up" => client.state = "up"
  /\ up'.subs = up.subs
  /\ up'.rejected = up.rejected
  /\ stage' \in {"new", "initial"} => stage \in {"new", "initial"}

SameMessages ==
  /\ QueuedSubscribes' = QueuedSubscribes
  /\ QueuedUnsubscribes' = QueuedUnsubscribes
  /\ QueuedIds' = QueuedIds
  /\ ForwardedSubscribes' = ForwardedSubscribes
  /\ ForwardedUnsubscribes' = ForwardedUnsubscribes
  /\ ForwardedIds' = ForwardedIds
  /\ AnsweredIds' = AnsweredIds
  /\ Accepted' = Accepted
  /\ Events' \subseteq Events
  /\ OneIdEach(c2p)' /\ OneIdEach(up.in)' /\ OneIdEach(up.out)' /\ OneSubEach(up.out)'

LEMMA Unaffected ==
  ASSUME SessionInv, SameRequests, SameMessages
  PROVE  SessionInv'
<1>1. /\ PendingIds' = PendingIds /\ AskedIds' = AskedIds
      /\ TrackedIds' = TrackedIds /\ LiveIds' = LiveIds
  BY DEF SameRequests, PendingIds, AskedIds, TrackedIds, LiveIds
<1>2. /\ KnownSubs' = KnownSubs /\ LeavingSubs' = LeavingSubs
      /\ RemovedSubs' = RemovedSubs /\ TrackedSubs' = TrackedSubs
      /\ AcceptedSubs' = AcceptedSubs /\ LiveSubs' = LiveSubs
      /\ EventSubs' \subseteq EventSubs
  BY DEF SameRequests, SameMessages, KnownSubs, LeavingSubs, RemovedSubs, TrackedSubs,
         AcceptedSubs, LiveSubs, EventSubs
<1> USE <1>1, <1>2 DEF SessionInv, SameRequests, SameMessages
<1>3. Numbered'
  BY DEF Numbered
<1>4. OneMessageEach'
  BY DEF OneMessageEach
<1>5. OneEntryEach'
  BY DEF OneEntryEach
<1>6. RequestsAgree'
  BY DEF RequestsAgree, PendingFor
<1>7. IdsAreFresh'
  BY DEF IdsAreFresh
<1>8. SubscriptionsCarried'
  BY DEF SubscriptionsCarried, HeldByNode
<1>9. KindsAgree'
  BY DEF KindsAgree
<1>10. TrackerMatches'
  BY DEF TrackerMatches
<1> QED
  BY <1>3, <1>4, <1>5, <1>6, <1>7, <1>8, <1>9, <1>10

LEMMA SessionInit == CInit => SessionInv
<1> SUFFICES ASSUME CInit PROVE SessionInv
  OBVIOUS
<1>1. /\ c2p = <<>> /\ up.in = <<>> /\ up.out = <<>> /\ up.subs = {}
      /\ tracker.subscriptions = {} /\ tracker.upstream_to_client_id = {}
      /\ pending_subscribes = {} /\ client = NewClient /\ used = {}
  BY DEF CInit, Upstream, NewTracker
<1>2. ToSet(c2p) = {} /\ ToSet(up.in) = {} /\ ToSet(up.out) = {}
  BY <1>1 DEF ToSet
<1>3. /\ QueuedSubscribes = {} /\ QueuedUnsubscribes = {} /\ QueuedIds = {}
      /\ ForwardedSubscribes = {} /\ ForwardedUnsubscribes = {} /\ ForwardedIds = {}
      /\ Responses = {} /\ Events = {} /\ AnsweredIds = {} /\ Accepted = {}
  BY <1>2 DEF QueuedSubscribes, QueuedUnsubscribes, QueuedIds, ForwardedSubscribes,
     ForwardedUnsubscribes, ForwardedIds, Responses, Events, AnsweredIds, Accepted
<1>4. OneIdEach(c2p) /\ OneIdEach(up.in) /\ OneIdEach(up.out) /\ OneSubEach(up.out)
  BY <1>1 DEF OneIdEach, OneSubEach
<1>5. /\ PendingIds = {} /\ AskedIds = {} /\ TrackedIds = {} /\ LiveIds = {}
      /\ KnownSubs = {} /\ LeavingSubs = {} /\ RemovedSubs = {} /\ TrackedSubs = {}
      /\ AcceptedSubs = {} /\ LiveSubs = {} /\ EventSubs = {}
  BY <1>1, <1>3 DEF NewClient, PendingIds, AskedIds, TrackedIds, LiveIds, KnownSubs,
     LeavingSubs, RemovedSubs, TrackedSubs, AcceptedSubs, LiveSubs, EventSubs
<1>6. Numbered
  BY <1>1, <1>3, <1>5 DEF Numbered, NewClient, ClientType
<1>7. OneMessageEach /\ OneEntryEach /\ IdsAreFresh
  BY <1>1, <1>3, <1>4, <1>5 DEF OneMessageEach, OneEntryEach, IdsAreFresh, NewClient
<1>8. RequestsAgree /\ SubscriptionsCarried /\ KindsAgree /\ TrackerMatches
  BY <1>1, <1>3, <1>5 DEF RequestsAgree, SubscriptionsCarried, KindsAgree, TrackerMatches,
     NewClient
<1> QED
  BY <1>6, <1>7, <1>8 DEF SessionInv

-----------------------------------------------------------------------------
(***************************************************************************)
(* The client asks.                                                        *)
(***************************************************************************)
LEMMA IdTypes ==
  ASSUME CInv, client \in ClientType
  PROVE  QueuedIds \cup ForwardedIds \cup AnsweredIds \cup PendingIds \cup AskedIds
           \cup TrackedIds \cup LiveIds \subseteq RpcId
<1>1. /\ up.in \in Seq(ToUpstream) /\ up.out \in Seq(ToClient)
      /\ c2p \in Seq(ToUpstream \cup {Close})
      /\ up.subs \subseteq [sub : SubId, id : RpcId, params : Params]
  BY DEF CInv, ChannelsOK, UpstreamType
<1>2. QueuedIds \subseteq RpcId
  <2>1. \A m \in ToSet(c2p) : m \in ToUpstream \cup {Close}
    BY <1>1 DEF ToSet
  <2> QED
    BY <2>1, ClientMessages DEF QueuedIds, QueuedSubscribes, QueuedUnsubscribes
<1>3. ForwardedIds \subseteq RpcId
  <2>1. \A m \in ToSet(up.in) : m \in ToUpstream \cup {Close}
    BY <1>1 DEF ToSet
  <2> QED
    BY <2>1, ClientMessages DEF ForwardedIds, ForwardedSubscribes, ForwardedUnsubscribes
<1>4. AnsweredIds \subseteq RpcId
  <2>1. \A m \in ToSet(up.out) : m \in ToClient
    BY <1>1 DEF ToSet
  <2> QED
    BY <2>1, NodeMessages DEF AnsweredIds, Responses
<1>5. PendingIds \subseteq RpcId
  BY DEF CInv, TrackingOK, Pending, PendingIds
<1>6. AskedIds \subseteq RpcId
  BY DEF ClientType, AskedIds
<1>7. TrackedIds \subseteq RpcId
  BY DEF CInv, TrackingOK, FiniteTracker, Tracker, SubscribeRequest, TrackedIds
<1>8. LiveIds \subseteq RpcId
  BY <1>1 DEF LiveIds
<1> QED
  BY <1>2, <1>3, <1>4, <1>5, <1>6, <1>7, <1>8

LEMMA AskingType ==
  ASSUME client \in ClientType, NEW id \in RpcId, NEW params \in Params \cup {NoParams},
         NEW known \in SUBSET client.known, NEW msg, Asks(id, params, known, msg)
  PROVE  /\ client' \in ClientType
         /\ client.state = "up" /\ client'.state = "up"
         /\ client'.sent = client.sent + 1
         /\ client'.known = known
         /\ client'.asked = InsertPending(client.asked, id, params)
<1> DEFINE asked == InsertPending(client.asked, id, params)
<1>1. /\ client' = [client EXCEPT !.sent = @ + 1, !.known = known, !.asked = asked]
      /\ client.state = "up"
  BY DEF Asks, ClientStep
<1>2. asked \in SUBSET [rpc_id : RpcId, params : Params \cup {NoParams}]
  BY DEF ClientType, InsertPending
<1>3. known \in SUBSET [sub : SubId, params : Params] /\ client.sent + 1 \in Nat
  BY DEF ClientType
<1> HIDE DEF asked
<1>4. client' = [state |-> "up", sent |-> client.sent + 1, asked |-> asked, known |-> known]
  BY <1>1 DEF ClientType
<1> QED
  BY <1>1, <1>2, <1>3, <1>4 DEF ClientType, asked

LEMMA Asking ==
  ASSUME CInv, SessionInv, ~ReuseIds,
         NEW id \in RpcId, NEW params \in Params \cup {NoParams},
         NEW known \in SUBSET client.known, NEW msg \in ToUpstream,
         Asks(id, params, known, msg)
  PROVE  /\ id \notin QueuedIds \cup ForwardedIds \cup AnsweredIds \cup PendingIds
                        \cup AskedIds \cup TrackedIds \cup LiveIds
         /\ client' \in ClientType
         /\ client.state = "up"
         /\ client'.asked = client.asked \cup {[rpc_id |-> id, params |-> params]}
         /\ client'.known = known
         /\ client'.sent = id
         /\ \A i \in QueuedIds \cup ForwardedIds \cup AnsweredIds \cup PendingIds
                       \cup AskedIds \cup TrackedIds \cup LiveIds : i <= client'.sent
         /\ AskedIds' = AskedIds \cup {id}
         /\ c2p' = Append(c2p, msg)
         /\ UNCHANGED <<loop_vars, reconnect, up, used>>
<1> DEFINE Ids == QueuedIds \cup ForwardedIds \cup AnsweredIds \cup PendingIds
                    \cup AskedIds \cup TrackedIds \cup LiveIds
<1>1. /\ client \in ClientType
      /\ \A i \in Ids : i <= client.sent
  BY DEF SessionInv, Numbered
<1>2. Ids \subseteq Nat
  BY <1>1, IdTypes, WsAssumption
<1>3. /\ client' \in ClientType /\ client.state = "up" /\ client'.known = known
      /\ client'.sent = client.sent + 1
      /\ client'.asked = InsertPending(client.asked, id, params)
  BY <1>1, AskingType
<1>4. /\ UNCHANGED <<loop_vars, reconnect, up, used>>
      /\ c2p' = c2p \o <<msg>>
      /\ id = client.sent + 1
  BY DEF Asks, ClientStep, FreeIds
<1>5. client.sent \in Nat
  BY <1>1 DEF ClientType
<1> HIDE DEF Ids
<1>6. id \notin Ids /\ \A i \in Ids : i <= id
  <2>1. id = client.sent + 1
    BY <1>4
  <2> QED
    BY <1>1, <1>2, <1>5, <2>1
<1>7. PendingFor(client.asked, id) = {}
  BY <1>6 DEF Ids, AskedIds, PendingFor
<1>8. client'.asked = client.asked \cup {[rpc_id |-> id, params |-> params]}
  BY <1>3, <1>7 DEF InsertPending
<1>9. AskedIds' = AskedIds \cup {id}
  <2> DEFINE a == [rpc_id |-> id, params |-> params]
  <2>1. client'.asked = client.asked \cup {a} /\ a.rpc_id = id
    BY <1>8
  <2> HIDE DEF a
  <2> QED
    BY <2>1 DEF AskedIds
<1>10. c2p \in Seq(ToUpstream \cup {Close})
  BY DEF CInv, ChannelsOK
<1>11. c2p' = Append(c2p, msg)
  BY <1>4, <1>10, AppendIsConcat
<1> QED
  BY <1>3, <1>4, <1>6, <1>8, <1>9, <1>11 DEF Ids

(***************************************************************************)
(* What the loop and the node remember, if they do nothing.                *)
(***************************************************************************)
LEMMA LoopSame ==
  ASSUME UNCHANGED <<tracker, pending_subscribes>>
  PROVE  PendingIds' = PendingIds /\ TrackedIds' = TrackedIds /\ TrackedSubs' = TrackedSubs
BY DEF PendingIds, TrackedIds, TrackedSubs

LEMMA NodeSame ==
  ASSUME UNCHANGED up
  PROVE  /\ ForwardedSubscribes' = ForwardedSubscribes
         /\ ForwardedUnsubscribes' = ForwardedUnsubscribes
         /\ ForwardedIds' = ForwardedIds
         /\ Responses' = Responses
         /\ Events' = Events
         /\ AnsweredIds' = AnsweredIds
         /\ Accepted' = Accepted
         /\ AcceptedSubs' = AcceptedSubs
         /\ LiveIds' = LiveIds /\ LiveSubs' = LiveSubs
         /\ RemovedSubs' = RemovedSubs /\ EventSubs' = EventSubs
         /\ OneIdEach(up.in)' = OneIdEach(up.in)
         /\ OneIdEach(up.out)' = OneIdEach(up.out)
         /\ OneSubEach(up.out)' = OneSubEach(up.out)
BY DEF ForwardedSubscribes, ForwardedUnsubscribes, ForwardedIds, Responses, Events,
       AnsweredIds, Accepted, AcceptedSubs, LiveIds, LiveSubs, RemovedSubs, EventSubs

LEMMA SubscribingKept ==
  ASSUME CInv, SessionInv, ~ReuseIds, NEW id \in RpcId, NEW p \in Params,
         ClientSubscribes(id, p)
  PROVE  SessionInv'
<1> DEFINE m == Subscribe(id, p)
           a == [rpc_id |-> id, params |-> p]
<1>1. /\ m \in ToUpstream /\ m.type = "subscribe" /\ m.id = id /\ m.params = p
      /\ a.rpc_id = id /\ a = [rpc_id |-> m.id, params |-> m.params]
  BY DEF Subscribe, ToUpstream
<1>2. Asks(id, p, client.known, m)
  BY DEF ClientSubscribes
<1>3. /\ id \notin QueuedIds \cup ForwardedIds \cup AnsweredIds \cup PendingIds
                     \cup AskedIds \cup TrackedIds \cup LiveIds
      /\ client' \in ClientType
      /\ client.state = "up"
      /\ client'.asked = client.asked \cup {a}
      /\ client'.known = client.known
      /\ client'.sent = id
      /\ \A i \in QueuedIds \cup ForwardedIds \cup AnsweredIds \cup PendingIds
                    \cup AskedIds \cup TrackedIds \cup LiveIds : i <= client'.sent
      /\ AskedIds' = AskedIds \cup {id}
      /\ c2p' = Append(c2p, m)
      /\ UNCHANGED <<tracker, pending_subscribes, stage, up, used>>
  BY <1>1, <1>2, Asking DEF loop_vars
<1> HIDE DEF m, a
<1>4. /\ QueuedSubscribes' = QueuedSubscribes \cup {m}
      /\ QueuedUnsubscribes' = QueuedUnsubscribes
      /\ QueuedIds' = QueuedIds \cup {id}
      /\ OneIdEach(c2p) => OneIdEach(c2p')
  BY <1>1, <1>3, QueueGrows
<1>5. KnownSubs' = KnownSubs /\ LeavingSubs' = LeavingSubs
  BY <1>3, <1>4 DEF KnownSubs, LeavingSubs
<1>6. \A i \in AskedIds' : i # id => i \in AskedIds
  BY <1>3
<1>7. \A b \in client.asked : b.rpc_id \in AskedIds
  BY DEF AskedIds
<1>8. \A x \in ForwardedSubscribes \cup Accepted : x.id # id
  BY <1>3 DEF ForwardedIds, AnsweredIds, Accepted
<1> USE LoopSame, NodeSame DEF SessionInv
<1>9. Numbered'
  <2>1. id <= client'.sent
    BY <1>3, WsAssumption
  <2> QED
    BY <1>3, <1>4, <2>1 DEF Numbered
<1>10. OneMessageEach'
  BY <1>3, <1>4 DEF OneMessageEach
<1>11. OneEntryEach'
  BY <1>1, <1>3, <1>4, <1>7 DEF OneEntryEach
<1>12. RequestsAgree'
  <2>1. \A x \in QueuedSubscribes' : [rpc_id |-> x.id, params |-> x.params] \in client'.asked
    BY <1>1, <1>3, <1>4 DEF RequestsAgree
  <2>2. TrackedIds \cap AskedIds' = {}
    BY <1>3 DEF RequestsAgree
  <2>3. \A x \in ForwardedSubscribes \cup Accepted :
          PendingFor(client'.asked, x.id) = PendingFor(client.asked, x.id)
    BY <1>1, <1>3, <1>8 DEF PendingFor
  <2>4. \A x \in ForwardedSubscribes \cup Accepted :
          PendingFor(pending_subscribes, x.id) = PendingFor(client'.asked, x.id)
    BY <1>3, <2>3 DEF RequestsAgree
  <2>5. /\ ForwardedSubscribes' = ForwardedSubscribes /\ Accepted' = Accepted
        /\ TrackedIds' = TrackedIds /\ pending_subscribes' = pending_subscribes
        /\ up' = up
    BY <1>3
  <2> QED
    BY <2>1, <2>2, <2>4, <2>5 DEF RequestsAgree
<1>13. IdsAreFresh'
  BY <1>3, <1>5 DEF IdsAreFresh
<1>14. SubscriptionsCarried'
  BY <1>3, <1>5 DEF SubscriptionsCarried, HeldByNode
<1>15. KindsAgree'
  BY <1>3 DEF KindsAgree
<1>16. TrackerMatches'
  BY <1>3, <1>5 DEF TrackerMatches
<1> QED
  BY <1>9, <1>10, <1>11, <1>12, <1>13, <1>14, <1>15, <1>16

LEMMA UnsubscribingKept ==
  ASSUME CInv, SessionInv, ~ReuseIds, NEW id \in RpcId, NEW s \in SubId,
         ClientUnsubscribes(id, s)
  PROVE  SessionInv'
<1> DEFINE m == Unsubscribe(id, s)
           a == [rpc_id |-> id, params |-> NoParams]
           rest == {k \in client.known : k.sub # s}
<1>1. /\ m \in ToUpstream /\ m.type = "unsubscribe" /\ m.id = id /\ m.sub = s
      /\ a.rpc_id = id
  BY DEF Unsubscribe, ToUpstream
<1>2. Asks(id, NoParams, rest, m) /\ s \in KnownSubs
  BY DEF ClientUnsubscribes, KnownSubs
<1>3. /\ id \notin QueuedIds \cup ForwardedIds \cup AnsweredIds \cup PendingIds
                     \cup AskedIds \cup TrackedIds \cup LiveIds
      /\ client' \in ClientType
      /\ client.state = "up"
      /\ client'.asked = client.asked \cup {a}
      /\ client'.known = rest
      /\ client'.sent = id
      /\ \A i \in QueuedIds \cup ForwardedIds \cup AnsweredIds \cup PendingIds
                    \cup AskedIds \cup TrackedIds \cup LiveIds : i <= client'.sent
      /\ AskedIds' = AskedIds \cup {id}
      /\ c2p' = Append(c2p, m)
      /\ UNCHANGED <<tracker, pending_subscribes, stage, up, used>>
  BY <1>1, <1>2, Asking DEF loop_vars
<1>4. KnownSubs' = KnownSubs \ {s}
  BY <1>3 DEF KnownSubs
<1> HIDE DEF m, a
<1>5. /\ QueuedSubscribes' = QueuedSubscribes
      /\ QueuedUnsubscribes' = QueuedUnsubscribes \cup {m}
      /\ QueuedIds' = QueuedIds \cup {id}
      /\ OneIdEach(c2p) => OneIdEach(c2p')
  BY <1>1, <1>3, QueueGrows
<1>6. LeavingSubs' = LeavingSubs \cup {s}
  BY <1>1, <1>5 DEF LeavingSubs
<1>7. KnownSubs' \cup LeavingSubs' = KnownSubs \cup LeavingSubs
  BY <1>2, <1>4, <1>6
<1>8. \A b \in client.asked : b.rpc_id \in AskedIds
  BY DEF AskedIds
<1>9. \A x \in ForwardedSubscribes \cup Accepted : x.id # id
  BY <1>3 DEF ForwardedIds, AnsweredIds, Accepted
<1> USE LoopSame, NodeSame DEF SessionInv
<1>10. Numbered'
  <2>1. id <= client'.sent
    BY <1>3, WsAssumption
  <2> QED
    BY <1>3, <1>5, <2>1 DEF Numbered
<1>11. OneMessageEach'
  BY <1>3, <1>5 DEF OneMessageEach
<1>12. OneEntryEach'
  BY <1>1, <1>3, <1>5, <1>8 DEF OneEntryEach
<1>13. RequestsAgree'
  <2>1. \A x \in QueuedSubscribes' : [rpc_id |-> x.id, params |-> x.params] \in client'.asked
    BY <1>3, <1>5 DEF RequestsAgree
  <2>2. TrackedIds \cap AskedIds' = {}
    BY <1>3 DEF RequestsAgree
  <2>3. \A x \in ForwardedSubscribes \cup Accepted :
          PendingFor(client'.asked, x.id) = PendingFor(client.asked, x.id)
    BY <1>1, <1>3, <1>9 DEF PendingFor
  <2>4. \A x \in ForwardedSubscribes \cup Accepted :
          PendingFor(pending_subscribes, x.id) = PendingFor(client'.asked, x.id)
    BY <1>3, <2>3 DEF RequestsAgree
  <2>5. /\ ForwardedSubscribes' = ForwardedSubscribes /\ Accepted' = Accepted
        /\ TrackedIds' = TrackedIds /\ pending_subscribes' = pending_subscribes
        /\ up' = up
    BY <1>3
  <2> QED
    BY <2>1, <2>2, <2>4, <2>5 DEF RequestsAgree
<1>14. IdsAreFresh'
  BY <1>3, <1>7 DEF IdsAreFresh
<1>15. SubscriptionsCarried'
  BY <1>3, <1>7 DEF SubscriptionsCarried, HeldByNode
<1>16. KindsAgree'
  BY <1>3 DEF KindsAgree
<1>17. TrackerMatches'
  <2>1. rest = {k \in {[sub |-> r.client_sub_id, params |-> r.params] :
                  r \in {x \in tracker.subscriptions : x.client_sub_id \notin LeavingSubs}} :
                k.sub # s}
    BY <1>3 DEF TrackerMatches
  <2>2. rest = {[sub |-> r.client_sub_id, params |-> r.params] :
                  r \in {x \in tracker.subscriptions : x.client_sub_id \notin LeavingSubs'}}
    BY <1>6, <2>1
  <2> QED
    BY <1>3, <2>2 DEF TrackerMatches
<1> QED
  BY <1>10, <1>11, <1>12, <1>13, <1>14, <1>15, <1>16, <1>17

(***************************************************************************)
(* The loop takes a request of the client.                                 *)
(***************************************************************************)
LEMMA ForwardSubscribeKept ==
  ASSUME CInv, SessionInv, HandleClientMessage, Head(c2p).type = "subscribe"
  PROVE  SessionInv'
<1> DEFINE m == Head(c2p)
           q == [rpc_id |-> m.id, params |-> m.params]
<1>1. /\ c2p # <<>> /\ c2p' = Tail(c2p)
      /\ pending_subscribes' = InsertPending(pending_subscribes, m.id, m.params)
      /\ Forward(m)
      /\ UNCHANGED <<tracker, stage, client, used>>
  BY DEF HandleClientMessage
<1>2. /\ m \in ToUpstream \cup {Close} /\ m.type = "subscribe" /\ OneIdEach(c2p')
      /\ QueuedSubscribes = QueuedSubscribes' \cup {m}
      /\ QueuedUnsubscribes' = QueuedUnsubscribes
      /\ QueuedIds = QueuedIds' \cup {m.id}
      /\ m.id \notin QueuedIds'
  BY <1>1, QueueShrinks DEF SessionInv, OneMessageEach
<1>3. m \in ToUpstream /\ q.rpc_id = m.id /\ q.params = m.params
  BY <1>2, ClientMessages
<1> HIDE DEF m, q
<1>4. m.id \notin ForwardedIds \cup AnsweredIds \cup PendingIds \cup TrackedIds \cup LiveIds
  BY <1>2 DEF SessionInv, OneMessageEach, OneEntryEach
<1>5. pending_subscribes' = pending_subscribes \cup {q}
  BY <1>1, <1>4 DEF InsertPending, PendingFor, PendingIds, q
<1>6. /\ PendingIds' = PendingIds \cup {m.id}
      /\ TrackedIds' = TrackedIds /\ TrackedSubs' = TrackedSubs
  BY <1>1, <1>3, <1>5 DEF PendingIds, TrackedIds, TrackedSubs
<1>7. /\ up'.in = Append(up.in, m) \/ up'.in = up.in
      /\ up'.out = up.out /\ up'.subs = up.subs /\ up'.rejected = up.rejected
      /\ up'.in # up.in => up.alive
  BY <1>1 DEF Forward, CInv, ChannelsOK, UpstreamType
<1>8. /\ ForwardedSubscribes \subseteq ForwardedSubscribes'
      /\ ForwardedSubscribes' \subseteq ForwardedSubscribes \cup {m}
      /\ ForwardedUnsubscribes' = ForwardedUnsubscribes
      /\ ForwardedIds' \subseteq ForwardedIds \cup {m.id}
      /\ OneIdEach(up.in) => OneIdEach(up.in)'
  BY <1>2, <1>3, <1>4, <1>7, NodeQueueGrows, NodeQueueSame
<1>9. /\ Events' = Events /\ AnsweredIds' = AnsweredIds /\ Accepted' = Accepted
      /\ OneIdEach(up.out) => OneIdEach(up.out)'
      /\ OneSubEach(up.out) => OneSubEach(up.out)'
  BY <1>7, AnswersSame
<1>10. /\ KnownSubs' = KnownSubs /\ AskedIds' = AskedIds
       /\ LeavingSubs' = LeavingSubs /\ RemovedSubs' = RemovedSubs
       /\ LiveIds' = LiveIds /\ LiveSubs' = LiveSubs
       /\ AcceptedSubs' = AcceptedSubs /\ EventSubs' = EventSubs
  BY <1>1, <1>2, <1>7, <1>8, <1>9 DEF KnownSubs, AskedIds, LeavingSubs, RemovedSubs, LiveIds,
     LiveSubs, AcceptedSubs, EventSubs
<1>11. \A p \in pending_subscribes : p.rpc_id \in PendingIds
  BY DEF PendingIds
<1>12. \A x \in Accepted : x.id \in AnsweredIds
  BY DEF Accepted, AnsweredIds
<1>13. \A x \in ForwardedSubscribes : x.id \in ForwardedIds
  BY DEF ForwardedIds
<1>14. q \in client.asked
  BY <1>2 DEF SessionInv, RequestsAgree, q
<1> USE DEF SessionInv
<1>15. Numbered'
  BY <1>1, <1>2, <1>6, <1>8, <1>9, <1>10 DEF Numbered
<1>16. OneMessageEach'
  BY <1>2, <1>4, <1>8, <1>9 DEF OneMessageEach
<1>17. OneEntryEach'
  BY <1>1, <1>2, <1>3, <1>4, <1>5, <1>6, <1>7, <1>10, <1>11 DEF OneEntryEach
<1>18. RequestsAgree'
  <2>1. \A x \in QueuedSubscribes' : [rpc_id |-> x.id, params |-> x.params] \in client'.asked
    BY <1>1, <1>2 DEF RequestsAgree
  <2>2. \A x \in ForwardedSubscribes', p \in pending_subscribes' :
          p.rpc_id = x.id => p.params = x.params
    BY <1>3, <1>4, <1>5, <1>8, <1>11, <1>13 DEF RequestsAgree
  <2>3. \A x \in Accepted' : \E y \in up'.subs :
          /\ y.sub = x.sub /\ y.id = x.id
          /\ \A p \in pending_subscribes' : p.rpc_id = x.id => p.params = y.params
    BY <1>3, <1>4, <1>5, <1>7, <1>9, <1>12 DEF RequestsAgree
  <2>4. ASSUME client.state = "up", NEW x \in ForwardedSubscribes' \cup Accepted'
        PROVE  PendingFor(pending_subscribes', x.id) = PendingFor(client.asked, x.id)
    <3>1. CASE x = m
      <4>1. PendingFor(pending_subscribes', m.id) = {q}
        BY <1>3, <1>4, <1>5, <1>11 DEF PendingFor
      <4>2. PendingFor(client.asked, m.id) = {q}
        BY <1>3, <1>14 DEF PendingFor, OneEntryEach
      <4> QED
        BY <3>1, <4>1, <4>2
    <3>2. CASE x # m
      <4>1. x \in ForwardedSubscribes \cup Accepted /\ x.id # m.id
        BY <1>4, <1>8, <1>9, <1>12, <1>13, <3>2
      <4>2. PendingFor(pending_subscribes', x.id) = PendingFor(pending_subscribes, x.id)
        BY <1>3, <1>5, <4>1 DEF PendingFor
      <4> QED
        BY <2>4, <4>1, <4>2 DEF RequestsAgree
    <3> QED
      BY <3>1, <3>2
  <2> QED
    BY <1>1, <1>6, <1>10, <2>1, <2>2, <2>3, <2>4 DEF RequestsAgree
<1>19. IdsAreFresh'
  BY <1>1, <1>6, <1>10 DEF IdsAreFresh
<1>20. SubscriptionsCarried'
  <2>1. \A r \in tracker.subscriptions : HeldByNode(r)'
    BY <1>7, <1>8 DEF SubscriptionsCarried, HeldByNode
  <2>2. \A x \in up.subs : x.id # m.id
    BY <1>4 DEF LiveIds
  <2> QED
    BY <1>1, <1>6, <1>7, <1>10, <2>1, <2>2 DEF SubscriptionsCarried
<1>21. KindsAgree'
  BY <1>1, <1>7, <1>9 DEF KindsAgree
<1>22. TrackerMatches'
  BY <1>1, <1>10 DEF TrackerMatches
<1> QED
  BY <1>15, <1>16, <1>17, <1>18, <1>19, <1>20, <1>21, <1>22

LEMMA ForwardUnsubscribeKept ==
  ASSUME CInv, SessionInv, HandleClientMessage, Head(c2p).type = "unsubscribe"
  PROVE  SessionInv'
<1> DEFINE m == Head(c2p)
<1>1. /\ c2p # <<>> /\ c2p' = Tail(c2p)
      /\ tracker' = remove_subscription(tracker, m.sub)
      /\ Forward(m)
      /\ UNCHANGED <<pending_subscribes, stage, client, used>>
  BY DEF HandleClientMessage
<1>2. /\ m \in ToUpstream \cup {Close} /\ m.type = "unsubscribe" /\ OneIdEach(c2p')
      /\ QueuedSubscribes' = QueuedSubscribes
      /\ QueuedUnsubscribes = QueuedUnsubscribes' \cup {m}
      /\ QueuedIds = QueuedIds' \cup {m.id}
      /\ m.id \notin QueuedIds'
  BY <1>1, QueueShrinks DEF SessionInv, OneMessageEach
<1>3. m \in ToUpstream
  BY <1>2, ClientMessages
<1> HIDE DEF m
<1>4. m.id \notin ForwardedIds \cup AnsweredIds \cup PendingIds \cup TrackedIds \cup LiveIds
  BY <1>2 DEF SessionInv, OneMessageEach, OneEntryEach
<1>5. /\ tracker'.subscriptions = {r \in tracker.subscriptions : r.client_sub_id # m.sub}
      /\ tracker'.upstream_to_client_id \subseteq tracker.upstream_to_client_id
  BY <1>1 DEF remove_subscription
<1>6. /\ PendingIds' = PendingIds
      /\ TrackedIds' \subseteq TrackedIds
      /\ TrackedSubs' \subseteq TrackedSubs
  BY <1>1, <1>5 DEF PendingIds, TrackedIds, TrackedSubs
<1>7. /\ up'.in = Append(up.in, m) \/ up'.in = up.in
      /\ up'.out = up.out /\ up'.subs = up.subs /\ up'.rejected = up.rejected
  BY <1>1 DEF Forward, CInv, ChannelsOK, UpstreamType
<1>8. /\ ForwardedSubscribes' = ForwardedSubscribes
      /\ ForwardedUnsubscribes' \subseteq ForwardedUnsubscribes \cup {m}
      /\ ForwardedIds' \subseteq ForwardedIds \cup {m.id}
      /\ OneIdEach(up.in) => OneIdEach(up.in)'
  BY <1>2, <1>3, <1>4, <1>7, NodeQueueGrows, NodeQueueSame
<1>9. /\ Events' = Events /\ AnsweredIds' = AnsweredIds /\ Accepted' = Accepted
      /\ OneIdEach(up.out) => OneIdEach(up.out)'
      /\ OneSubEach(up.out) => OneSubEach(up.out)'
  BY <1>7, AnswersSame
<1>10. /\ KnownSubs' = KnownSubs /\ AskedIds' = AskedIds
       /\ LiveIds' = LiveIds /\ LiveSubs' = LiveSubs
       /\ AcceptedSubs' = AcceptedSubs /\ EventSubs' = EventSubs
  BY <1>1, <1>7, <1>9 DEF KnownSubs, AskedIds, LiveIds, LiveSubs, AcceptedSubs, EventSubs
<1>11. LeavingSubs = LeavingSubs' \cup {m.sub}
  BY <1>2 DEF LeavingSubs
<1>12. RemovedSubs' \subseteq RemovedSubs \cup {m.sub}
  BY <1>8 DEF RemovedSubs
<1> USE DEF SessionInv
<1>13. Numbered'
  BY <1>1, <1>2, <1>6, <1>8, <1>9, <1>10 DEF Numbered
<1>14. OneMessageEach'
  BY <1>2, <1>4, <1>8, <1>9 DEF OneMessageEach
<1>15. OneEntryEach'
  BY <1>1, <1>2, <1>5, <1>6, <1>7, <1>10 DEF OneEntryEach
<1>16. RequestsAgree'
  BY <1>1, <1>2, <1>6, <1>7, <1>8, <1>9, <1>10 DEF RequestsAgree
<1>17. IdsAreFresh'
  BY <1>1, <1>6, <1>10, <1>11, <1>12 DEF IdsAreFresh
<1>18. SubscriptionsCarried'
  <2>1. \A r \in tracker'.subscriptions : HeldByNode(r)'
    BY <1>5, <1>7, <1>8 DEF SubscriptionsCarried, HeldByNode
  <2>2. ASSUME NEW x \in up.subs, x.sub \in RemovedSubs'
        PROVE  x.id \notin PendingIds \cup TrackedIds'
    <3>1. CASE x.sub \in RemovedSubs
      BY <1>6, <3>1 DEF SubscriptionsCarried
    <3>2. CASE x.sub = m.sub
      <4>1. /\ x.id \notin PendingIds
            /\ \A r \in tracker.subscriptions : r.rpc_id = x.id => r.client_sub_id = m.sub
        BY <1>11, <3>2 DEF SubscriptionsCarried
      <4> QED
        BY <1>5, <4>1 DEF TrackedIds
    <3> QED
      BY <1>12, <2>2, <3>1, <3>2
  <2> QED
    BY <1>1, <1>5, <1>6, <1>7, <1>10, <1>11, <2>1, <2>2 DEF SubscriptionsCarried
<1>19. KindsAgree'
  BY <1>1, <1>7, <1>9 DEF KindsAgree
<1>20. TrackerMatches'
  <2>1. {r \in tracker'.subscriptions : r.client_sub_id \notin LeavingSubs'}
          = {r \in tracker.subscriptions : r.client_sub_id \notin LeavingSubs}
    BY <1>5, <1>11
  <2> QED
    BY <1>1, <2>1 DEF TrackerMatches
<1> QED
  BY <1>13, <1>14, <1>15, <1>16, <1>17, <1>18, <1>19, <1>20

LEMMA TakeCloseKept ==
  ASSUME CInv, SessionInv, HandleClientMessage, Head(c2p).type = "close"
  PROVE  SessionInv'
<1>1. /\ c2p # <<>> /\ c2p' = Tail(c2p) /\ stage' = "closed"
      /\ UNCHANGED <<up, tracker, pending_subscribes, client, used>>
  BY DEF HandleClientMessage
<1>2. /\ OneIdEach(c2p')
      /\ QueuedSubscribes' = QueuedSubscribes
      /\ QueuedUnsubscribes' = QueuedUnsubscribes
      /\ QueuedIds' = QueuedIds
  BY <1>1, QueueShrinks DEF SessionInv, OneMessageEach
<1>3. SameMessages
  BY <1>1, <1>2, NodeSame DEF SameMessages, SessionInv, OneMessageEach
<1>4. SameRequests
  BY <1>1 DEF SameRequests, SessionInv, Numbered
<1> QED
  BY <1>3, <1>4, Unaffected

(***************************************************************************)
(* The loop takes a message of the node.                                   *)
(***************************************************************************)
LEMMA PassOnKept ==
  ASSUME CInv, SessionInv, HandleUpstreamMessage, Head(up.out).type # "response"
  PROVE  SessionInv'
<1> DEFINE m == Head(up.out)
<1>1. /\ up.out # <<>> /\ up' = [up EXCEPT !.out = Tail(@)] /\ UNCHANGED <<c2p, used>>
      /\ stage = "open" /\ stage' \in {"open", "closed"}
  BY DEF HandleUpstreamMessage
<1>2. /\ up'.out = Tail(up.out) /\ up'.in = up.in
      /\ up'.subs = up.subs /\ up'.rejected = up.rejected
  BY <1>1 DEF CInv, ChannelsOK, UpstreamType
<1>3. /\ m \in ToClient
      /\ OneIdEach(up.out)' /\ OneSubEach(up.out)'
      /\ Events' \subseteq Events
      /\ AnsweredIds' = AnsweredIds /\ Accepted' = Accepted
  BY <1>1, <1>2, AnswersShrink DEF SessionInv, OneMessageEach
<1>4. UNCHANGED <<tracker, pending_subscribes, client>>
  <2>1. CASE m = Close
    BY <2>1 DEF HandleUpstreamMessage
  <2>2. CASE m # Close
    <3>1. m \notin {Response(i, s) : i \in RpcId, s \in SubId \cup {NoSub}}
      BY DEF Response
    <3>2. PICK s \in SubId, p \in Params : m = Notification(s, p)
      BY <1>3, <2>2, <3>1 DEF ToClient
    <3>3. m.type = "notification" /\ Outgoing(m).type = "notification"
      BY <3>2 DEF Outgoing, Notification
    <3>4. Track(m) /\ (client' = client \/ client' = Received(Outgoing(m)))
      BY <2>2 DEF HandleUpstreamMessage
    <3> QED
      BY <3>3, <3>4 DEF Track, Received
  <2> QED
    BY <2>1, <2>2
<1>5. SameMessages
  BY <1>1, <1>2, <1>3, QueueSame, NodeQueueSame DEF SameMessages, SessionInv, OneMessageEach
<1>6. SameRequests
  BY <1>1, <1>2, <1>4 DEF SameRequests, SessionInv, Numbered
<1> QED
  BY <1>5, <1>6, Unaffected

(***************************************************************************)
(* What a response settles, tracked or not: the client no longer waits for *)
(* it, and nothing else is asked by its id.                                *)
(***************************************************************************)
Settled(m) ==
  /\ m.type = "response" /\ m.id \in RpcId /\ m.sub \in SubId \cup {NoSub}
  /\ m \in Responses /\ m.id \in AnsweredIds
  /\ m.id \notin QueuedIds \cup ForwardedIds \cup AnsweredIds'
  /\ OneIdEach(up.out)' /\ OneSubEach(up.out)'
  /\ Events' \subseteq Events
  /\ AnsweredIds' \subseteq AnsweredIds
  /\ Accepted' \subseteq Accepted /\ AcceptedSubs' \subseteq AcceptedSubs
  /\ m.sub # NoSub => m \in Accepted /\ m.sub \in AcceptedSubs /\ m.sub \notin AcceptedSubs'
  /\ \A x \in ForwardedSubscribes \cup QueuedSubscribes \cup Accepted' : x.id # m.id
  /\ up'.in = up.in /\ up'.subs = up.subs /\ up'.rejected = up.rejected
  /\ stage = "open" /\ stage' \in {"open", "closed"}
  /\ UNCHANGED <<c2p, used>>
  /\ Track(m)
  /\ IF client.state = "up" THEN client' = Received(m) ELSE client' = client

LEMMA ResponseSettled ==
  ASSUME CInv, SessionInv, HandleUpstreamMessage, Head(up.out).type = "response"
  PROVE  Settled(Head(up.out))
<1> DEFINE m == Head(up.out)
<1>1. /\ up.out # <<>> /\ up' = [up EXCEPT !.out = Tail(@)] /\ UNCHANGED <<c2p, used>>
      /\ stage = "open" /\ stage' \in {"open", "closed"}
  BY DEF HandleUpstreamMessage
<1>2. /\ up'.out = Tail(up.out) /\ up'.in = up.in
      /\ up'.subs = up.subs /\ up'.rejected = up.rejected
  BY <1>1 DEF CInv, ChannelsOK, UpstreamType
<1>3. /\ m \in ToClient /\ m \in Responses
      /\ OneIdEach(up.out)' /\ OneSubEach(up.out)'
      /\ Events' \subseteq Events
      /\ AnsweredIds = AnsweredIds' \cup {m.id} /\ m.id \notin AnsweredIds'
      /\ m.sub # NoSub => Accepted = Accepted' \cup {m} /\ m.sub \notin AcceptedSubs'
      /\ m.sub = NoSub => Accepted' = Accepted
  BY <1>1, <1>2, AnswersShrink DEF SessionInv, OneMessageEach
<1>4. m.id \in RpcId /\ m.sub \in SubId \cup {NoSub}
  BY <1>3, NodeMessages
<1>5. Track(m) /\ IF client.state = "up" THEN client' = Received(m) ELSE client' = client
  BY DEF HandleUpstreamMessage, Outgoing, Close
<1> HIDE DEF m
<1>6. m.id \notin QueuedIds \cup ForwardedIds
  BY <1>3 DEF SessionInv, OneMessageEach
<1>7. /\ Accepted' \subseteq Accepted /\ AcceptedSubs' \subseteq AcceptedSubs
      /\ m.sub # NoSub => m \in Accepted /\ m.sub \in AcceptedSubs
  BY <1>3 DEF AcceptedSubs
<1>8. \A x \in ForwardedSubscribes \cup QueuedSubscribes \cup Accepted' : x.id # m.id
  <2>1. \A x \in Accepted' : x.id \in AnsweredIds'
    BY DEF Accepted, AnsweredIds
  <2> QED
    BY <1>3, <1>6, <2>1 DEF ForwardedIds, QueuedIds
<1>9. m.type = "response"
  BY DEF m
<1> QED
  BY <1>1, <1>2, <1>3, <1>4, <1>5, <1>6, <1>7, <1>8, <1>9 DEF Settled, m

LEMMA UntrackedKept ==
  ASSUME CInv, SessionInv, NEW m, Settled(m),
         m.sub = NoSub \/ PendingFor(pending_subscribes, m.id) = {}
  PROVE  SessionInv'
<1> USE DEF Settled
<1>1. UNCHANGED <<tracker, pending_subscribes>>
  BY DEF Track
<1>2. /\ client' \in ClientType
      /\ client'.state = client.state /\ client'.sent = client.sent
      /\ client'.known = client.known
      /\ client'.asked \subseteq client.asked
      /\ \A a \in client.asked : a.rpc_id # m.id => a \in client'.asked
  <2>1. client \in ClientType
    BY DEF SessionInv, Numbered
  <2>2. CASE client.state # "up"
    BY <2>1, <2>2
  <2>3. CASE client.state = "up"
    <3> DEFINE answered == PendingFor(client.asked, m.id)
               told == IF m.sub = NoSub THEN {}
                       ELSE {a \in answered : a.params # NoParams}
    <3>1. told = {}
      BY <2>3 DEF SessionInv, RequestsAgree
    <3>2. client' = [client EXCEPT
              !.asked = @ \ answered,
              !.known = @ \cup {[sub |-> m.sub, params |-> a.params] : a \in told}]
      BY <2>3 DEF Received
    <3>3. {[sub |-> m.sub, params |-> a.params] : a \in told} = {}
      BY <3>1
    <3>4. client' = [client EXCEPT !.asked = @ \ answered, !.known = @ \cup {}]
      BY <3>2, <3>3
    <3>5. \A a \in client.asked : a.rpc_id # m.id => a \notin answered
      BY DEF PendingFor
    <3> HIDE DEF answered, told
    <3> QED
      BY <2>1, <3>4, <3>5 DEF ClientType
  <2> QED
    BY <2>2, <2>3
<1>3. AskedIds' \subseteq AskedIds
  BY <1>2 DEF AskedIds
<1>4. /\ ForwardedSubscribes' = ForwardedSubscribes /\ ForwardedIds' = ForwardedIds
      /\ ForwardedUnsubscribes' = ForwardedUnsubscribes
      /\ OneIdEach(up.in) => OneIdEach(up.in)'
  BY NodeQueueSame
<1>5. /\ KnownSubs' = KnownSubs /\ LeavingSubs' = LeavingSubs /\ RemovedSubs' = RemovedSubs
      /\ LiveIds' = LiveIds /\ LiveSubs' = LiveSubs /\ EventSubs' \subseteq EventSubs
  BY <1>2, <1>4, QueueSame DEF KnownSubs, LeavingSubs, RemovedSubs, LiveIds, LiveSubs, EventSubs
<1> USE LoopSame, QueueSame DEF SessionInv
<1>6. Numbered'
  BY <1>1, <1>2, <1>3, <1>4, <1>5 DEF Numbered
<1>7. OneMessageEach'
  BY <1>4 DEF OneMessageEach
<1>8. OneEntryEach'
  BY <1>1, <1>2, <1>5 DEF OneEntryEach
<1>9. RequestsAgree'
  <2>1. \A x \in QueuedSubscribes' : [rpc_id |-> x.id, params |-> x.params] \in client'.asked
    BY <1>2 DEF RequestsAgree
  <2>2. \A x \in ForwardedSubscribes \cup Accepted' :
          PendingFor(client'.asked, x.id) = PendingFor(client.asked, x.id)
    BY <1>2 DEF PendingFor
  <2> QED
    BY <1>1, <1>2, <1>3, <1>4, <2>1, <2>2 DEF RequestsAgree
<1>10. IdsAreFresh'
  BY <1>1, <1>5 DEF IdsAreFresh
<1>11. SubscriptionsCarried'
  BY <1>1, <1>4, <1>5 DEF SubscriptionsCarried, HeldByNode
<1>12. KindsAgree'
  BY <1>2 DEF KindsAgree
<1>13. TrackerMatches'
  BY <1>1, <1>2, <1>5 DEF TrackerMatches
<1> QED
  BY <1>6, <1>7, <1>8, <1>9, <1>10, <1>11, <1>12, <1>13

LEMMA TrackedKept ==
  ASSUME CInv, SessionInv, NEW m, Settled(m),
         m.sub # NoSub, PendingFor(pending_subscribes, m.id) # {}
  PROVE  SessionInv'
<1> DEFINE p == CHOOSE x \in PendingFor(pending_subscribes, m.id) : TRUE
           new == [client_sub_id |-> m.sub, rpc_id |-> m.id, params |-> p.params]
           told == [sub |-> m.sub, params |-> p.params]
<1> USE DEF Settled
<1>1. /\ p \in pending_subscribes /\ p.rpc_id = m.id /\ p.params \in Params
      /\ p = [rpc_id |-> m.id, params |-> p.params]
      /\ PendingFor(pending_subscribes, m.id) = {p}
  <2>1. p \in PendingFor(pending_subscribes, m.id)
    OBVIOUS
  <2>2. p \in pending_subscribes /\ p.rpc_id = m.id
    BY <2>1 DEF PendingFor
  <2>3. p \in Pending
    BY <2>2 DEF CInv, TrackingOK
  <2>4. \A q \in PendingFor(pending_subscribes, m.id) : q = p
    BY <2>1, <2>2 DEF SessionInv, OneEntryEach, PendingFor
  <2> HIDE DEF p
  <2> QED
    BY <2>1, <2>2, <2>3, <2>4 DEF Pending
<1>2. /\ pending_subscribes' = pending_subscribes \ {p}
      /\ tracker' = track_subscribe(tracker, p.params, m.id, m.sub)
  BY <1>1 DEF Track, RemovePending
<1> HIDE DEF p
<1>3. /\ m.sub \notin KnownSubs \cup LeavingSubs \cup RemovedSubs \cup TrackedSubs
      /\ m.sub \in used /\ m.sub \in SubId
  BY DEF SessionInv, IdsAreFresh
<1>4. m.id \in PendingIds /\ m.id \notin TrackedIds
  BY <1>1 DEF SessionInv, OneEntryEach, PendingIds
<1>5. /\ tracker'.subscriptions = tracker.subscriptions \cup {new}
      /\ \A k \in tracker'.upstream_to_client_id :
           k \in tracker.upstream_to_client_id \/ k.upstream = k.client
  <2>1. {r \in tracker.subscriptions : r.client_sub_id # m.sub} = tracker.subscriptions
    BY <1>3 DEF TrackedSubs
  <2>2. tracker \in Tracker
    BY DEF CInv, TrackingOK, FiniteTracker
  <2>3. tracker' = [subscriptions |-> tracker.subscriptions \cup {new},
                    upstream_to_client_id |->
                      {k \in tracker.upstream_to_client_id : k.upstream # m.sub}
                        \cup {[upstream |-> m.sub, client |-> m.sub]}]
    BY <1>2, <2>1, <2>2 DEF track_subscribe, map_upstream_id, Tracker
  <2> QED
    BY <2>3
<1>6. PICK y \in up.subs : y.sub = m.sub /\ y.id = m.id /\ y.params = p.params
  BY <1>1 DEF SessionInv, RequestsAgree
<1>7. \A x \in up.subs : x.sub = m.sub => x = y
  BY <1>6 DEF SessionInv, OneEntryEach
<1>8. /\ client.state = "up" =>
           /\ client'.asked = client.asked \ {p}
           /\ client'.known = client.known \cup {told}
           /\ p \in client.asked
      /\ client.state # "up" => client' = client
      /\ client' \in ClientType
      /\ client'.state = client.state /\ client'.sent = client.sent
  <2>1. client \in ClientType
    BY DEF SessionInv, Numbered
  <2>2. CASE client.state # "up"
    BY <2>1, <2>2
  <2>3. CASE client.state = "up"
    <3>1. PendingFor(client.asked, m.id) = {p}
      BY <1>1, <2>3 DEF SessionInv, RequestsAgree
    <3>2. {a \in {p} : a.params # NoParams} = {p}
      BY <1>1, WsAssumption
    <3>3. client' = [client EXCEPT
             !.asked = @ \ {p}, !.known = @ \cup {[sub |-> m.sub, params |-> a.params] : a \in {p}}]
      BY <2>3, <3>1, <3>2 DEF Received
    <3>4. client' = [client EXCEPT !.asked = @ \ {p}, !.known = @ \cup {told}]
      <4> DEFINE more == {[sub |-> m.sub, params |-> a.params] : a \in {p}}
      <4>1. more = {told}
        OBVIOUS
      <4>2. client' = [client EXCEPT !.asked = @ \ {p}, !.known = @ \cup more]
        BY <3>3
      <4> HIDE DEF told, more
      <4> QED
        BY <4>1, <4>2
    <3>5. told \in [sub : SubId, params : Params]
      BY <1>1, <1>3
    <3>6. p \in client.asked
      BY <3>1 DEF PendingFor
    <3> HIDE DEF told
    <3>7. /\ client'.asked = client.asked \ {p} /\ client'.known = client.known \cup {told}
          /\ client'.state = client.state /\ client'.sent = client.sent
          /\ client' \in ClientType
      BY <2>1, <3>4, <3>5 DEF ClientType
    <3> QED
      BY <2>3, <3>6, <3>7
  <2> QED
    BY <2>2, <2>3
<1>9. /\ PendingIds' = PendingIds \ {m.id}
      /\ TrackedIds' = TrackedIds \cup {m.id}
      /\ TrackedSubs' = TrackedSubs \cup {m.sub}
  <2>1. \A q \in pending_subscribes : q.rpc_id = m.id => q = p
    BY <1>1 DEF PendingFor
  <2>2. PendingIds' = PendingIds \ {m.id}
    BY <1>1, <1>2, <2>1 DEF PendingIds
  <2>3. new.rpc_id = m.id /\ new.client_sub_id = m.sub
    OBVIOUS
  <2> HIDE DEF new
  <2> QED
    BY <1>5, <2>2, <2>3 DEF TrackedIds, TrackedSubs
<1>10. /\ AskedIds' \subseteq AskedIds
       /\ KnownSubs' \subseteq KnownSubs \cup {m.sub}
       /\ client.state = "up" => m.id \notin AskedIds'
  <2>1. client.state = "up" => \A a \in client.asked : a.rpc_id = m.id => a = p
    BY <1>1, <1>8 DEF SessionInv, OneEntryEach
  <2>2. AskedIds' \subseteq AskedIds /\ (client.state = "up" => m.id \notin AskedIds')
    BY <1>8, <2>1 DEF AskedIds
  <2>3. KnownSubs' \subseteq KnownSubs \cup {m.sub}
    BY <1>8 DEF KnownSubs
  <2> QED
    BY <2>2, <2>3
<1>11. /\ ForwardedSubscribes' = ForwardedSubscribes /\ ForwardedIds' = ForwardedIds
       /\ ForwardedUnsubscribes' = ForwardedUnsubscribes
       /\ OneIdEach(up.in) => OneIdEach(up.in)'
  BY NodeQueueSame
<1>12. /\ LeavingSubs' = LeavingSubs /\ RemovedSubs' = RemovedSubs
       /\ LiveIds' = LiveIds /\ LiveSubs' = LiveSubs /\ EventSubs' \subseteq EventSubs
  BY <1>11, QueueSame DEF LeavingSubs, RemovedSubs, LiveIds, LiveSubs, EventSubs
<1> USE QueueSame DEF SessionInv
<1>13. Numbered'
  BY <1>4, <1>8, <1>9, <1>10, <1>11, <1>12 DEF Numbered
<1>14. OneMessageEach'
  BY <1>11 DEF OneMessageEach
<1>15. OneEntryEach'
  <2>1. \A r, t \in tracker'.subscriptions : r.rpc_id = t.rpc_id => r = t
    BY <1>4, <1>5 DEF OneEntryEach, TrackedIds
  <2>2. \A a, b \in client'.asked : a.rpc_id = b.rpc_id => a = b
    BY <1>8 DEF OneEntryEach
  <2> QED
    BY <1>2, <1>5, <1>9, <1>12, <2>1, <2>2 DEF OneEntryEach
<1>16. RequestsAgree'
  <2>1. \A x \in QueuedSubscribes' : [rpc_id |-> x.id, params |-> x.params] \in client'.asked
    <3>1. \A x \in QueuedSubscribes : /\ [rpc_id |-> x.id, params |-> x.params] \in client.asked
                                      /\ [rpc_id |-> x.id, params |-> x.params] # p
      <4> SUFFICES ASSUME NEW x \in QueuedSubscribes
                   PROVE  /\ [rpc_id |-> x.id, params |-> x.params] \in client.asked
                          /\ [rpc_id |-> x.id, params |-> x.params] # p
        OBVIOUS
      <4>1. [rpc_id |-> x.id, params |-> x.params].rpc_id = x.id /\ x.id # m.id
        OBVIOUS
      <4>2. [rpc_id |-> x.id, params |-> x.params] # p
        BY <1>1, <4>1
      <4> QED
        BY <4>2 DEF RequestsAgree
    <3> QED
      BY <1>8, <3>1
  <2>2. \A x \in ForwardedSubscribes \cup Accepted' :
          /\ PendingFor(pending_subscribes', x.id) = PendingFor(pending_subscribes, x.id)
          /\ client.state = "up" =>
               PendingFor(client'.asked, x.id) = PendingFor(client.asked, x.id)
    BY <1>1, <1>2, <1>8 DEF PendingFor
  <2>3. \A x \in ForwardedSubscribes', q \in pending_subscribes' :
          q.rpc_id = x.id => q.params = x.params
    BY <1>2, <1>11 DEF RequestsAgree
  <2>4. \A x \in Accepted' : \E z \in up'.subs :
          /\ z.sub = x.sub /\ z.id = x.id
          /\ \A q \in pending_subscribes' : q.rpc_id = x.id => q.params = z.params
    BY <1>2 DEF RequestsAgree
  <2>5. client.state = "up" =>
          /\ TrackedIds' \cap AskedIds' = {}
          /\ \A x \in ForwardedSubscribes' \cup Accepted' :
               PendingFor(pending_subscribes', x.id) = PendingFor(client'.asked, x.id)
    BY <1>9, <1>10, <1>11, <2>2 DEF RequestsAgree
  <2> QED
    BY <1>8, <2>1, <2>3, <2>4, <2>5 DEF RequestsAgree
<1>17. IdsAreFresh'
  BY <1>3, <1>9, <1>10, <1>12 DEF IdsAreFresh
<1>18. SubscriptionsCarried'
  <2>1. \A r \in tracker'.subscriptions : HeldByNode(r)'
    BY <1>5, <1>6, <1>11 DEF SubscriptionsCarried, HeldByNode
  <2>2. \A r \in tracker'.subscriptions, x \in up.subs :
          r.client_sub_id = x.sub => r.rpc_id = x.id
    BY <1>5, <1>6, <1>7 DEF SubscriptionsCarried
  <2>3. ASSUME NEW x \in up.subs, x.sub \in KnownSubs' \cup LeavingSubs
        PROVE  /\ x.id \notin PendingIds'
               /\ \A r \in tracker'.subscriptions : r.rpc_id = x.id => r.client_sub_id = x.sub
    <3>1. CASE x.sub = m.sub
      BY <1>4, <1>5, <1>6, <1>7, <1>9, <3>1 DEF TrackedIds
    <3>2. CASE x.sub \in KnownSubs \cup LeavingSubs
      BY <1>4, <1>5, <1>9, <3>2 DEF SubscriptionsCarried
    <3> QED
      BY <1>10, <2>3, <3>1, <3>2
  <2>4. \A x \in up.subs : x.sub \in RemovedSubs => x.id \notin PendingIds' \cup TrackedIds'
    BY <1>4, <1>9 DEF SubscriptionsCarried
  <2> QED
    BY <1>12, <2>1, <2>2, <2>3, <2>4 DEF SubscriptionsCarried
<1>19. KindsAgree'
  BY <1>6, <1>7, <1>8 DEF KindsAgree
<1>20. TrackerMatches'
  <2> SUFFICES ASSUME client.state = "up"
               PROVE  client'.known =
                        {[sub |-> r.client_sub_id, params |-> r.params] : r \in
                           {x \in tracker'.subscriptions : x.client_sub_id \notin LeavingSubs}}
    BY <1>8, <1>12 DEF TrackerMatches
  <2>1. {x \in tracker'.subscriptions : x.client_sub_id \notin LeavingSubs}
          = {x \in tracker.subscriptions : x.client_sub_id \notin LeavingSubs} \cup {new}
    BY <1>3, <1>5
  <2>2. told = [sub |-> new.client_sub_id, params |-> new.params]
    OBVIOUS
  <2> HIDE DEF new, told
  <2> QED
    BY <1>8, <2>1, <2>2 DEF TrackerMatches
<1> QED
  BY <1>13, <1>14, <1>15, <1>16, <1>17, <1>18, <1>19, <1>20

LEMMA HandleUpstreamMessageKept ==
  ASSUME CInv, SessionInv, HandleUpstreamMessage
  PROVE  SessionInv'
BY PassOnKept, ResponseSettled, UntrackedKept, TrackedKept

(***************************************************************************)
(* A fresh upstream: it is asked for what is tracked, and for nothing else.*)
(***************************************************************************)
LEMMA FreshKept ==
  ASSUME CInv, SessionInv,
         ToSet(up'.in) = {Subscribe(r.rpc_id, r.params) : r \in tracker.subscriptions},
         OneIdEach(up.in)',
         up'.out = <<>>, up'.subs = {}, up'.rejected = {},
         tracker'.subscriptions = tracker.subscriptions,
         tracker'.upstream_to_client_id \subseteq tracker.upstream_to_client_id,
         stage' = "open",
         UNCHANGED <<pending_subscribes, client, c2p, used>>
  PROVE  SessionInv'
<1>1. /\ ForwardedSubscribes' = ToSet(up'.in)
      /\ ForwardedUnsubscribes' = {}
      /\ ForwardedIds' = TrackedIds
  <2>1. \A m \in ToSet(up'.in) : m.type = "subscribe"
    BY DEF Subscribe
  <2>2. ForwardedSubscribes' = ToSet(up'.in) /\ ForwardedUnsubscribes' = {}
    BY <2>1 DEF ForwardedSubscribes, ForwardedUnsubscribes
  <2>3. \A r : Subscribe(r.rpc_id, r.params).id = r.rpc_id
    BY DEF Subscribe
  <2>4. ForwardedIds' = {m.id : m \in ToSet(up'.in)}
    BY <2>2 DEF ForwardedIds
  <2> QED
    BY <2>2, <2>3, <2>4 DEF TrackedIds
<1>2. /\ Events' = {} /\ AnsweredIds' = {} /\ Accepted' = {}
      /\ OneIdEach(up.out)' /\ OneSubEach(up.out)'
  <2>1. ToSet(up'.out) = {}
    BY DEF ToSet
  <2> QED
    BY <2>1 DEF Events, Responses, AnsweredIds, Accepted, OneIdEach, OneSubEach
<1>3. /\ PendingIds' = PendingIds /\ AskedIds' = AskedIds /\ TrackedIds' = TrackedIds
      /\ LiveIds' = {} /\ KnownSubs' = KnownSubs /\ LeavingSubs' = LeavingSubs
      /\ RemovedSubs' = {} /\ TrackedSubs' = TrackedSubs /\ AcceptedSubs' = {}
      /\ LiveSubs' = {} /\ EventSubs' = {}
  BY <1>1, <1>2, QueueSame DEF PendingIds, AskedIds, TrackedIds, LiveIds, KnownSubs, LeavingSubs,
     RemovedSubs, TrackedSubs, AcceptedSubs, LiveSubs, EventSubs
<1> USE QueueSame DEF SessionInv
<1>4. Numbered'
  BY <1>1, <1>2, <1>3 DEF Numbered
<1>5. OneMessageEach'
  BY <1>1, <1>2 DEF OneMessageEach, OneEntryEach
<1>6. OneEntryEach'
  BY <1>3 DEF OneEntryEach
<1>7. RequestsAgree'
  <2>1. \A m \in ForwardedSubscribes' : m.id \in TrackedIds
    BY <1>1 DEF ForwardedIds
  <2>2. \A m \in ForwardedSubscribes' : PendingFor(pending_subscribes, m.id) = {}
    BY <2>1 DEF OneEntryEach, PendingIds, PendingFor
  <2>3. client.state = "up" =>
          \A m \in ForwardedSubscribes' : PendingFor(client.asked, m.id) = {}
    BY <2>1 DEF RequestsAgree, AskedIds, PendingFor
  <2>4. \A m \in ForwardedSubscribes', p \in pending_subscribes :
          p.rpc_id = m.id => p.params = m.params
    BY <2>2 DEF PendingFor
  <2> QED
    BY <1>2, <1>3, <2>2, <2>3, <2>4 DEF RequestsAgree
<1>8. IdsAreFresh'
  BY <1>3 DEF IdsAreFresh
<1>9. SubscriptionsCarried'
  <2>1. \A r \in tracker.subscriptions :
          \E m \in ForwardedSubscribes' : m.id = r.rpc_id /\ m.params = r.params
    <3> SUFFICES ASSUME NEW r \in tracker.subscriptions
                 PROVE  \E m \in ForwardedSubscribes' : m.id = r.rpc_id /\ m.params = r.params
      OBVIOUS
    <3>1. Subscribe(r.rpc_id, r.params) \in ForwardedSubscribes'
      BY <1>1
    <3> QED
      BY <3>1 DEF Subscribe
  <2> QED
    BY <2>1 DEF SubscriptionsCarried, HeldByNode
<1>10. KindsAgree'
  BY <1>2 DEF KindsAgree
<1>11. TrackerMatches'
  BY <1>3 DEF TrackerMatches
<1> QED
  BY <1>4, <1>5, <1>6, <1>7, <1>8, <1>9, <1>10, <1>11

LEMMA ReconnectedKept ==
  ASSUME CInv, SessionInv, Reconnected
  PROVE  SessionInv'
<1>1. PICK replays \in Replays : up' = Upstream(current_node_name, replays)
  BY DEF Reconnected
<1>2. /\ ToSet(replays) = {Subscribe(r.rpc_id, r.params) : r \in tracker.subscriptions}
      /\ OneIdEach(replays)
  BY ReplayedOnce DEF CInv, TrackingOK, SessionInv, OneEntryEach
<1>3. /\ up'.in = replays /\ up'.out = <<>> /\ up'.subs = {} /\ up'.rejected = {}
  BY <1>1 DEF Upstream
<1>4. /\ tracker'.subscriptions = tracker.subscriptions
      /\ tracker'.upstream_to_client_id = {}
      /\ stage' = "open" /\ UNCHANGED <<pending_subscribes, client, c2p, used>>
  BY DEF Reconnected, clear_upstream_mappings, CInv, TrackingOK, FiniteTracker, Tracker
<1>5. OneIdEach(up.in)'
  BY <1>2, <1>3
<1> QED
  BY <1>2, <1>3, <1>4, <1>5, FreshKept

LEMMA InitialConnectKept ==
  ASSUME CInv, SessionInv, NEW connected \in BOOLEAN, InitialConnect(connected)
  PROVE  SessionInv'
<1>1. CASE connected
  <2>1. /\ up' = Upstream(current_node_name, <<>>) /\ stage = "initial" /\ stage' = "open"
        /\ UNCHANGED <<tracker, pending_subscribes, client, c2p, used>>
    BY <1>1 DEF InitialConnect
  <2>2. up'.in = <<>> /\ up'.out = <<>> /\ up'.subs = {} /\ up'.rejected = {}
    BY <2>1 DEF Upstream
  <2>3. tracker.subscriptions = {}
    BY <2>1 DEF SessionInv, SubscriptionsCarried
  <2>4. ToSet(up'.in) = {Subscribe(r.rpc_id, r.params) : r \in tracker.subscriptions}
    BY <2>2, <2>3 DEF ToSet
  <2>5. OneIdEach(up.in)'
    BY <2>2 DEF OneIdEach
  <2> QED
    BY <2>1, <2>2, <2>4, <2>5, FreshKept
<1>2. CASE ~connected
  <2>1. stage' = "closed" /\ UNCHANGED <<up, tracker, pending_subscribes, client, c2p, used>>
    BY <1>2 DEF InitialConnect
  <2>2. SameMessages
    BY <2>1, QueueSame, NodeSame DEF SameMessages, SessionInv, OneMessageEach
  <2>3. SameRequests
    BY <2>1 DEF SameRequests, SessionInv, Numbered
  <2> QED
    BY <2>2, <2>3, Unaffected
<1> QED
  BY <1>1, <1>2

(***************************************************************************)
(* The node.  What it answers was the first of what it had to process.     *)
(***************************************************************************)
Answers(m, a) ==
  /\ m \in ToUpstream /\ a \in ToClient
  /\ m.id \in ForwardedIds
  /\ m.id \notin QueuedIds \cup AnsweredIds \cup ForwardedIds'
  /\ a.type = "response" /\ a.id = m.id
  /\ ForwardedIds = ForwardedIds' \cup {m.id}
  /\ m.type = "subscribe" =>
       /\ ForwardedSubscribes = ForwardedSubscribes' \cup {m}
       /\ ForwardedUnsubscribes' = ForwardedUnsubscribes
  /\ m.type = "unsubscribe" =>
       /\ ForwardedSubscribes' = ForwardedSubscribes
       /\ ForwardedUnsubscribes = ForwardedUnsubscribes' \cup {m}
  /\ OneIdEach(up.in)' /\ OneIdEach(up.out)'
  /\ AnsweredIds' = AnsweredIds \cup {m.id}
  /\ Events' = Events
  /\ a.sub # NoSub => Accepted' = Accepted \cup {a}
  /\ a.sub = NoSub => Accepted' = Accepted
  /\ a.sub \notin AcceptedSubs => OneSubEach(up.out)'
  /\ \A x \in Accepted : x.id # m.id /\ x.id \in AnsweredIds

LEMMA NodeAnswers ==
  ASSUME CInv, SessionInv, up.in # <<>>, up'.in = Tail(up.in),
         NEW s \in SubId \cup {NoSub},
         up'.out = Append(up.out, Response(Head(up.in).id, s))
  PROVE  Answers(Head(up.in), Response(Head(up.in).id, s))
<1> DEFINE m == Head(up.in)
           a == Response(m.id, s)
<1>1. /\ m \in ToUpstream /\ OneIdEach(up.in)'
      /\ m.id \notin ForwardedIds' /\ ForwardedIds = ForwardedIds' \cup {m.id}
      /\ m.type = "subscribe" =>
           /\ ForwardedSubscribes = ForwardedSubscribes' \cup {m}
           /\ ForwardedUnsubscribes' = ForwardedUnsubscribes
      /\ m.type = "unsubscribe" =>
           /\ ForwardedSubscribes' = ForwardedSubscribes
           /\ ForwardedUnsubscribes = ForwardedUnsubscribes' \cup {m}
  BY NodeQueueShrinks DEF SessionInv, OneMessageEach
<1>2. a \in ToClient /\ a.type = "response" /\ a.id = m.id
  <2>1. m.id \in RpcId
    BY <1>1, ClientMessages DEF Close, ToUpstream, Subscribe, Unsubscribe
  <2> QED
    <3>1. a \in {Response(i, t) : i \in RpcId, t \in SubId \cup {NoSub}}
      BY <2>1
    <3>2. a.type = "response" /\ a.id = m.id
      BY DEF Response
    <3> QED
      BY <3>1, <3>2 DEF ToClient
<1>3. up'.out = Append(up.out, a)
  OBVIOUS
<1> HIDE DEF m, a
<1>4. m.id \in ForwardedIds /\ m.id \notin QueuedIds \cup AnsweredIds
  BY <1>1 DEF SessionInv, OneMessageEach
<1>5. /\ AnsweredIds' = AnsweredIds \cup {m.id}
      /\ Events' = Events
      /\ a.sub # NoSub => Accepted' = Accepted \cup {a}
      /\ a.sub = NoSub => Accepted' = Accepted
      /\ OneIdEach(up.out)'
      /\ a.sub \notin AcceptedSubs => OneSubEach(up.out)'
  BY <1>2, <1>3, <1>4, AnswersGrow DEF SessionInv, OneMessageEach
<1>6. \A x \in Accepted : x.id # m.id /\ x.id \in AnsweredIds
  BY <1>4 DEF Accepted, AnsweredIds
<1> QED
  BY <1>1, <1>2, <1>4, <1>5, <1>6 DEF Answers, m, a

LEMMA AcceptsKept ==
  ASSUME CInv, SessionInv, UniqueIds, Accepts
  PROVE  SessionInv'
<1>1. PICK s \in SubId \ (used \cup {x.sub : x \in up.subs}) :
        /\ UpstreamStep([up EXCEPT
             !.in = Tail(@),
             !.subs = @ \cup {[sub |-> s, id |-> Head(up.in).id,
                               params |-> Head(up.in).params]},
             !.out = Append(@, Response(Head(up.in).id, s))])
        /\ used' = used \cup {s}
  BY DEF Accepts
<1> DEFINE m == Head(up.in)
           a == Response(m.id, s)
           new == [sub |-> s, id |-> m.id, params |-> m.params]
<1>2. /\ up'.in = Tail(up.in) /\ up'.out = Append(up.out, a)
      /\ up'.subs = up.subs \cup {new} /\ up'.rejected = up.rejected
      /\ UNCHANGED <<stage, tracker, pending_subscribes, client, c2p>>
      /\ up.in # <<>> /\ m.type = "subscribe"
  BY <1>1 DEF Accepts, UpstreamStep, loop_vars, CInv, ChannelsOK, UpstreamType
<1>3. Answers(m, a)
  BY <1>2, NodeAnswers
<1>4. a.sub = s /\ s # NoSub
  BY WsAssumption DEF Response
<1>5. new.sub = s /\ new.id = m.id /\ new.params = m.params
  OBVIOUS
<1> HIDE DEF m, a, new
<1> USE DEF Answers
<1>6. /\ s \notin used /\ s \in used' /\ used \subseteq used'
      /\ s \notin KnownSubs \cup LeavingSubs \cup RemovedSubs \cup TrackedSubs
                    \cup AcceptedSubs \cup LiveSubs \cup EventSubs
  BY <1>1 DEF SessionInv, IdsAreFresh
<1>7. /\ ForwardedSubscribes = ForwardedSubscribes' \cup {m}
      /\ ForwardedUnsubscribes' = ForwardedUnsubscribes
      /\ Accepted' = Accepted \cup {a}
      /\ OneSubEach(up.out)'
  BY <1>2, <1>3, <1>4, <1>6
<1>8. /\ LiveIds' = LiveIds \cup {m.id} /\ LiveSubs' = LiveSubs \cup {s}
      /\ AcceptedSubs' = AcceptedSubs \cup {s} /\ RemovedSubs' = RemovedSubs
      /\ EventSubs' = EventSubs
  BY <1>2, <1>3, <1>4, <1>5, <1>7 DEF LiveIds, LiveSubs, AcceptedSubs, RemovedSubs, EventSubs
<1>9. KnownSubs' = KnownSubs /\ LeavingSubs' = LeavingSubs /\ AskedIds' = AskedIds
  BY <1>2, QueueSame DEF KnownSubs, LeavingSubs, AskedIds
<1> USE LoopSame, QueueSame DEF SessionInv
<1>10. Numbered'
  BY <1>2, <1>3, <1>8, <1>9 DEF Numbered
<1>11. OneMessageEach'
  BY <1>2, <1>3, <1>7 DEF OneMessageEach
<1>12. OneEntryEach'
  <2>1. \A x, y \in up'.subs : x.sub = y.sub => x = y
    BY <1>2, <1>5, <1>6 DEF OneEntryEach, LiveSubs
  <2> QED
    BY <1>2, <1>3, <1>8, <2>1 DEF OneEntryEach
<1>13. RequestsAgree'
  <2>1. \A p \in pending_subscribes : p.rpc_id = m.id => p.params = m.params
    BY <1>7 DEF RequestsAgree
  <2>2. \A x \in Accepted' : \E y \in up'.subs :
          /\ y.sub = x.sub /\ y.id = x.id
          /\ \A p \in pending_subscribes : p.rpc_id = x.id => p.params = y.params
    BY <1>2, <1>3, <1>4, <1>5, <1>7, <2>1 DEF RequestsAgree
  <2>3. client.state = "up" =>
          \A x \in ForwardedSubscribes' \cup Accepted' :
            PendingFor(pending_subscribes, x.id) = PendingFor(client.asked, x.id)
    BY <1>3, <1>7 DEF RequestsAgree
  <2> QED
    BY <1>2, <1>7, <1>9, <2>2, <2>3 DEF RequestsAgree
<1>14. IdsAreFresh'
  BY <1>2, <1>6, <1>8, <1>9 DEF IdsAreFresh
<1>15. SubscriptionsCarried'
  <2>1. \A r \in tracker.subscriptions : HeldByNode(r)'
    BY <1>2, <1>5, <1>7 DEF SubscriptionsCarried, HeldByNode
  <2>2. \A r \in tracker.subscriptions : r.client_sub_id # s
    BY <1>6 DEF TrackedSubs
  <2> QED
    BY <1>2, <1>5, <1>6, <1>8, <1>9, <2>1, <2>2 DEF SubscriptionsCarried
<1>16. KindsAgree'
  <2>1. (\A k \in client.known : k.sub # s) /\ (\A e \in Events : e.sub # s)
    BY <1>6 DEF KnownSubs, EventSubs
  <2> QED
    BY <1>2, <1>3, <1>5, <2>1 DEF KindsAgree
<1>17. TrackerMatches'
  BY <1>2, <1>9 DEF TrackerMatches
<1> QED
  BY <1>10, <1>11, <1>12, <1>13, <1>14, <1>15, <1>16, <1>17

LEMMA RejectsKept ==
  ASSUME CInv, SessionInv, Rejects
  PROVE  SessionInv'
<1> DEFINE m == Head(up.in)
           a == Response(m.id, NoSub)
<1>1. /\ up'.in = Tail(up.in) /\ up'.out = Append(up.out, a)
      /\ up'.subs = up.subs /\ up'.rejected = up.rejected \cup {m.id}
      /\ UNCHANGED <<stage, tracker, pending_subscribes, client, c2p, used>>
      /\ up.in # <<>> /\ m.type = "subscribe"
  BY DEF Rejects, UpstreamStep, loop_vars, CInv, ChannelsOK, UpstreamType
<1>2. Answers(m, a) /\ a.sub = NoSub
  BY <1>1, NodeAnswers DEF Response
<1> HIDE DEF m, a
<1> USE DEF Answers
<1>3. NoSub \notin AcceptedSubs
  BY DEF AcceptedSubs, Accepted
<1>4. /\ ForwardedSubscribes = ForwardedSubscribes' \cup {m}
      /\ ForwardedUnsubscribes' = ForwardedUnsubscribes
      /\ Accepted' = Accepted /\ OneSubEach(up.out)'
  BY <1>1, <1>2, <1>3
<1>5. /\ LiveIds' = LiveIds /\ LiveSubs' = LiveSubs /\ AcceptedSubs' = AcceptedSubs
      /\ RemovedSubs' = RemovedSubs /\ EventSubs' = EventSubs
      /\ KnownSubs' = KnownSubs /\ LeavingSubs' = LeavingSubs /\ AskedIds' = AskedIds
  BY <1>1, <1>2, <1>4, QueueSame DEF LiveIds, LiveSubs, AcceptedSubs, RemovedSubs, EventSubs,
     KnownSubs, LeavingSubs, AskedIds
<1> USE LoopSame, QueueSame DEF SessionInv
<1>6. Numbered'
  BY <1>1, <1>2, <1>5 DEF Numbered
<1>7. OneMessageEach'
  BY <1>1, <1>2, <1>4 DEF OneMessageEach
<1>8. OneEntryEach'
  BY <1>1, <1>5 DEF OneEntryEach
<1>9. RequestsAgree'
  BY <1>1, <1>4, <1>5 DEF RequestsAgree
<1>10. IdsAreFresh'
  BY <1>1, <1>5 DEF IdsAreFresh
<1>11. SubscriptionsCarried'
  <2>1. \A r \in tracker.subscriptions : HeldByNode(r)'
    BY <1>1, <1>4 DEF SubscriptionsCarried, HeldByNode
  <2> QED
    BY <1>1, <1>5, <2>1 DEF SubscriptionsCarried
<1>12. KindsAgree'
  BY <1>1, <1>2 DEF KindsAgree
<1>13. TrackerMatches'
  BY <1>1, <1>5 DEF TrackerMatches
<1> QED
  BY <1>6, <1>7, <1>8, <1>9, <1>10, <1>11, <1>12, <1>13

LEMMA UnsubscribedKept ==
  ASSUME CInv, SessionInv, Unsubscribed
  PROVE  SessionInv'
<1> DEFINE m == Head(up.in)
           a == Response(m.id, NoSub)
<1>1. /\ up'.in = Tail(up.in) /\ up'.out = Append(up.out, a)
      /\ up'.subs = {x \in up.subs : x.sub # m.sub} /\ up'.rejected = up.rejected
      /\ UNCHANGED <<stage, tracker, pending_subscribes, client, c2p, used>>
      /\ up.in # <<>> /\ m.type = "unsubscribe"
  BY DEF Unsubscribed, UpstreamStep, loop_vars, CInv, ChannelsOK, UpstreamType
<1>2. Answers(m, a) /\ a.sub = NoSub
  BY <1>1, NodeAnswers DEF Response
<1> HIDE DEF m, a
<1> USE DEF Answers
<1>3. NoSub \notin AcceptedSubs
  BY DEF AcceptedSubs, Accepted
<1>4. /\ ForwardedSubscribes' = ForwardedSubscribes
      /\ ForwardedUnsubscribes = ForwardedUnsubscribes' \cup {m}
      /\ Accepted' = Accepted /\ OneSubEach(up.out)'
  BY <1>1, <1>2, <1>3
<1>5. /\ LiveIds' \subseteq LiveIds /\ LiveSubs' \subseteq LiveSubs
      /\ AcceptedSubs' = AcceptedSubs
      /\ RemovedSubs = RemovedSubs' \cup {m.sub} /\ EventSubs' = EventSubs
      /\ KnownSubs' = KnownSubs /\ LeavingSubs' = LeavingSubs /\ AskedIds' = AskedIds
  BY <1>1, <1>2, <1>4, QueueSame DEF LiveIds, LiveSubs, AcceptedSubs, RemovedSubs, EventSubs,
     KnownSubs, LeavingSubs, AskedIds
<1> USE LoopSame, QueueSame DEF SessionInv
<1>6. Numbered'
  BY <1>1, <1>2, <1>5 DEF Numbered
<1>7. OneMessageEach'
  BY <1>1, <1>2, <1>4 DEF OneMessageEach
<1>8. OneEntryEach'
  BY <1>1, <1>5 DEF OneEntryEach
<1>9. RequestsAgree'
  <2>1. \A x \in Accepted : x.sub # m.sub
    BY <1>5 DEF IdsAreFresh, AcceptedSubs
  <2>2. \A x \in Accepted' : \E y \in up'.subs :
          /\ y.sub = x.sub /\ y.id = x.id
          /\ \A p \in pending_subscribes' : p.rpc_id = x.id => p.params = y.params
    BY <1>1, <1>4, <2>1 DEF RequestsAgree
  <2> QED
    BY <1>1, <1>4, <1>5, <2>2 DEF RequestsAgree
<1>10. IdsAreFresh'
  BY <1>1, <1>5 DEF IdsAreFresh
<1>11. SubscriptionsCarried'
  <2>1. \A x \in up.subs : x.sub = m.sub => x.id \notin TrackedIds
    BY <1>5 DEF SubscriptionsCarried
  <2>2. \A r \in tracker.subscriptions, x \in up.subs : x.id = r.rpc_id => x \in up'.subs
    BY <1>1, <2>1 DEF TrackedIds
  <2>3. \A r \in tracker.subscriptions : HeldByNode(r)'
    BY <1>1, <1>4, <2>2 DEF SubscriptionsCarried, HeldByNode
  <2> QED
    BY <1>1, <1>5, <2>3 DEF SubscriptionsCarried
<1>12. KindsAgree'
  BY <1>1, <1>2 DEF KindsAgree
<1>13. TrackerMatches'
  BY <1>1, <1>5 DEF TrackerMatches
<1> QED
  BY <1>6, <1>7, <1>8, <1>9, <1>10, <1>11, <1>12, <1>13

LEMMA NotifiesKept ==
  ASSUME CInv, SessionInv, Notifies
  PROVE  SessionInv'
<1>1. PICK z \in up.subs :
        UpstreamStep([up EXCEPT !.out = Append(@, Notification(z.sub, z.params))])
  BY DEF Notifies
<1> DEFINE e == Notification(z.sub, z.params)
<1>2. /\ up'.in = up.in /\ up'.out = Append(up.out, e)
      /\ up'.subs = up.subs /\ up'.rejected = up.rejected
      /\ UNCHANGED <<stage, tracker, pending_subscribes, client, c2p, used>>
  BY <1>1 DEF Notifies, UpstreamStep, loop_vars, CInv, ChannelsOK, UpstreamType
<1>3. e \in ToClient /\ e.type = "notification" /\ e.sub = z.sub /\ e.params = z.params
  <2>1. z.sub \in SubId /\ z.params \in Params
    BY DEF CInv, ChannelsOK, UpstreamType
  <2>2. e \in {Notification(s, p) : s \in SubId, p \in Params}
    BY <2>1
  <2>3. e.type = "notification" /\ e.sub = z.sub /\ e.params = z.params
    BY DEF Notification
  <2> QED
    BY <2>2, <2>3 DEF ToClient
<1> HIDE DEF e
<1>4. /\ Events' = Events \cup {e}
      /\ AnsweredIds' = AnsweredIds /\ Accepted' = Accepted
      /\ OneIdEach(up.out) => OneIdEach(up.out)'
      /\ OneSubEach(up.out) => OneSubEach(up.out)'
  BY <1>2, <1>3, AnswersGrow
<1>5. /\ ForwardedSubscribes' = ForwardedSubscribes /\ ForwardedIds' = ForwardedIds
      /\ ForwardedUnsubscribes' = ForwardedUnsubscribes
      /\ OneIdEach(up.in) => OneIdEach(up.in)'
  BY <1>2, NodeQueueSame
<1>6. /\ LiveIds' = LiveIds /\ LiveSubs' = LiveSubs /\ AcceptedSubs' = AcceptedSubs
      /\ RemovedSubs' = RemovedSubs /\ EventSubs' \subseteq EventSubs \cup LiveSubs
      /\ KnownSubs' = KnownSubs /\ LeavingSubs' = LeavingSubs /\ AskedIds' = AskedIds
  BY <1>2, <1>3, <1>4, <1>5, QueueSame DEF LiveIds, LiveSubs, AcceptedSubs, RemovedSubs,
     EventSubs, KnownSubs, LeavingSubs, AskedIds
<1> USE LoopSame, QueueSame DEF SessionInv
<1>7. Numbered'
  BY <1>2, <1>4, <1>5, <1>6 DEF Numbered
<1>8. OneMessageEach'
  BY <1>2, <1>4, <1>5 DEF OneMessageEach
<1>9. OneEntryEach'
  BY <1>2, <1>6 DEF OneEntryEach
<1>10. RequestsAgree'
  BY <1>2, <1>4, <1>5, <1>6 DEF RequestsAgree
<1>11. IdsAreFresh'
  BY <1>2, <1>6 DEF IdsAreFresh
<1>12. SubscriptionsCarried'
  BY <1>2, <1>5, <1>6 DEF SubscriptionsCarried, HeldByNode
<1>13. KindsAgree'
  BY <1>2, <1>3, <1>4 DEF KindsAgree, OneEntryEach
<1>14. TrackerMatches'
  BY <1>2, <1>6 DEF TrackerMatches
<1> QED
  BY <1>7, <1>8, <1>9, <1>10, <1>11, <1>12, <1>13, <1>14

LEMMA NodeEndsKept ==
  ASSUME CInv, SessionInv, UpstreamCloses \/ UpstreamDies
  PROVE  SessionInv'
<1>1. /\ up'.in = up.in /\ up'.subs = up.subs /\ up'.rejected = up.rejected
      /\ up'.out = up.out \/ up'.out = Append(up.out, Close)
      /\ UNCHANGED <<stage, tracker, pending_subscribes, client, c2p, used>>
  BY DEF UpstreamCloses, UpstreamDies, UpstreamStep, loop_vars, CInv, ChannelsOK, UpstreamType
<1>2. Close \in ToClient /\ Close.type = "close"
  BY DEF ToClient, Close
<1>3. /\ Events' = Events /\ AnsweredIds' = AnsweredIds /\ Accepted' = Accepted
      /\ OneIdEach(up.out) => OneIdEach(up.out)'
      /\ OneSubEach(up.out) => OneSubEach(up.out)'
  <2>1. CASE up'.out = up.out
    BY <2>1, AnswersSame
  <2>2. CASE up'.out = Append(up.out, Close)
    BY <1>2, <2>2, AnswersGrow
  <2> QED
    BY <1>1, <2>1, <2>2
<1>4. SameMessages
  BY <1>1, <1>3, QueueSame, NodeQueueSame DEF SameMessages, SessionInv, OneMessageEach
<1>5. SameRequests
  BY <1>1 DEF SameRequests, SessionInv, Numbered
<1> QED
  BY <1>4, <1>5, Unaffected

(***************************************************************************)
(* The client leaves.                                                      *)
(***************************************************************************)
LEMMA LeavingKept ==
  ASSUME CInv, SessionInv, ClientCloses \/ ClientVanishes
  PROVE  SessionInv'
<1>1. c2p \in Seq(ToUpstream \cup {Close}) /\ client \in ClientType
  BY DEF CInv, ChannelsOK, SessionInv, Numbered
<1>2. /\ UNCHANGED <<stage, tracker, pending_subscribes, up, used>>
      /\ client.state = "up"
      /\ \E to \in {"closing", "gone"} : client' = [client EXCEPT !.state = to]
  BY DEF ClientCloses, ClientVanishes, ClientStep, loop_vars
<1>3. c2p' = c2p \/ c2p' = Append(c2p, Close)
  <2>1. CASE ClientCloses
    <3>1. c2p' = c2p \o <<Close>>
      BY <2>1 DEF ClientCloses, ClientStep
    <3> QED
      BY <1>1, <3>1, AppendIsConcat
  <2>2. CASE ClientVanishes
    <3>1. c2p' = c2p \o <<>>
      BY <2>2 DEF ClientVanishes, ClientStep
    <3> QED
      BY <1>1, <3>1, ConcatEmptySeq
  <2> QED
    BY <2>1, <2>2
<1>4. /\ QueuedSubscribes' = QueuedSubscribes
      /\ QueuedUnsubscribes' = QueuedUnsubscribes
      /\ QueuedIds' = QueuedIds
      /\ OneIdEach(c2p) => OneIdEach(c2p')
  BY <1>3, QueueGrows, QueueSame DEF Close
<1>5. SameMessages
  BY <1>2, <1>4, NodeSame DEF SameMessages, SessionInv, OneMessageEach
<1>6. SameRequests
  BY <1>1, <1>2 DEF SameRequests, ClientType
<1> QED
  BY <1>5, <1>6, Unaffected

(***************************************************************************)
(* The upgrade, the signals, and the start and the failure of a            *)
(* reconnection.                                                           *)
(***************************************************************************)
LEMMA OthersKept ==
  ASSUME CInv, SessionInv,
         \/ RefuseUpgrade \/ TakeReconnect \/ ReconnectFails
         \/ \E n \in EL : Upgrade(n) \/ Signal(n)
         \/ UNCHANGED cvars
  PROVE  SessionInv'
<1>1. /\ tracker'.subscriptions = tracker.subscriptions
      /\ tracker'.upstream_to_client_id \subseteq tracker.upstream_to_client_id
      /\ UNCHANGED <<pending_subscribes, up, client, c2p, used>>
      /\ stage' \in {"new", "initial"} => stage \in {"new", "initial"}
  BY DEF RefuseUpgrade, TakeReconnect, ReconnectFails, Upgrade, Signal, cvars, loop_vars,
         clear_upstream_mappings, CInv, TrackingOK, FiniteTracker, Tracker
<1>2. SameMessages
  BY <1>1, QueueSame, NodeSame DEF SameMessages, SessionInv, OneMessageEach
<1>3. SameRequests
  BY <1>1 DEF SameRequests, SessionInv, Numbered
<1> QED
  BY <1>2, <1>3, Unaffected

LEMMA SessionNext ==
  ASSUME UniqueIds, ~ReuseIds
  PROVE  CInv /\ SessionInv /\ [CNext]_cvars => SessionInv'
<1> SUFFICES ASSUME CInv, SessionInv, [CNext]_cvars PROVE SessionInv'
  OBVIOUS
<1>1. CASE Client
  BY <1>1, SubscribingKept, UnsubscribingKept, LeavingKept DEF Client
<1>2. CASE HandleClientMessage
  <2>1. Head(c2p).type \in {"subscribe", "unsubscribe", "close"}
    BY <1>2 DEF HandleClientMessage
  <2> QED
    BY <1>2, <2>1, ForwardSubscribeKept, ForwardUnsubscribeKept, TakeCloseKept
<1>3. CASE HandleUpstreamMessage
  BY <1>3, HandleUpstreamMessageKept
<1>4. CASE Reconnected
  BY <1>4, ReconnectedKept
<1>5. CASE \E connected \in BOOLEAN : InitialConnect(connected)
  BY <1>5, InitialConnectKept
<1>6. CASE UpstreamNode
  BY <1>6, AcceptsKept, RejectsKept, UnsubscribedKept, NotifiesKept, NodeEndsKept
     DEF UpstreamNode
<1>7. CASE \/ RefuseUpgrade \/ TakeReconnect \/ ReconnectFails
           \/ \E n \in EL : Upgrade(n) \/ Signal(n)
           \/ UNCHANGED cvars
  BY <1>7, OthersKept
<1> QED
  BY <1>1, <1>2, <1>3, <1>4, <1>5, <1>6, <1>7 DEF CNext, Session, ProxyLoop

LEMMA SessionHolds ==
  ASSUME UniqueIds, ~ReuseIds
  PROVE  CSpec => [](CInv /\ SessionInv)
<1>1. CInit => CInv /\ SessionInv
  BY CInvInit, SessionInit
<1>2. CInv /\ SessionInv /\ [CNext]_cvars => (CInv /\ SessionInv)'
  BY CInvNext, SessionNext
<1> QED
  BY <1>1, <1>2, PTL DEF CSpec

(***************************************************************************)
(* What a reconnection replays is what the client believes it has, with    *)
(* the ids it was given, whatever was lost, rejected or answered twice.    *)
(***************************************************************************)
THEOREM TrackerIsTheClients ==
  ASSUME UniqueIds, ~ReuseIds
  PROVE  CSpec => []TrackerMatchesClient
<1>1. SessionInv => TrackerMatchesClient
  <2>1. Leaving = LeavingSubs
    BY DEF Leaving, LeavingSubs, QueuedUnsubscribes
  <2> QED
    BY <2>1 DEF SessionInv, TrackerMatches, TrackerMatchesClient
<1> QED
  BY <1>1, SessionHolds, PTL

(***************************************************************************)
(* No reconnection forgets a subscription: the node of the moment has it,  *)
(* has refused it, or has the request for it.                              *)
(***************************************************************************)
THEOREM NothingForgotten ==
  ASSUME UniqueIds, ~ReuseIds
  PROVE  CSpec => []NoSubscriptionForgotten
<1>1. CInv /\ SessionInv => NoSubscriptionForgotten
  <2> SUFFICES ASSUME CInv, SessionInv, NEW r \in tracker.subscriptions PROVE Carried(r)
    BY DEF NoSubscriptionForgotten
  <2>1. HeldByNode(r)
    BY DEF SessionInv, SubscriptionsCarried
  <2>2. ASSUME NEW m \in ForwardedSubscribes PROVE m = Subscribe(m.id, m.params)
    <3>1. m \in ToUpstream /\ m.type = "subscribe"
      BY DEF ForwardedSubscribes, CInv, ChannelsOK, UpstreamType, ToSet
    <3>2. m \notin {Unsubscribe(i, s) : i \in RpcId, s \in SubId}
      BY <3>1 DEF Unsubscribe
    <3>3. PICK i \in RpcId, p \in Params : m = Subscribe(i, p)
      BY <3>1, <3>2 DEF ToUpstream
    <3> QED
      BY <3>3 DEF Subscribe
  <2> QED
    BY <2>1, <2>2 DEF HeldByNode, Carried, ForwardedSubscribes
<1> QED
  BY <1>1, SessionHolds, PTL

(***************************************************************************)
(* An event that reaches the client under an id it was given is an event   *)
(* of that subscription.                                                   *)
(***************************************************************************)
THEOREM EventsNotMixedUp ==
  ASSUME UniqueIds, ~ReuseIds
  PROVE  CSpec => []EventsAreOfTheirSubscription
<1>1. CInv /\ SessionInv => EventsAreOfTheirSubscription
  <2> SUFFICES ASSUME CInv, SessionInv, up.out # <<>>, Head(up.out).type = "notification",
                      NEW k \in client.known, k.sub = Outgoing(Head(up.out)).sub
               PROVE  k.params = Outgoing(Head(up.out)).params
    BY DEF EventsAreOfTheirSubscription
  <2> DEFINE e == Head(up.out)
  <2>1. up.out \in Seq(ToClient)
    BY DEF CInv, ChannelsOK, UpstreamType
  <2>2. e \in ToClient /\ e \in Events
    BY <2>1, TailSet, HeadTailProperties DEF Events
  <2>3. PICK s \in SubId, p \in Params : e = Notification(s, p)
    <3>1. e \notin {Response(i, t) : i \in RpcId, t \in SubId \cup {NoSub}} /\ e # Close
      BY DEF Response, Close
    <3> QED
      BY <2>2, <3>1 DEF ToClient
  <2>4. Translated(tracker, s) = s
    BY DEF SessionInv, OneEntryEach, Translated
  <2>5. Outgoing(e).sub = e.sub /\ Outgoing(e).params = e.params
    BY <2>3, <2>4 DEF Outgoing, Notification
  <2> QED
    BY <2>2, <2>5 DEF SessionInv, KindsAgree
<1> QED
  BY <1>1, SessionHolds, PTL

(***************************************************************************)
(* The same under the upgrade handler and the health task, whatever nodes  *)
(* it chooses and whenever it signals.                                     *)
(***************************************************************************)
THEOREM SubscriptionsSurviveSwitching ==
  ASSUME UniqueIds, ~ReuseIds
  PROVE  WSpec => [](TrackerMatchesClient /\ NoSubscriptionForgotten
                       /\ EventsAreOfTheirSubscription)
BY ConnectionIsDriven, TrackerIsTheClients, NothingForgotten, EventsNotMixedUp, PTL
   DEF IsWsConnection

-----------------------------------------------------------------------------
(***************************************************************************)
(* The gauge of the subscriptions.  A step on the gauge is a step of the   *)
(* connection, so what is known of the connection holds beside it.         *)
(***************************************************************************)
LEMMA GaugeSteps == [GNext]_gvars => [CNext]_cvars
BY DEF GNext, gvars, CountedClientMessage, CountedUpstreamMessage, Uncounted, CNext,
       Session, ProxyLoop

(***************************************************************************)
(* Why each eth_unsubscribe removes one subscription, and each answer that *)
(* is tracked adds one: what the client gives up is tracked, it gives up   *)
(* nothing twice, and no two subscriptions have one id.                    *)
(***************************************************************************)
OneByOne ==
  /\ LeavingSubs \subseteq TrackedSubs
  /\ \A m, n \in QueuedUnsubscribes : m.sub = n.sub => m = n
  /\ \A r, t \in tracker.subscriptions : r.client_sub_id = t.client_sub_id => r = t

GaugeInv == OneByOne /\ GaugeFollowsTracker

LEMMA OneByOneSame ==
  ASSUME OneByOne, tracker'.subscriptions = tracker.subscriptions,
         QueuedUnsubscribes' = QueuedUnsubscribes
  PROVE  OneByOne'
BY DEF OneByOne, LeavingSubs, TrackedSubs

LEMMA CountsNothing ==
  ASSUME CInv, GaugeFollowsTracker, Counts(0), tracker'.subscriptions = tracker.subscriptions
  PROVE  GaugeFollowsTracker'
<1>1. ws_subscriptions + 0 = ws_subscriptions
  BY FS_CardinalityType DEF CInv, TrackingOK, FiniteTracker, GaugeFollowsTracker
<1> QED
  BY <1>1 DEF Counts, GaugeFollowsTracker

LEMMA GivenUpOnce ==
  ASSUME CInv, SessionInv, OneByOne, ~ReuseIds, NEW id \in RpcId, NEW s \in SubId,
         ClientUnsubscribes(id, s)
  PROVE  OneByOne'
<1> DEFINE m == Unsubscribe(id, s)
           rest == {k \in client.known : k.sub # s}
<1>1. m \in ToUpstream /\ m.type = "unsubscribe" /\ m.sub = s
  BY DEF Unsubscribe, ToUpstream
<1>2. Asks(id, NoParams, rest, m) /\ s \in KnownSubs
  BY DEF ClientUnsubscribes, KnownSubs
<1>3. client.state = "up" /\ c2p' = Append(c2p, m) /\ UNCHANGED tracker
  BY <1>1, <1>2, Asking DEF loop_vars
<1>4. s \in TrackedSubs /\ s \notin LeavingSubs
  BY <1>2, <1>3 DEF SessionInv, TrackerMatches, KnownSubs, TrackedSubs
<1> HIDE DEF m
<1>5. QueuedUnsubscribes' = QueuedUnsubscribes \cup {m}
  BY <1>1, <1>3, QueueGrows
<1>6. \A n \in QueuedUnsubscribes : n.sub \in LeavingSubs
  BY DEF LeavingSubs
<1>7. LeavingSubs' = LeavingSubs \cup {s} /\ TrackedSubs' = TrackedSubs
  BY <1>1, <1>3, <1>5 DEF LeavingSubs, TrackedSubs
<1> QED
  BY <1>1, <1>3, <1>4, <1>5, <1>6, <1>7 DEF OneByOne

LEMMA RemovedOnce ==
  ASSUME CInv, SessionInv, OneByOne, HandleClientMessage, Head(c2p).type = "unsubscribe"
  PROVE  /\ OneByOne'
         /\ Cardinality(tracker'.subscriptions) = Cardinality(tracker.subscriptions) - 1
<1> DEFINE m == Head(c2p)
           T == tracker.subscriptions
<1>1. c2p # <<>> /\ c2p' = Tail(c2p) /\ tracker' = remove_subscription(tracker, m.sub)
  BY DEF HandleClientMessage
<1>2. /\ m.type = "unsubscribe"
      /\ QueuedUnsubscribes = QueuedUnsubscribes' \cup {m}
      /\ QueuedIds = QueuedIds' \cup {m.id}
      /\ m.id \notin QueuedIds'
  BY <1>1, QueueShrinks DEF SessionInv, OneMessageEach
<1> HIDE DEF m
<1>3. \A n \in QueuedUnsubscribes' : n \in QueuedUnsubscribes /\ n.sub # m.sub
  <2>1. \A n \in QueuedUnsubscribes' : n.id \in QueuedIds'
    BY DEF QueuedIds
  <2> QED
    BY <1>2, <2>1 DEF OneByOne
<1>4. m.sub \in LeavingSubs
  BY <1>2 DEF LeavingSubs
<1>5. PICK r \in T : r.client_sub_id = m.sub
  BY <1>4 DEF OneByOne, TrackedSubs
<1>6. tracker'.subscriptions = T \ {r}
  <2>1. tracker'.subscriptions = {x \in T : x.client_sub_id # m.sub}
    BY <1>1 DEF remove_subscription
  <2> QED
    BY <1>5, <2>1 DEF OneByOne
<1>7. IsFiniteSet(T)
  BY DEF CInv, TrackingOK, FiniteTracker
<1>8. Cardinality(T \ {r}) = Cardinality(T) - 1
  BY <1>5, <1>7, FS_RemoveElement
<1>9. LeavingSubs' \subseteq TrackedSubs'
  <2>1. ASSUME NEW n \in QueuedUnsubscribes' PROVE n.sub \in TrackedSubs'
    <3>1. n.sub \in LeavingSubs /\ n.sub # m.sub
      BY <1>3 DEF LeavingSubs
    <3>2. PICK x \in T : x.client_sub_id = n.sub
      BY <3>1 DEF OneByOne, TrackedSubs
    <3>3. x \in tracker'.subscriptions
      BY <1>5, <1>6, <3>1, <3>2
    <3> QED
      BY <3>2, <3>3 DEF TrackedSubs
  <2> QED
    BY <2>1 DEF LeavingSubs
<1> QED
  BY <1>3, <1>6, <1>8, <1>9 DEF OneByOne

LEMMA AddedOnce ==
  ASSUME CInv, SessionInv, OneByOne, HandleUpstreamMessage, NewlyTracked(Head(up.out))
  PROVE  /\ OneByOne'
         /\ Cardinality(tracker'.subscriptions) = Cardinality(tracker.subscriptions) + 1
<1> DEFINE m == Head(up.out)
           p == CHOOSE x \in PendingFor(pending_subscribes, m.id) : TRUE
           T == tracker.subscriptions
           new == [client_sub_id |-> m.sub, rpc_id |-> m.id, params |-> p.params]
<1>1. m.type = "response" /\ m.sub # NoSub /\ PendingFor(pending_subscribes, m.id) # {}
  BY DEF NewlyTracked
<1>2. Settled(m)
  BY <1>1, ResponseSettled
<1>3. /\ m.sub \in AcceptedSubs /\ c2p' = c2p
      /\ tracker' = track_subscribe(tracker, p.params, m.id, m.sub)
  BY <1>1, <1>2 DEF Settled, Track
<1>4. m.sub \notin TrackedSubs
  BY <1>3 DEF SessionInv, IdsAreFresh
<1>5. T = {r \in T : r.client_sub_id # m.sub}
  BY <1>4 DEF TrackedSubs
<1>6. tracker'.subscriptions = {r \in T : r.client_sub_id # m.sub} \cup {new}
  BY <1>3 DEF track_subscribe, map_upstream_id, CInv, TrackingOK, FiniteTracker, Tracker
<1>7. new.client_sub_id = m.sub
  OBVIOUS
<1> HIDE DEF m, new
<1>8. new \notin T /\ IsFiniteSet(T) /\ tracker'.subscriptions = T \cup {new}
  BY <1>5, <1>6, <1>7 DEF CInv, TrackingOK, FiniteTracker
<1>9. Cardinality(T \cup {new}) = Cardinality(T) + 1
  BY <1>8, FS_AddElement
<1>10. LeavingSubs' = LeavingSubs /\ QueuedUnsubscribes' = QueuedUnsubscribes
  BY <1>3, QueueSame DEF LeavingSubs
<1>11. TrackedSubs \subseteq TrackedSubs'
  BY <1>8 DEF TrackedSubs
<1>12. \A r \in T : r.client_sub_id # m.sub
  BY <1>4 DEF TrackedSubs
<1> QED
  BY <1>7, <1>8, <1>9, <1>10, <1>11, <1>12 DEF OneByOne

LEMMA GaugeNext ==
  ASSUME ~ReuseIds
  PROVE  CInv /\ SessionInv /\ GaugeInv /\ [GNext]_gvars => GaugeInv'
<1> SUFFICES ASSUME CInv, SessionInv, GaugeInv, [GNext]_gvars PROVE GaugeInv'
  OBVIOUS
<1>1. CASE UNCHANGED gvars
  <2>1. UNCHANGED <<tracker, c2p, ws_subscriptions>>
    BY <1>1 DEF gvars, cvars, loop_vars
  <2> QED
    BY <2>1, OneByOneSame, QueueSame DEF GaugeInv, GaugeFollowsTracker
<1>2. CASE CountedClientMessage
  <2>1. HandleClientMessage /\ c2p # <<>> /\ c2p' = Tail(c2p)
    BY <1>2 DEF CountedClientMessage, HandleClientMessage
  <2>2. CASE Head(c2p).type = "unsubscribe"
    BY <1>2, <2>1, <2>2, RemovedOnce
       DEF GaugeInv, GaugeFollowsTracker, CountedClientMessage, Counts
  <2>3. CASE Head(c2p).type # "unsubscribe"
    <3>1. Head(c2p).type \in {"subscribe", "close"} /\ UNCHANGED tracker
      BY <2>1, <2>3 DEF HandleClientMessage
    <3>2. QueuedUnsubscribes' = QueuedUnsubscribes
      BY <2>1, <3>1, QueueShrinks DEF SessionInv, OneMessageEach
    <3> QED
      BY <1>2, <2>3, <3>1, <3>2, OneByOneSame, CountsNothing
         DEF GaugeInv, GaugeFollowsTracker, CountedClientMessage, Counts
  <2> QED
    BY <2>2, <2>3
<1>3. CASE CountedUpstreamMessage
  <2>1. HandleUpstreamMessage
    BY <1>3 DEF CountedUpstreamMessage
  <2>2. CASE NewlyTracked(Head(up.out))
    BY <1>3, <2>1, <2>2, AddedOnce
       DEF GaugeInv, GaugeFollowsTracker, CountedUpstreamMessage, Counts
  <2>3. CASE ~NewlyTracked(Head(up.out))
    <3>1. UNCHANGED <<tracker, c2p>>
      BY <2>1, <2>3 DEF HandleUpstreamMessage, Track, NewlyTracked
    <3> QED
      BY <1>3, <2>3, <3>1, OneByOneSame, QueueSame, CountsNothing
         DEF GaugeInv, GaugeFollowsTracker, CountedUpstreamMessage, Counts
  <2> QED
    BY <2>2, <2>3
<1>4. CASE Uncounted /\ Counts(0)
  <2>1. tracker'.subscriptions = tracker.subscriptions /\ OneByOne'
    <3>1. ASSUME NEW id \in RpcId, NEW s \in SubId, ClientUnsubscribes(id, s)
          PROVE  tracker' = tracker /\ OneByOne'
      <4>1. tracker' = tracker
        BY <3>1 DEF ClientUnsubscribes, Asks, ClientStep, loop_vars
      <4> QED
        BY <3>1, <4>1, GivenUpOnce DEF GaugeInv
    <3>2. ASSUME NEW id \in RpcId, NEW p \in Params, ClientSubscribes(id, p)
          PROVE  tracker' = tracker /\ OneByOne'
      <4>1. Subscribe(id, p) \in ToUpstream /\ Subscribe(id, p).type = "subscribe"
        BY DEF ToUpstream, Subscribe
      <4>2. c2p' = Append(c2p, Subscribe(id, p)) /\ tracker' = tracker
        BY <3>2, <4>1, Asking DEF ClientSubscribes, loop_vars
      <4> QED
        BY <4>1, <4>2, QueueGrows, OneByOneSame DEF GaugeInv
    <3>3. CASE ClientCloses \/ ClientVanishes
      <4>1. tracker' = tracker /\ (c2p' = c2p \o <<Close>> \/ c2p' = c2p \o <<>>)
        BY <3>3 DEF ClientCloses, ClientVanishes, ClientStep, loop_vars
      <4>2. c2p' = Append(c2p, Close) \/ c2p' = c2p
        BY <4>1, AppendIsConcat, ConcatEmptySeq DEF CInv, ChannelsOK
      <4>3. QueuedUnsubscribes' = QueuedUnsubscribes
        BY <4>2, QueueGrows, QueueSame DEF Close
      <4> QED
        BY <4>1, <4>3, OneByOneSame DEF GaugeInv
    <3>4. CASE tracker'.subscriptions = tracker.subscriptions /\ c2p' = c2p
      BY <3>4, OneByOneSame, QueueSame DEF GaugeInv
    <3>5. CASE TakeReconnect \/ Reconnected \/ ReconnectFails \/ RefuseUpgrade
      BY <3>4, <3>5 DEF TakeReconnect, Reconnected, ReconnectFails, RefuseUpgrade,
         clear_upstream_mappings, CInv, TrackingOK, FiniteTracker, Tracker
    <3>6. CASE \/ \E n \in EL : Upgrade(n) \/ Signal(n)
               \/ \E connected \in BOOLEAN : InitialConnect(connected)
      BY <3>4, <3>6 DEF Upgrade, Signal, InitialConnect, loop_vars
    <3>7. CASE UpstreamNode
      BY <3>4, <3>7, UpstreamKeepsNode DEF loop_vars
    <3> QED
      BY <1>4, <3>1, <3>2, <3>3, <3>5, <3>6, <3>7 DEF Uncounted, Client
  <2> QED
    BY <1>4, <2>1, CountsNothing DEF GaugeInv, GaugeFollowsTracker, Counts
<1> QED
  BY <1>1, <1>2, <1>3, <1>4 DEF GNext

(***************************************************************************)
(* The gauge, although it is only counted up and down beside the tracker,  *)
(* is the number of subscriptions the tracker holds, and so of those the   *)
(* client has, through every reconnection.                                 *)
(***************************************************************************)
THEOREM GaugeIsRight ==
  ASSUME UniqueIds, ~ReuseIds
  PROVE  GSpec => []GaugeFollowsTracker
<1>1. GInit => CInit /\ GaugeInv
  <2> SUFFICES ASSUME GInit PROVE CInit /\ GaugeInv
    OBVIOUS
  <2>1. c2p = <<>> /\ tracker.subscriptions = {} /\ ws_subscriptions = 0 /\ CInit
    BY DEF GInit, CInit, NewTracker
  <2>2. QueuedUnsubscribes = {}
    BY <2>1 DEF QueuedUnsubscribes, ToSet
  <2> QED
    BY <2>1, <2>2, FS_EmptySet
       DEF GaugeInv, OneByOne, LeavingSubs, TrackedSubs, GaugeFollowsTracker
<1>2. CInit => CInv /\ SessionInv
  BY CInvInit, SessionInit
<1>3. CInv /\ SessionInv /\ [GNext]_gvars => (CInv /\ SessionInv)'
  BY CInvNext, SessionNext, GaugeSteps
<1>4. CInv /\ SessionInv /\ GaugeInv /\ [GNext]_gvars => GaugeInv'
  BY GaugeNext
<1>5. GaugeInv => GaugeFollowsTracker
  BY DEF GaugeInv
<1> QED
  BY <1>1, <1>2, <1>3, <1>4, <1>5, PTL DEF GSpec

-----------------------------------------------------------------------------
(***************************************************************************)
(* How a connection ends, whatever ids are used: a Close frame on its way  *)
(* to the loop is the client's, who has left.                              *)
(***************************************************************************)
CloseIsTheClients ==
  /\ client \in ClientType
  /\ client.state = "up" => Close \notin ToSet(c2p)

LEMMA ReceivedType ==
  ASSUME CInv, client \in ClientType, NEW m \in ToClient
  PROVE  Received(Outgoing(m)) \in ClientType /\ Received(Outgoing(m)).state = client.state
<1>1. CASE m.type # "response"
  <2>1. Outgoing(m).type # "response"
    <3>1. CASE m.type = "notification"
      <4>1. m \notin {Response(i, t) : i \in RpcId, t \in SubId \cup {NoSub}} /\ m # Close
        BY <3>1 DEF Response, Close
      <4>2. PICK s \in SubId, p \in Params : m = Notification(s, p)
        BY <4>1 DEF ToClient
      <4> QED
        BY <4>2 DEF Outgoing, Notification
    <3>2. CASE m.type # "notification"
      BY <1>1, <3>2 DEF Outgoing
    <3> QED
      BY <3>1, <3>2
  <2> QED
    BY <2>1 DEF Received
<1>2. CASE m.type = "response"
  <2> DEFINE answered == PendingFor(client.asked, m.id)
             told == IF m.sub = NoSub THEN {} ELSE {a \in answered : a.params # NoParams}
             new == {[sub |-> m.sub, params |-> a.params] : a \in told}
  <2>1. Received(Outgoing(m)) = [client EXCEPT !.asked = @ \ answered, !.known = @ \cup new]
    BY <1>2 DEF Outgoing, Received
  <2>2. m.sub \in SubId \cup {NoSub}
    BY <1>2, NodeMessages
  <2>3. new \in SUBSET [sub : SubId, params : Params]
    <3>1. \A a \in told : m.sub \in SubId /\ a.params \in Params
      BY <2>2 DEF ClientType, PendingFor
    <3> QED
      BY <3>1
  <2> DEFINE told_client == Received(Outgoing(m))
  <2> HIDE DEF answered, new
  <2>4. told_client = [client EXCEPT !.asked = @ \ answered, !.known = @ \cup new]
    BY <2>1
  <2> HIDE DEF told_client
  <2>5. /\ told_client.state = client.state /\ told_client.sent = client.sent
        /\ told_client.asked = client.asked \ answered
        /\ told_client.known = client.known \cup new
    BY <2>4 DEF ClientType
  <2>6. told_client \in ClientType
    BY <2>3, <2>4 DEF ClientType
  <2> QED
    BY <2>5, <2>6 DEF told_client
<1> QED
  BY <1>1, <1>2

LEMMA CloseIsTheClientsNext ==
  ASSUME CInv, CloseIsTheClients, [CNext]_cvars
  PROVE  CloseIsTheClients'
<1> USE DEF CloseIsTheClients
<1>1. c2p \in Seq(ToUpstream \cup {Close})
  BY DEF CInv, ChannelsOK
<1>2. ASSUME NEW id \in RpcId, NEW params \in Params \cup {NoParams},
             NEW known \in SUBSET client.known, NEW msg \in ToUpstream,
             Asks(id, params, known, msg)
      PROVE  CloseIsTheClients'
  <2>1. client' \in ClientType /\ client.state = "up"
    BY <1>2, AskingType
  <2>2. c2p' = c2p \o <<msg>>
    BY <1>2 DEF Asks, ClientStep
  <2>3. ToSet(c2p') = ToSet(c2p) \cup {msg}
    <3>1. c2p' = Append(c2p, msg)
      BY <1>1, <2>2, AppendIsConcat
    <3>2. msg \in ToUpstream \cup {Close}
      OBVIOUS
    <3> QED
      BY <1>1, <3>1, <3>2, AppendedSet
  <2>4. msg # Close
    BY DEF ToUpstream, Subscribe, Unsubscribe, Close
  <2> QED
    BY <2>1, <2>3, <2>4
<1>3. CASE Client
  <2>1. ASSUME NEW id \in RpcId, NEW p \in Params, ClientSubscribes(id, p)
        PROVE  CloseIsTheClients'
    <3>1. Subscribe(id, p) \in ToUpstream
      BY DEF ToUpstream
    <3> QED
      BY <1>2, <2>1, <3>1 DEF ClientSubscribes
  <2>2. ASSUME NEW id \in RpcId, NEW s \in SubId, ClientUnsubscribes(id, s)
        PROVE  CloseIsTheClients'
    <3>1. Unsubscribe(id, s) \in ToUpstream
      BY DEF ToUpstream
    <3> QED
      BY <1>2, <2>2, <3>1 DEF ClientUnsubscribes
  <2>3. CASE ClientCloses \/ ClientVanishes
    BY <2>3 DEF ClientCloses, ClientVanishes, ClientStep, ClientType
  <2> QED
    BY <1>3, <2>1, <2>2, <2>3 DEF Client
<1>4. CASE HandleClientMessage
  <2>1. UNCHANGED client /\ ToSet(c2p') \subseteq ToSet(c2p)
    BY <1>1, <1>4, TailSet DEF HandleClientMessage
  <2> QED
    BY <2>1
<1>5. CASE HandleUpstreamMessage
  <2>1. Head(up.out) \in ToClient
    BY <1>5, HeadTailProperties DEF HandleUpstreamMessage, CInv, ChannelsOK, UpstreamType
  <2>2. c2p' = c2p /\ (client' = client \/ client' = Received(Outgoing(Head(up.out))))
    BY <1>5 DEF HandleUpstreamMessage
  <2> QED
    BY <2>1, <2>2, ReceivedType
<1>6. CASE UNCHANGED <<client, c2p>>
  BY <1>6
<1>7. CASE \/ Reconnected \/ UpstreamNode
           \/ RefuseUpgrade \/ TakeReconnect \/ ReconnectFails
           \/ \E connected \in BOOLEAN : InitialConnect(connected)
           \/ \E n \in EL : Upgrade(n) \/ Signal(n)
  BY <1>6, <1>7, UpstreamKeepsNode DEF Reconnected, RefuseUpgrade, TakeReconnect,
     ReconnectFails, InitialConnect, Upgrade, Signal
<1> QED
  BY <1>3, <1>4, <1>5, <1>6, <1>7 DEF CNext, Session, ProxyLoop, cvars

(***************************************************************************)
(* Only a Close frame, from the client or from the upstream in use, or a   *)
(* message that cannot be sent to the client ends an open connection: no   *)
(* dead upstream, lost message or failed reconnection does.                *)
(***************************************************************************)
THEOREM ClosesExplained == CSpec => ClosesAreExplained
<1>1. CInit => CInv /\ CloseIsTheClients
  <2>1. CInit => client \in ClientType /\ ToSet(c2p) = {}
    BY DEF CInit, NewClient, ClientType, ToSet
  <2> QED
    BY <2>1, CInvInit DEF CloseIsTheClients
<1>2. CInv /\ CloseIsTheClients /\ [CNext]_cvars => (CInv /\ CloseIsTheClients)'
  BY CInvNext, CloseIsTheClientsNext
<1>3. CInv /\ CloseIsTheClients /\ [CNext]_cvars =>
        [stage' = "closed" /\ stage \in {"open", "connecting"} =>
           client.state # "up" \/ (up.out # <<>> /\ Head(up.out) = Close)]_cvars
  <2> SUFFICES ASSUME CInv, CloseIsTheClients, CNext,
                      stage' = "closed", stage \in {"open", "connecting"}
               PROVE  client.state # "up" \/ (up.out # <<>> /\ Head(up.out) = Close)
    OBVIOUS
  <2>1. CASE HandleClientMessage
    <3>1. c2p \in Seq(ToUpstream \cup {Close}) /\ c2p # <<>> /\ Head(c2p).type = "close"
      BY <2>1 DEF HandleClientMessage, CInv, ChannelsOK
    <3>2. Head(c2p) \in ToUpstream \cup {Close} /\ Head(c2p) \in ToSet(c2p)
      BY <3>1, TailSet, HeadTailProperties
    <3>3. Head(c2p) = Close
      BY <3>1, <3>2, ClientMessages
    <3> QED
      BY <3>2, <3>3 DEF CloseIsTheClients
  <2>2. CASE HandleUpstreamMessage
    BY <2>2 DEF HandleUpstreamMessage
  <2>3. CASE UpstreamNode
    BY <2>3, UpstreamKeepsNode DEF loop_vars
  <2>4. CASE Client
    BY <2>4 DEF Client, ClientSubscribes, ClientUnsubscribes, Asks, ClientCloses,
       ClientVanishes, ClientStep, loop_vars
  <2> QED
    BY <2>1, <2>2, <2>3, <2>4 DEF CNext, Session, ProxyLoop, InitialConnect, TakeReconnect,
       Reconnected, ReconnectFails, RefuseUpgrade, Upgrade, Signal, loop_vars
<1> QED
  BY <1>1, <1>2, <1>3, PTL DEF CSpec, ClosesAreExplained
=============================================================================
