------------------------------ MODULE WsConnection ----------------------------
(***************************************************************************)
(* One connection of the WebSocket proxy (src/src/proxy/ws.rs): its proxy  *)
(* loop, its client and the upstream it is connected to.  Which node it    *)
(* starts on and when it is told to reconnect to which node is left open   *)
(* here; WsProxy adds the health task that decides it.                     *)
(*                                                                         *)
(* The proxy loop is at `stage':                                           *)
(*   "new"        el_ws_handler has not selected a node yet                *)
(*   "refused"    no healthy node: 503                                     *)
(*   "initial"    awaiting the first connect_async                         *)
(*   "open"       in the select! of run_proxy_loop                         *)
(*   "connecting" in the reconnect branch, awaiting connect_async          *)
(*   "closed"     handle_websocket has returned                            *)
(***************************************************************************)
EXTENDS AppState, SubscriptionTracker, SequencesExt

CONSTANTS
  UniqueIds,     \* nodes never assign a subscription id twice (random ids)
  ReuseIds,      \* the client uses a request id again once it is answered
  MaxRequests,   \* bound: requests the client sends
  MaxOut         \* bound: messages of an upstream the loop has not handled

NoSub == "none"    \* a response without a subscription id
NoParams == "none"    \* a request that is not a subscription

ASSUME WsAssumption ==
  /\ RpcId \subseteq Nat
  /\ MaxRequests \in Nat
  /\ UniqueIds \in BOOLEAN
  /\ ReuseIds \in BOOLEAN
  /\ ~ReuseIds => 1 .. MaxRequests \subseteq RpcId
  /\ NoSub \notin SubId
  /\ NoParams \notin Params
  /\ MaxOut \in Nat \ {0}

VARIABLES
  stage,
  current_node_name,    \* shared by the loop and the health task
  old_node,             \* the local of the reconnect branch
  tracker,
  pending_subscribes,
  reconnect,            \* the mpsc channel of capacity 1, as a sequence
  up,                   \* the upstream of upstream_sender, and its channels
  client,               \* the client
  c2p,                  \* messages from the client the loop has not handled
  used                  \* the subscription ids assigned so far, if UniqueIds

loop_vars == <<stage, current_node_name, old_node, tracker, pending_subscribes>>
cvars == <<loop_vars, reconnect, up, client, c2p, used>>

-----------------------------------------------------------------------------
(***************************************************************************)
(* Messages                                                                *)
(***************************************************************************)
Subscribe(id, p) == [type |-> "subscribe", id |-> id, params |-> p]
Unsubscribe(id, s) == [type |-> "unsubscribe", id |-> id, sub |-> s]
Response(id, s) == [type |-> "response", id |-> id, sub |-> s]
Notification(s, p) == [type |-> "notification", sub |-> s, params |-> p]
Close == [type |-> "close"]

ToUpstream == {Subscribe(i, p) : i \in RpcId, p \in Params}
                \cup {Unsubscribe(i, s) : i \in RpcId, s \in SubId}
ToClient == {Response(i, s) : i \in RpcId, s \in SubId \cup {NoSub}}
              \cup {Notification(s, p) : s \in SubId, p \in Params}
              \cup {Close}

(***************************************************************************)
(* A fresh connection to node n: alive until its stream ends; `in' is what *)
(* it has not processed, `subs' its live subscriptions, `rejected' the     *)
(* requests it answered with an error, `out' what the loop has not taken.  *)
(***************************************************************************)
Upstream(n, in) ==
  [node |-> n, alive |-> n # NoNode, in |-> in, subs |-> {}, rejected |-> {}, out |-> <<>>]

(***************************************************************************)
(* The client: how many requests it has `sent', those not answered yet     *)
(* (`asked') and the subscriptions it knows by their ids.                  *)
(***************************************************************************)
NewClient == [state |-> "up", sent |-> 0, asked |-> {}, known |-> {}]

CInit ==
  /\ stage = "new"
  /\ current_node_name = NoNode
  /\ old_node = NoNode
  /\ tracker = NewTracker
  /\ pending_subscribes = {}
  /\ reconnect = <<>>
  /\ up = Upstream(NoNode, <<>>)
  /\ client = NewClient
  /\ c2p = <<>>
  /\ used = {}

-----------------------------------------------------------------------------
(***************************************************************************)
(* el_ws_handler: a node was selected, or none (503).                      *)
(***************************************************************************)
Upgrade(n) ==
  /\ stage = "new"
  /\ stage' = "initial"
  /\ current_node_name' = n
  /\ UNCHANGED <<old_node, tracker, pending_subscribes, reconnect, up, client, c2p, used>>

RefuseUpgrade ==
  /\ stage = "new"
  /\ stage' = "refused"
  /\ UNCHANGED <<current_node_name, old_node, tracker, pending_subscribes>>
  /\ UNCHANGED <<reconnect, up, client, c2p, used>>

(***************************************************************************)
(* Someone tells the loop to reconnect to node n; the channel holds one.   *)
(***************************************************************************)
Signal(n) ==
  /\ stage \in {"initial", "open", "connecting"}
  /\ reconnect = <<>>
  /\ reconnect' = <<n>>
  /\ UNCHANGED <<loop_vars, up, client, c2p, used>>

InitialConnect(connected) ==
  /\ stage = "initial"
  /\ IF connected
       THEN stage' = "open" /\ up' = Upstream(current_node_name, <<>>)
       ELSE stage' = "closed" /\ UNCHANGED up
  /\ UNCHANGED <<current_node_name, old_node, tracker, pending_subscribes>>
  /\ UNCHANGED <<reconnect, client, c2p, used>>

-----------------------------------------------------------------------------
(***************************************************************************)
(* The client.  It asks, unsubscribes what it was told, and leaves with or *)
(* without a Close frame.  A request id is new, or free again.             *)
(***************************************************************************)
ClientStep(to, msgs) ==
  /\ client.state = "up"
  /\ stage \in {"initial", "open", "connecting"}
  /\ client' = to
  /\ c2p' = c2p \o msgs
  /\ UNCHANGED <<loop_vars, reconnect, up, used>>

FreeIds ==
  {id \in RpcId : IF ReuseIds THEN PendingFor(client.asked, id) = {}
                              ELSE id = client.sent + 1}

Asks(id, params, known, msg) ==
  /\ client.sent < MaxRequests
  /\ id \in FreeIds
  /\ ClientStep([client EXCEPT !.sent = @ + 1, !.known = known,
                               !.asked = InsertPending(@, id, params)], <<msg>>)

ClientSubscribes(id, p) == Asks(id, p, client.known, Subscribe(id, p))

ClientUnsubscribes(id, s) ==
  /\ \E k \in client.known : k.sub = s
  /\ Asks(id, NoParams, {k \in client.known : k.sub # s}, Unsubscribe(id, s))

ClientCloses == ClientStep([client EXCEPT !.state = "closing"], <<Close>>)
ClientVanishes == ClientStep([client EXCEPT !.state = "gone"], <<>>)

Client ==
  \/ \E id \in RpcId, p \in Params : ClientSubscribes(id, p)
  \/ \E id \in RpcId, s \in SubId : ClientUnsubscribes(id, s)
  \/ ClientCloses
  \/ ClientVanishes

(***************************************************************************)
(* What the client makes of a message: the first answer to a subscribe     *)
(* request tells it the id of that subscription; further ones, and answers *)
(* to nothing it has asked, are ignored.                                   *)
(***************************************************************************)
Received(msg) ==
  IF msg.type # "response" THEN client
  ELSE LET answered == PendingFor(client.asked, msg.id)
           told == IF msg.sub = NoSub THEN {}
                   ELSE {a \in answered : a.params # NoParams}
       IN  [client EXCEPT
              !.asked = @ \ answered,
              !.known = @ \cup {[sub |-> msg.sub, params |-> a.params] : a \in told}]

-----------------------------------------------------------------------------
(***************************************************************************)
(* handle_client_message                                                   *)
(***************************************************************************)

(***************************************************************************)
(* A send on a dead upstream fails with Err(false): the message is lost    *)
(* and the loop goes on.                                                   *)
(***************************************************************************)
Forward(msg) == up' = IF up.alive THEN [up EXCEPT !.in = Append(@, msg)] ELSE up

\* Mutation of HandleClientMessage: a send on a dead upstream is fatal.
HandleOrGiveUp ==
  /\ stage = "open"
  /\ c2p # <<>>
  /\ c2p' = Tail(c2p)
  /\ LET msg == Head(c2p)
     IN  /\ pending_subscribes' = IF msg.type # "subscribe" THEN pending_subscribes
                                  ELSE InsertPending(pending_subscribes, msg.id, msg.params)
         /\ tracker' = IF msg.type # "unsubscribe" THEN tracker
                       ELSE remove_subscription(tracker, msg.sub)
         /\ IF msg.type = "close" \/ ~up.alive
              THEN stage' = "closed" /\ UNCHANGED up
              ELSE Forward(msg) /\ UNCHANGED stage
  /\ UNCHANGED <<current_node_name, old_node, reconnect, client, used>>

\* Mutation of HandleClientMessage: a Close frame is taken and ignored.
HandleAllButClose ==
  /\ stage = "open"
  /\ c2p # <<>>
  /\ c2p' = Tail(c2p)
  /\ LET msg == Head(c2p)
     IN  \/ /\ msg.type = "subscribe"
            /\ pending_subscribes' = InsertPending(pending_subscribes, msg.id, msg.params)
            /\ Forward(msg)
            /\ UNCHANGED tracker
         \/ /\ msg.type = "unsubscribe"
            /\ tracker' = remove_subscription(tracker, msg.sub)
            /\ Forward(msg)
            /\ UNCHANGED pending_subscribes
         \/ /\ msg.type = "close"
            /\ UNCHANGED <<up, tracker, pending_subscribes>>
  /\ UNCHANGED <<stage, current_node_name, old_node, reconnect, client, used>>

HandleClientMessage ==
  /\ stage = "open"
  /\ c2p # <<>>
  /\ c2p' = Tail(c2p)
  /\ LET msg == Head(c2p)
     IN  \/ /\ msg.type = "subscribe"
            /\ pending_subscribes' = InsertPending(pending_subscribes, msg.id, msg.params)
            /\ Forward(msg)
            /\ UNCHANGED <<stage, tracker>>
         \/ /\ msg.type = "unsubscribe"
            /\ tracker' = remove_subscription(tracker, msg.sub)
            /\ Forward(msg)
            /\ UNCHANGED <<stage, pending_subscribes>>
         \/ /\ msg.type = "close"
            /\ stage' = "closed"
            /\ UNCHANGED <<up, tracker, pending_subscribes>>
  /\ UNCHANGED <<current_node_name, old_node, reconnect, client, used>>

(***************************************************************************)
(* handle_upstream_message: a response to a pending subscribe request is   *)
(* tracked; a notification is translated; either is sent to the client,    *)
(* and the loop ends if that fails.                                        *)
(***************************************************************************)
Track(msg) ==
  LET match == PendingFor(pending_subscribes, msg.id)
  IN  IF msg.type = "response" /\ msg.sub # NoSub /\ match # {}
        THEN /\ pending_subscribes' = RemovePending(pending_subscribes, msg.id)
             /\ tracker' = track_subscribe(tracker, (CHOOSE p \in match : TRUE).params,
                                           msg.id, msg.sub)
        ELSE UNCHANGED <<tracker, pending_subscribes>>

Outgoing(msg) ==
  IF msg.type = "notification" THEN [msg EXCEPT !.sub = Translated(tracker, @)] ELSE msg

HandleUpstreamMessage ==
  /\ stage = "open"
  /\ up.out # <<>>
  /\ up' = [up EXCEPT !.out = Tail(@)]
  /\ LET msg == Head(up.out)
     IN  IF msg = Close
           THEN stage' = "closed" /\ UNCHANGED <<tracker, pending_subscribes, client>>
           ELSE /\ Track(msg)
                /\ \/ /\ client' = IF client.state = "up" THEN Received(Outgoing(msg)) ELSE client
                      /\ UNCHANGED stage
                   \/ /\ client.state # "up"
                      /\ stage' = "closed"
                      /\ UNCHANGED client
  /\ UNCHANGED <<current_node_name, old_node, reconnect, c2p, used>>

-----------------------------------------------------------------------------
(***************************************************************************)
(* The reconnect branch of run_proxy_loop and reconnect_upstream           *)
(***************************************************************************)
TakeReconnect ==
  /\ stage = "open"
  /\ reconnect # <<>>
  /\ reconnect' = Tail(reconnect)
  /\ old_node' = current_node_name
  /\ current_node_name' = Head(reconnect)
  /\ stage' = "connecting"
  /\ UNCHANGED <<tracker, pending_subscribes, up, client, c2p, used>>

(***************************************************************************)
(* One request for each of the subscriptions, in any order.                *)
(***************************************************************************)
RequestsFor(subscriptions) ==
  {[i \in DOMAIN s |-> Subscribe(s[i].rpc_id, s[i].params)] : s \in SetToSeqs(subscriptions)}

\* Mutation of Replays: only subscriptions with a current mapping are replayed.
ReplaysOfMapped ==
  RequestsFor({x \in tracker.subscriptions :
                 \E m \in tracker.upstream_to_client_id : m.client = x.client_sub_id})

Replays == RequestsFor(tracker.subscriptions)

(***************************************************************************)
(* The replayed requests keep their rpc ids and are not made pending.  The *)
(* old upstream is dropped with whatever was in its channels.              *)
(***************************************************************************)
Reconnected ==
  /\ stage = "connecting"
  /\ stage' = "open"
  /\ tracker' = clear_upstream_mappings(tracker)
  /\ \E replays \in Replays : up' = Upstream(current_node_name, replays)
  /\ old_node' = NoNode
  /\ UNCHANGED <<current_node_name, pending_subscribes>>
  /\ UNCHANGED <<reconnect, client, c2p, used>>

\* Mutation of ReconnectFails: the name of the new node is kept.
ReconnectFailsKeepsName ==
  /\ stage = "connecting"
  /\ stage' = "open"
  /\ old_node' = NoNode
  /\ \/ UNCHANGED tracker
     \/ tracker.subscriptions # {} /\ tracker' = clear_upstream_mappings(tracker)
  /\ UNCHANGED <<current_node_name, pending_subscribes, reconnect, up, client, c2p, used>>

(***************************************************************************)
(* connect_async fails, or a replay cannot be sent; in the second case the *)
(* mappings are already gone.  The name is reverted and the old upstream   *)
(* stays.                                                                  *)
(***************************************************************************)
ReconnectFails ==
  /\ stage = "connecting"
  /\ stage' = "open"
  /\ current_node_name' = old_node
  /\ old_node' = NoNode
  /\ \/ UNCHANGED tracker
     \/ tracker.subscriptions # {} /\ tracker' = clear_upstream_mappings(tracker)
  /\ UNCHANGED <<pending_subscribes, reconnect, up, client, c2p, used>>

ProxyLoop ==
  \/ \E connected \in BOOLEAN : InitialConnect(connected)
  \/ HandleClientMessage \/ HandleUpstreamMessage
  \/ TakeReconnect \/ Reconnected \/ ReconnectFails

-----------------------------------------------------------------------------
(***************************************************************************)
(* The upstream node (not part of the repository): it answers in order,    *)
(* accepts or rejects a subscription, notifies, and may close the stream,  *)
(* with a Close frame or without.                                          *)
(***************************************************************************)
UpstreamStep(to) ==
  /\ stage \in {"open", "connecting"}
  /\ up.alive
  /\ Len(up.out) < MaxOut
  /\ up' = to
  /\ UNCHANGED <<loop_vars, reconnect, client, c2p>>

Accepts ==
  /\ up.in # <<>> /\ Head(up.in).type = "subscribe"
  /\ \E s \in SubId \ (used \cup {x.sub : x \in up.subs}) :
       /\ UpstreamStep([up EXCEPT
            !.in = Tail(@),
            !.subs = @ \cup {[sub |-> s, id |-> Head(up.in).id,
                              params |-> Head(up.in).params]},
            !.out = Append(@, Response(Head(up.in).id, s))])
       /\ used' = IF UniqueIds THEN used \cup {s} ELSE used

Rejects ==
  /\ up.in # <<>> /\ Head(up.in).type = "subscribe"
  /\ UpstreamStep([up EXCEPT !.in = Tail(@),
                             !.rejected = @ \cup {Head(up.in).id},
                             !.out = Append(@, Response(Head(up.in).id, NoSub))])
  /\ UNCHANGED used

Unsubscribed ==
  /\ up.in # <<>> /\ Head(up.in).type = "unsubscribe"
  /\ UpstreamStep([up EXCEPT !.in = Tail(@),
                             !.subs = {x \in @ : x.sub # Head(up.in).sub},
                             !.out = Append(@, Response(Head(up.in).id, NoSub))])
  /\ UNCHANGED used

Notifies ==
  /\ \E x \in up.subs :
       UpstreamStep([up EXCEPT !.out = Append(@, Notification(x.sub, x.params))])
  /\ UNCHANGED used

UpstreamCloses ==
  /\ UpstreamStep([up EXCEPT !.alive = FALSE, !.out = Append(@, Close)])
  /\ UNCHANGED used

UpstreamDies ==
  /\ UpstreamStep([up EXCEPT !.alive = FALSE])
  /\ UNCHANGED used

UpstreamNode ==
  Accepts \/ Rejects \/ Unsubscribed \/ Notifies \/ UpstreamCloses \/ UpstreamDies

-----------------------------------------------------------------------------
Session == ProxyLoop \/ Client \/ UpstreamNode

CNext == RefuseUpgrade \/ (\E n \in EL : Upgrade(n) \/ Signal(n)) \/ Session

CSpec == CInit /\ [][CNext]_cvars

-----------------------------------------------------------------------------
(***************************************************************************)
(* Types, and that the loop works on the upstream it believes in: the name *)
(* the health task watches is the node the loop is connected to.           *)
(***************************************************************************)
CTypeOK ==
  /\ stage \in {"new", "refused", "initial", "open", "connecting", "closed"}
  /\ current_node_name \in {NoNode} \cup EL
  /\ old_node \in {NoNode} \cup EL
  /\ tracker \in Tracker
  /\ pending_subscribes \subseteq Pending
  /\ reconnect \in {<<>>} \cup {<<n>> : n \in EL}
  /\ up.node \in {NoNode} \cup EL
  /\ ToSet(up.in) \subseteq ToUpstream
  /\ ToSet(up.out) \subseteq ToClient
  /\ stage = "open" => current_node_name = up.node

(***************************************************************************)
(* The tracker, from which a reconnection replays, holds exactly the       *)
(* subscriptions the client believes it has, whatever was lost, rejected   *)
(* or answered twice on the way; only those whose eth_unsubscribe is still *)
(* on its way to the loop are more.                                        *)
(***************************************************************************)
Leaving == {m.sub : m \in {x \in ToSet(c2p) : x.type = "unsubscribe"}}

TrackerMatchesClient ==
  stage \in {"open", "connecting"} /\ client.state = "up" =>
    client.known = {[sub |-> r.client_sub_id, params |-> r.params] :
                      r \in {x \in tracker.subscriptions : x.client_sub_id \notin Leaving}}

(***************************************************************************)
(* No reconnection, however often it failed and however late its signal    *)
(* came, forgets a subscription: as long as the upstream lives it has each *)
(* tracked subscription, unless it refused it, or is about to process it.  *)
(***************************************************************************)
Carried(r) ==
  \/ \E x \in up.subs : x.id = r.rpc_id /\ x.params = r.params
  \/ r.rpc_id \in up.rejected
  \/ Subscribe(r.rpc_id, r.params) \in ToSet(up.in)

NoSubscriptionForgotten ==
  stage \in {"open", "connecting"} /\ up.alive =>
    \A r \in tracker.subscriptions : Carried(r)

(***************************************************************************)
(* el_proxy.feature:65, "subscription events should use the same           *)
(* subscription ID": every notification the client gets carries the id the *)
(* client was given for that subscription.                                 *)
(***************************************************************************)
EventsUseClientId ==
  stage = "open" /\ up.out # <<>> /\ Head(up.out).type = "notification" =>
    LET event == Outgoing(Head(up.out))
    IN  client.known # {} =>
          [sub |-> event.sub, params |-> event.params] \in client.known

(***************************************************************************)
(* An event that reaches the client under an id the client was given is an *)
(* event of that subscription, whatever was replayed or translated in      *)
(* between.  DIARY.md:172, "Subscription IDs are preserved - client sees   *)
(* seamless continuation", promises it of every client.                    *)
(***************************************************************************)
EventsAreOfTheirSubscription ==
  stage = "open" /\ up.out # <<>> /\ Head(up.out).type = "notification" =>
    LET event == Outgoing(Head(up.out))
    IN  \A k \in client.known : k.sub = event.sub => k.params = event.params

(***************************************************************************)
(* A dead upstream, a lost message or a failed reconnection does not end   *)
(* the connection of the client: only the client does, or a Close frame of *)
(* the upstream the loop is still connected to.                            *)
(***************************************************************************)
ClosesAreExplained ==
  [][stage' = "closed" /\ stage \in {"open", "connecting"} =>
       client.state # "up" \/ (up.out # <<>> /\ Head(up.out) = Close)]_cvars
=============================================================================
