------------------------- MODULE SubscriptionTracker ------------------------
(***************************************************************************)
(* SubscriptionTracker and the pending map of src/src/proxy/ws.rs.  A      *)
(* HashMap is the set of its entries; inserting replaces the entry with    *)
(* the same key.                                                           *)
(***************************************************************************)
CONSTANTS
  RpcId,     \* JSON-RPC request ids
  Params,    \* parameters of eth_subscribe: newHeads, a logs filter, ...
  SubId      \* subscription ids, as any upstream assigns them

SubscribeRequest == [client_sub_id : SubId, rpc_id : RpcId, params : Params]
Mapping == [upstream : SubId, client : SubId]
Pending == [rpc_id : RpcId, params : Params]

Tracker == [subscriptions : SUBSET SubscribeRequest,
            upstream_to_client_id : SUBSET Mapping]

NewTracker == [subscriptions |-> {}, upstream_to_client_id |-> {}]

map_upstream_id(tracker, upstream_id, client_id) ==
  [tracker EXCEPT !.upstream_to_client_id =
     {m \in @ : m.upstream # upstream_id}
       \cup {[upstream |-> upstream_id, client |-> client_id]}]

(***************************************************************************)
(* The upstream id becomes the client-facing id.                           *)
(***************************************************************************)
track_subscribe(tracker, params, rpc_id, sub_id) ==
  LET request == [client_sub_id |-> sub_id, rpc_id |-> rpc_id, params |-> params]
  IN  map_upstream_id(
        [tracker EXCEPT !.subscriptions =
           {r \in @ : r.client_sub_id # sub_id} \cup {request}],
        sub_id, sub_id)

\* Mutation of remove_subscription: only the mapping is removed.
RemoveMappingOnly(tracker, client_sub_id) ==
  [tracker EXCEPT !.upstream_to_client_id = {m \in @ : m.client # client_sub_id}]

remove_subscription(tracker, client_sub_id) ==
  [subscriptions |->
     {r \in tracker.subscriptions : r.client_sub_id # client_sub_id},
   upstream_to_client_id |->
     {m \in tracker.upstream_to_client_id : m.client # client_sub_id}]

clear_upstream_mappings(tracker) == [tracker EXCEPT !.upstream_to_client_id = {}]

\* Mutation of Translated: any mapping will do.
TranslatedByAny(tracker, upstream_id) ==
  IF tracker.upstream_to_client_id = {} THEN upstream_id
  ELSE (CHOOSE m \in tracker.upstream_to_client_id : TRUE).client

(***************************************************************************)
(* The id a notification carries to the client: the mapped one, or the     *)
(* upstream's own when there is no mapping.                                *)
(***************************************************************************)
Translated(tracker, upstream_id) ==
  LET mapped == {m \in tracker.upstream_to_client_id : m.upstream = upstream_id}
  IN  IF mapped = {} THEN upstream_id ELSE (CHOOSE m \in mapped : TRUE).client

(***************************************************************************)
(* pending_subscribes.insert and .remove                                   *)
(***************************************************************************)
PendingFor(pending, rpc_id) == {p \in pending : p.rpc_id = rpc_id}
InsertPending(pending, rpc_id, params) ==
  (pending \ PendingFor(pending, rpc_id)) \cup {[rpc_id |-> rpc_id, params |-> params]}
RemovePending(pending, rpc_id) == pending \ PendingFor(pending, rpc_id)
=============================================================================
