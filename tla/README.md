# A formal model of Vixy

TLA+ modules, TLC configurations and TLAPS proofs about Vixy, an HTTP and WebSocket
proxy that watches a set of Ethereum execution-layer (EL) and consensus-layer (CL)
nodes and sends each request to a healthy one.  Paths below are relative to the
repository; `ws.rs` is `src/proxy/ws.rs`, and so on.

## 1. The system

| Component | State | Operations | Talks to |
|---|---|---|---|
| Shared state (`state.rs`) | vectors of EL and CL node states under tokio `RwLock`s, two chain heads, the flag `el_failover_active` | `AppState::new` | everyone |
| Health arithmetic (`health/el.rs`, `health/cl.rs`) | none | chain head, lag, failure counter, verdict | called by the monitor |
| Node checks (same files) | none | `check_el_node`, `check_cl_node`: one or two HTTP requests, without a timeout | the nodes |
| Health monitor (`monitor.rs`) | its position in a cycle, `any_primary_healthy` | EL pass, CL pass, failover flag, sleep | writes the shared state |
| Selection (`proxy/selection.rs`) | none | first healthy primary, else (in failover) first healthy backup; first healthy CL node | called by handlers |
| HTTP handlers (`proxy/http.rs`) | per request: flag read, node selected | load flag, read lock, select, forward or 503 | read the shared state |
| Status endpoint (`proxy/http.rs`) | per request: what it has read so far | two heads, the flag, then each vector under its read lock | reads the shared state |
| Subscription tracker (`proxy/ws.rs`) | subscriptions by client id, map from upstream to client id | track, map, translate, remove, clear | owned by a connection |
| WebSocket loop (`proxy/ws.rs`) | upstream, pending requests, current node name | client and upstream messages, reconnection with replay | client, upstream, health task |
| WebSocket health task (`proxy/ws.rs`) | its locals | every second: is the current node healthy, which one would be | reads the shared state, signals the loop over a channel of one |
| Configuration (`config.rs`) | none after start | load, parse, validate | `AppState::new` |
| Metrics (`metrics.rs`) | process-wide gauges and counters, shared by all connections | set, increment, decrement | written by everyone |
| Start-up and shutdown (`main.rs`) | the phase of the process | spawns the monitor, binds, serves, drains, exits | starts and drops every task |

What is hard, and hence what the model is about:

* The monitor holds a write lock **while it awaits every node**, releases it, and
  computes, stores and uses the chain head in three critical sections; the failover flag
  is written a whole CL pass after the health it is derived from.  Handlers read the flag
  and the health at different moments.
* A node's verdict is debounced by a counter whose meaning depends on the order of
  several cycles, and which is a `u32` that wraps.
* Dead nodes keep contributing to the EL chain head; unhealthy CL nodes contribute to
  the CL head.
* A WebSocket connection is five tasks (loop, two receivers, health task, the client)
  that share a node name, a tracker and channels.  Reconnection can fail at two places,
  its signals can be stale, messages are lost with the old upstream, and the answers to
  replayed requests look like any other answer.

* A status response is put together from five reads at five moments of the monitor.
* The gauges of the WebSocket proxy are process-wide, but each connection updates them as
  if it were the only one, one gauge at a time.
* Shutdown waits for handlers that may themselves wait for the monitor.

`PROJECT.json` lists each hazard at its line, with the properties that would catch it.

## 2. The modules

```
AppState <-- NodeHealth <-- HealthMonitor <-- VerdictHistory   refines Debounce
   |                          |   ^   ^
   |                          |   |   +------ StatusEndpoint
   |                          |   +---------- HttpProxy (+ Selection) <-- Server
   |                          +-- refines --> MonitorInterface
   +-- WsConnection (+ SubscriptionTracker) <-- WsProxy (+ MonitorInterface, Selection),
   |          |                                 refines WsConnection
   |          +-- WsGauge
   +-- WsMetrics
Config --- its theorem gives what AppState assumes
```

| Module | Models | Correspondence |
|---|---|---|
| `AppState` | `state.rs`, what `Config::validate` guarantees | nodes are positions of the vector, primaries first; heights are `0..MaxHeight`, the counter is modulo `FailureWrap` |
| `Config` | validation in `config.rs`, the vector of `AppState::new` | one operator per test; a URL is what `validate_url` looks at |
| `NodeHealth` | `health/el.rs`, `health/cl.rs` | one operator per function; `Verdict` is the debounce both contain |
| `HealthMonitor` | `monitor.rs` | one action per piece of the task between two awaits; `pc` is where it is, `ElLocked`/`ClLocked` when it holds a lock across awaits |
| `MonitorInterface` | what handlers and health tasks may rely on (abstract) | health of all EL nodes changes at once, the flag follows before it changes again, and the write lock is held across the checks, for ever if one is not answered |
| `Debounce` | what the counter is for (abstract) | healthy iff one of the last K checks passed |
| `VerdictHistory` | `HealthMonitor` plus the last K verdicts as history | relates the two |
| `Selection` | `proxy/selection.rs` | one operator per function |
| `HttpProxy` | both proxy handlers beside the monitor | `req[r].at` is where handler `r` is; tokio's fair lock is the queue of `Enqueue` and `NoElReaderQueued` |
| `Server` | `main.rs` around monitor and handlers | `phase` is where `main` is; every task runs until `main` returns |
| `StatusEndpoint` | `status_handler` beside the monitor | one action per load and per lock acquisition; `overlap` and `cycled` are history |
| `SubscriptionTracker` | `SubscriptionTracker`, the pending map | one operator per method; a `HashMap` is the set of its entries |
| `WsConnection` | `run_proxy_loop`, both message handlers, `reconnect_upstream`, the receiver tasks; a client and an upstream (external) | `stage` is where the loop is; one action per select branch, the reconnect branch split at its await |
| `WsProxy` | `el_ws_handler`, `handle_websocket`, the connection's `health_monitor`, on top of `WsConnection` and `MonitorInterface` | one action per piece between two awaits |
| `WsMetrics` | the gauges of connections and upstreams of `metrics.rs` and their calls in `ws.rs`, for several connections | one action per update of a gauge; `cleared` is history |
| `WsGauge` | the gauge of subscriptions, on top of `WsConnection` | the two calls in the message handlers and the one when the connection ends; nothing is awaited between the change of the tracker and that of the gauge, so they are one step |
| `MCWsConnection`, `MCWsGauge`, `MCWsProxy` | model values | |
| `HealthMonitorProofs`, `VerdictHistoryProofs`, `SelectionProofs`, `StatusProofs`, `ServerProofs`, `WsProofs`, `WsMetricsProofs` | theorems (`Config` holds its own) | `WsProofs` has four parts: types and refinement, the subscriptions, their gauge, how a connection ends |

`WsProxy` uses `MonitorInterface` in place of the whole monitor; that this is allowed is
theorem `ImplementsInterface`.  `WsConnection` leaves open who signals a reconnection and
when; that `WsProxy` signals only in that way is `IsWsConnection`.  `Server` only takes
steps of `HttpProxy` away, phase by phase (theorem `ServerRunsProxy`).  `WsMetrics` keeps
of a connection only what decides its updates of the gauges; `WsGauge` needs the whole
connection, because the gauge of subscriptions is right or wrong by what the tracker does.
The operators marked "Mutation of" are deliberate errors, used to see that each property
can fail.

## 3. The runs

Passing:

| Run | Question | States |
|---|---|---|
| `el_health` | The EL half of the monitor: debouncing with a counter that wraps (`ElDebounced`), nothing stale used between the critical sections (`NothingStale`), who is to blame when every node is out although one answers (`ElOutageNeedsDeadLeader`), the interface (`KeepsInterface`) | 2.1 M |
| `cl_health` | The same of the CL nodes, whose errors reset the slot (`ClDebounced`, `ClOutageNeedsSickLeader`); nodes dead or well for good are in the end out of or in service for good (`DeadNodeIsDropped`, `RecoveredNodeServes`) | 0.5 M |
| `status` | When a status response may contradict itself: head against heights and lags (`HeadsExplainLags`), flag against nodes (`FlagExplainsNodes`); and it comes (`StatusAnswered`) | 0.25 M |
| `server` | The process with its handlers: when an EL request is refused although a node is healthy (`RefusalIsExplained`), failover ends the refusals (`FailoverTakesEffect`), requests are answered (`RequestsAreAnswered`) and shutdown ends (`ShutdownCompletes`) although both wait for locks the monitor takes for ever again, and the monitor is not starved by readers (`MonitorNeverStarves`) | 0.22 M |
| `ws_session` | Tracker, client and upstream agree through any number of reconnections, failed ones included (`TrackerMatchesClient`, `NoSubscriptionForgotten`); an event under a known id is of that subscription (`EventsAreOfTheirSubscription`); the gauge, counted up and down beside the tracker, is the number of subscriptions it holds (`GaugeFollowsTracker`); who ends a connection (`ClosesAreExplained`) | 1.6 M |
| `ws_switch` | If the monitor's checks are answered, a connection settles on the living stream of a healthy node and stays there (`SettlesOnHealthyNode`); a Close of the client ends it (`CloseEndsConnection`); and the product refines its part (`IsWsConnection`) | 69 k |
| `ws_metrics` | Three connections that share the gauges of connections and upstreams: which stay right (`ConnectionsCounted`, `UpGaugeIsTrue`), and exactly what puts the other wrong (`MissingGaugeIsExplained`) | 16 k |

Each run of the second kind states what a document, comment or test of the repository says
and TLC shows a behaviour of the code that contradicts it:

| Run | Said | Shown |
|---|---|---|
| `http_window` | README.md:86: requests fall back to a healthy backup if all primaries are unhealthy | during the CL pass the flag is not set yet: 503 |
| `hung_check` | AGENT.md:95: monitoring is continuous; el.rs:200: a check fails on timeout | checks have no timeout: a node that never answers stops the monitor, with the lock held |
| `ws_event_ids` | el_proxy.feature:65 and ws.rs:718: subscription ids survive a reconnection | replayed requests are not pending, so nothing is mapped and events carry an unknown id |
| `ws_reused_id` | DIARY.md:172: the client sees a seamless continuation | requests are matched by their ids alone: a client that uses an id again after its answer can get the events of one subscription under the id of another |
| `ws_dead` | ws.rs:406: the loop exits when all channels are closed | the health task keeps its channel open: the loop stays for ever |

Six more divergences have no run.

* `state.rs:25` says `is_healthy` means "check_ok AND within lag threshold", but a healthy
  node keeps its status for `health_check_max_failures` failed checks
  (`config.example.toml:22` documents the option); `Debounce` is what holds.
* `max_retries` and `proxy_timeout_ms` are read from the configuration and used nowhere:
  `HttpProxy` has no retry, and the timeout is a constant.
* `el_proxy.feature:54` expects the connection to stay open when its node stops.  A node
  that says goodbye with a Close frame ends it; `ClosesAreExplained` says that this is the
  only way an upstream can.
* `AGENT.md:96` says of the EL nodes: "When a primary node becomes available again, switch
  back to primary".  New requests and new connections do, but an open WebSocket connection
  that was moved to a backup stays there while the backup is healthy: the health task
  (`ws.rs:166`) looks for another node only when its own is unhealthy.  So
  `SettlesOnHealthyNode` says *a* healthy node, not a primary.
* `ws.rs:276` says that the count of subscriptions "should be 0 when connection closes".
  It is what the tracker still holds, and it overwrites the gauge of the whole process, in
  which other connections may have counted theirs.  No property of the gauge survives
  that; `GaugeFollowsTracker` is about the one connection of a process, and of a client
  that unsubscribes only what it has (`ws.rs:489` counts down for any id).
* The gauge of an upstream node is 0 although a connection is on it, from when another
  connection leaves the node: the one cause `MissingGaugeIsExplained` excludes.

And one limit, which contradicts no document: the health task looks at the HTTP health of
a node only.  If the stream of a connection ends without a Close frame while its node stays
healthy (`ws.rs:448`), nothing notices: the connection keeps the dead stream, and what the
client sends is lost.

### Bounds

* **Nodes**: one primary, one backup, one CL node; in `cl_health` two CL nodes and one EL
  node.  One node of each tier is the least that has failover; two CL nodes the least with
  a leader and a laggard.  The theorems about the monitor, the handlers and the connection
  cover every number.  `ws_switch` also passes with two primaries (it takes minutes and is
  not kept).
* **Heights** `MaxHeight`: in `el_health` and `cl_health` one more than the allowed lag, so
  that a node can be within it and beyond it; 1 in `status` with no allowed lag; 0 where
  only reachability matters (`server`, `http_window`, the `ws_*` runs).
* **Counter**: `MaxFailures = 3` and `FailureWrap = 5` in `el_health`, so a counter passes
  the threshold, wraps and passes it again; 2 and 3 in `cl_health` and `hung_check`, 1 and
  2 where the grace period plays no part.
* **Requests**: one EL slot and one CL slot in `server`, each reused for ever, so both
  locks have a reader that waits while the monitor wants to write.  Handlers change nothing
  that another handler reads; the theorems about them cover any number.  One status request
  at a time, for the same reason.
* **`MaxRequests`** (client requests of a connection): 3 in `ws_session`, enough to
  subscribe twice and unsubscribe between reconnections; the number of reconnections is not
  bounded.  0 in `ws_switch` and `ws_dead`, where subscriptions play no part, 1 in
  `ws_event_ids`, and 2 under one and the same id (`RpcId = {1}`, `ReuseIds`) in
  `ws_reused_id`.
* **`MaxOut`** (unhandled messages of an upstream): 1; a message can be in flight while a
  reconnection starts, and is lost with the old upstream.
* **`UniqueIds`**: nodes do not assign a subscription id twice (they draw it at random).
  Without it two subscriptions can share a client id.
* **`Conn`** in `ws_metrics`: three connections on two nodes, so that two share a node while
  a third comes or goes; slots are reused.
* Symmetry is used in `ws_session` only (a safety run), for subscription ids and
  parameters, which the proxy only compares.
* `ws_session` and `ws_reused_id` switch the deadlock check off, because a refused or closed
  connection is over, and `server`, because a process that has exited is.

### Fairness

* The monitor (`Fairness`, `HFairSpec`): weak fairness of its steps, because the runtime
  runs every ready task and the sleep ends; not while it awaits a node in `HungEl` or
  `HungCl`, because a check has no timeout.
* The status handler (`SFairness`): weak fairness of its steps and of the monitor's.
  tokio's fair queue is in the model (`ReaderQueued`), not in the fairness.
* The process (`ServerFairness`): weak fairness of the monitor, of routing, and of the
  exit once nothing is in progress.  A forwarded request ends because reqwest has a
  timeout, but the body is read before it starts: for a slot in `Stalled`, whose client
  stops sending or reading, nothing is assumed.  No request and no signal has to come.
* A connection (`WFairness`): weak fairness of a connect attempt, which returns unless the
  node is in `HungWs` (`connect_async` has no timeout); strong fairness of the select
  branches, because `select!` picks at random among the ready ones.  Strong fairness of a
  successful reconnection says that a healthy node accepts a connection in the end:
  `SettlesOnHealthyNode` would be false of one that refuses every connection.  Of the
  health task, weak fairness of the steps that need no lock, and strong fairness of the
  two that await the read lock of the EL nodes: tokio's lock is fair, so a reader that
  waits gets it when it is released.  **That it is released is not assumed**: the monitor
  holds it across checks without a timeout, `MonitorInterface` lets it hold it for ever,
  and `hung_check` shows that it can.  Nothing is assumed of the client and of the upstream.

`SettlesOnHealthyNode` has its assumptions about the environment in its statement:

* the lock is released again and again (`[]<>(~locked)`): the checks are answered.  With a
  check that hangs, the health task and every new upgrade wait for ever, and a connection
  whose node is down stays on it;
* from some time on the health of the nodes and the flag do not change, and the flag
  agrees with the health.  While they change, stale signals may move a connection again and
  again;
* from then on a healthy node keeps the streams it has, because nobody notices the end of
  one (see above).  Streams of unhealthy nodes may die at any time; signals sent, attempts
  that failed and streams that died before are not excluded.

What it concludes is a stream that is alive.  Without the first or the last of these
assumptions, or with weak fairness of the two steps at the lock, TLC finds it violated.

## 4. What is proved

Assumptions: `ConfigAssumption` (at least one primary and one CL node, limits are
naturals), `WidthAssumption` (the counter has a modulus of at least 2 that the threshold
is below: both are `u32`), `HungAssumption`, and for a connection and the gauges
`WsAssumption` and `MetricsAssumption`.  The number of nodes, handlers, connections and
client requests, the lags, the threshold, the largest height and the counter's modulus are
arbitrary.  `WsAssumption` says among the types that `NoParams`, which marks a request that
is not a subscribe, is not the parameters of one: the code tells the two apart by the
method.

The three theorems about the subscriptions of a connection, their corollary and the
theorem about the gauge of subscriptions have two hypotheses, which are the values `ws_session` gives the constants.  `~ReuseIds`: the client
uses each request id once; `ws_reused_id` shows the properties false of one that does not,
by requests that the loop takes for one another.  `UniqueIds`: no subscription id is
assigned twice; nodes draw them at random from a space in which a collision is not
expected, and the code relies on it.  Nothing else is proved under a hypothesis.

| Module | Theorem | States |
|---|---|---|
| `HealthMonitorProofs` | `TypeCorrect` | `Spec => []TypeOK` |
| | `NeverStale` | `Spec => []NothingStale` |
| | `ElOutageExplained`, `ClOutageExplained` | `Spec => []ElOutageNeedsDeadLeader`, `[]ClOutageNeedsSickLeader` |
| | `ImplementsInterface` | `Spec => KeepsInterface`, the refinement of `MonitorInterface` |
| `VerdictHistoryProofs` | `ElDebouncing`, `ClDebouncing` | `HSpec => ElDebounced`, `ClDebounced`, the refinements of `Debounce` |
| `ServerProofs` | `HandlersTyped` | `PSpec => []PTypeOK`; among the types, that a request goes to a node of its own pool |
| | `RefusalsExplained` | `PSpec => RefusalIsExplained` |
| | `ServerRunsProxy` | `ServerSpec => PSpec`: both hold of the process, too |
| | `ServerRunsMonitor` | `ServerSpec => Spec`: so does everything about the monitor |
| `StatusProofs` | `ReportedHeadsExplainLags`, `ReportedFlagExplainsNodes` | `SSpec => HeadsExplainLags`, `FlagExplainsNodes` |
| | `StatusRunsMonitor` | `SSpec => Spec` |
| `WsProofs` | `CTypeCorrect`, `WTypeCorrect` | `CSpec => []CTypeOK`, `WSpec => []WTypeOK` |
| | `ConnectionIsDriven` | `WSpec => IsWsConnection`, the refinement of `WsConnection` |
| | `TrackerIsTheClients`, `NothingForgotten`, `EventsNotMixedUp` | `CSpec => []TrackerMatchesClient`, `[]NoSubscriptionForgotten`, `[]EventsAreOfTheirSubscription`, under the two hypotheses |
| | `SubscriptionsSurviveSwitching` | `WSpec => []` of the three: whatever the health task signals |
| | `GaugeIsRight` | `GSpec => []GaugeFollowsTracker`, under the same hypotheses |
| | `ClosesExplained` | `CSpec => ClosesAreExplained` |
| `WsMetricsProofs` | `MTypeCorrect` | `MSpec => []MTypeOK` |
| | `UpGaugesAreTrue`, `MissingGaugesExplained` | `MSpec => []UpGaugeIsTrue`, `[]MissingGaugeIsExplained` |
| | `ConnectionsAreCounted` | `MSpec => []ConnectionsCounted` |
| `Config` | `LoadedConfiguration` | a configuration that passes validation has what `AppState` assumes |

**The monitor.**  `MaxOfHeights` shows by the well-foundedness of the naturals that a
non-empty bounded set of heights has a maximum; hence (`ElHead`, `ClHead`) a chain head is
a height, above all nodes, and attained if it is not 0.  With the types this gives
`TypeCorrect`.  The inductive invariant of everything else is `TypeOK /\ NothingStale`:
`NothingStale` says that a stored head is the head of the present nodes until it is used
and that `any_primary_healthy` agrees with the present nodes until it becomes the flag.
Without its first half an outage could be explained by heights of another cycle; without
its second the published flag need not be the one `MonitorInterface` demands.  The lock of
`MonitorInterface` is held exactly in the first EL pass (`ElLocked`), and the health is
published in the second.  The outage properties are established by the one step that ends
a pass.

**Debouncing.**  The invariant (`Counted`) is: a healthy node with counter `f` passed
`f + 1` checks ago and failed each one since, and `f < K`; an unhealthy node failed the
last `K`.  It says nothing of an unhealthy node's counter, which may have wrapped; that
the counter of a healthy node does not wrap follows from `f < K < FailureWrap`.

**The handlers.**  What is selected is a node of the pool or none, and none only if no
primary is healthy and no backup may be used (`SelectElNode`, from the well-foundedness of
positions).  A refusal although a node is healthy then needs a flag that was false: the
invariant `FlagIsRight` says that outside the window between the EL pass and the flag, an
EL outage of the primaries has the flag set, so the flag was loaded before, or the window
is open.  It needs `NothingStale`, because the flag is computed from
`any_primary_healthy`, not from the nodes.

**The status endpoint.**  `StatusInv` has two halves.  About the monitor: outside its EL
pass the stored head is the head of the nodes and every lag the distance to it
(`ElSettled`; `ClSettled` of the CL), because the second pass over the nodes, in one
critical section, uses a head that `NothingStale` says is current; and from the end of a
cycle until the next EL verdicts the flag is that of the nodes (`FlagSettled`).  About the
handler: what it has read is still so unless `overlap` has recorded the stretch of the
monitor that changes it (`ElHeadCurrent`, `ClHeadCurrent`, `FlagCurrent`).  It needs that a
step of the monitor changes a head only between two states of that pass and the flag only
while it is due (`MonitorKeeps`), which is what makes `overlap` a sufficient excuse.

**A connection.**  The inductive invariant `CInv` strengthens `CTypeOK` in three places.
`NamesOK` adds that while a reconnection is awaited `old_node` is the node of the old
upstream, which is why reverting to it after a failure restores the agreement of name and
upstream.  `TrackingOK` adds that finitely many subscriptions are tracked, without which
the replay need not be a sequence.  `ChannelsOK` types every message in every channel.
For `WsProxy` it is joined by `TargetsOK`: what the health task is about to send is a
configured node, however old its reading of the state.  Each step of `WsProxy` then is a
step of `WsConnection` or leaves it alone (`ConnectionStep`).

**The subscriptions.**  That the tracker is what the client knows is not inductive, nor
are the other two properties: a subscription exists in turn as a message to the loop, an
entry of the pending map, a message to the node, an entry of the node, an answer, and an
entry of tracker and client; and a replay makes a second message of the same request.
`SessionInv` says what can be where at the same time.

* `Numbered`: no request id in sight is ahead of the client, so a new request meets no
  trace of its id.  This is where `~ReuseIds` is used.
* `OneMessageEach`: a request is in one channel at most, once.  The replay keeps this
  because it starts from empty channels and distinct tracked ids (`ReplayedOnce`).
* `OneEntryEach`: the maps are maps, a request is pending or tracked and not both, and an
  id that is mapped is mapped to itself: the loop maps an answer only for a pending request,
  under the very id it gives the client, and a replayed request is tracked, so not pending.
* `RequestsAgree`: client, loop and node mean the same parameters by a request id, and a
  request the node has or has accepted is pending exactly if the client waits for it.
  Without this an answer could be tracked that the client ignores, or the reverse: the
  answer to a replayed request must find neither side waiting.
* `IdsAreFresh`: an assigned id that is on its way to the loop is known to nobody else.
  This is where `UniqueIds` is used.
* `SubscriptionsCarried`: `NoSubscriptionForgotten` in terms of the channels; and what the
  client removes, under the id it was given, carries no other subscription.  After a
  reconnection the node knows the subscription under another id than the client; without
  the second half, an unsubscribe could take it away from the node while it is tracked.
* `KindsAgree`: an id stands for the same parameters with the client, at the node and in
  every event in flight; `EventsAreOfTheirSubscription` follows because translation is the
  identity.
* `TrackerMatches`: the property itself, whatever the stage.

There is one lemma per action (`...Kept`), and under it one step per part.  The lemmas on
channels (`AppendedSet`, `TailSet`, `QueueGrows`, `AnswersShrink`, ...) say once what
appending to and taking from a queue does to the sets of ids above.

`ClosesAreExplained` needs much less, and no hypothesis: `CloseIsTheClients` says that
while the client is there no Close of its is in the queue, so a Close the loop takes from
that queue is that of a client that has left.

**The gauges.**  `UpGaugeIsTrue` and `MissingGaugeIsExplained` are inductive together with
the types (`GaugesMatch`): the proof is by the gauge that an update touches and the
connections that hold that node.  For `ws_connections` the invariant `CountIsRight` says
that the gauge is the cardinality of the counted connections; `Begin` adds one to that set
and `Uncount` takes one away.

The gauge of subscriptions never looks at the tracker while the connection is open, so
`GaugeIsRight` needs that every call counts exactly one entry (`OneByOne`): what is queued
to be unsubscribed is still tracked, nothing is queued twice, and no two subscriptions have
one id (`RemovedOnce`); and an answer that is tracked brings an id nobody has yet
(`AddedOnce`, from `IdsAreFresh`).  A client can only unsubscribe what it knows, and that
this is tracked and not leaving is `TrackerMatches`.  So the theorem rests on the whole of
`SessionInv`, which holds beside the gauge because a step on it is a step of the connection
(`GaugeSteps`).

Every safety property of the passing runs is proved, as an invariant, an action property
or a refinement.  Only model-checked: liveness under fairness, which is beyond the proof
system (`DeadNodeIsDropped`, `RecoveredNodeServes`, `StatusAnswered`,
`FailoverTakesEffect`, `RequestsAreAnswered`, `ShutdownCompletes`, `MonitorNeverStarves`,
`SettlesOnHealthyNode`, `CloseEndsConnection`), and of course the five disagreements, each
a counterexample.

## 5. Not modelled, and the plan

Not modelled: reading and parsing of TOML, URLs and JSON, and the defaults of the options;
header and path handling; the counters, histograms and the gauges of the monitor, each one
assignment next to the state it reports; the metrics server and the `/health` route, which
keep no state; frames the WebSocket loop forwards without touching its state; batches of
subscribe requests, which the loop forwards without tracking; what becomes of WebSocket
connections at the exit; peers that stop reading (the buffers of the sockets are not part
of the code); TLS.

The plan:

1. *(done)* shared state, health arithmetic, monitor, its interface; HTTP handlers; one
   WebSocket connection with its health task; the proofs about the monitor.
2. *(done)* `StatusEndpoint`; `Server`; `WsMetrics`; `Config`; request ids used twice; the
   proofs about handlers, connection and gauges.
3. *(done)* the proofs about the tracker, about closing and about the status endpoint; the
   gauge of subscriptions beside its connection; the monitor's lock in what a connection
   assumes.
4. An abstract specification of what a connection promises its client (a set of
   subscriptions that only the client's requests and the nodes' answers change, whatever
   reconnects), which `WsConnection` implements by `SessionInv`.
