----------------------------- MODULE HttpProxy ------------------------------
(***************************************************************************)
(* The HTTP handlers (src/src/proxy/http.rs: el_proxy_handler and          *)
(* cl_proxy_handler) running beside the health monitor, with which they    *)
(* share el_nodes and cl_nodes under tokio RwLocks and the failover flag   *)
(* as an atomic.                                                           *)
(*                                                                         *)
(* A request slot r is one handler task; slots are reused.  req[r].at is   *)
(* where its handler is:                                                   *)
(*   "idle"     no request                                                 *)
(*   "loaded"   the flag has been loaded, the lock not requested yet       *)
(*   "queued"   waiting for the read lock behind a writer                  *)
(*   "forward"  sent to node `target', awaiting the upstream               *)
(*   "done"     answered with `status'                                     *)
(* A tokio RwLock is fair: a writer waits for every reader queued before   *)
(* it.  Only the monitor writes.                                           *)
(***************************************************************************)
EXTENDS HealthMonitor, Selection

CONSTANTS
  ElRequest,    \* slots of POST /el
  ClRequest     \* slots of /cl and /cl/*

ASSUME RequestAssumption == ElRequest \cap ClRequest = {}

VARIABLE req

allvars == <<vars, req>>

Request == ElRequest \cup ClRequest

At == {"idle", "loaded", "queued", "forward", "done"}

(***************************************************************************)
(* 503 is the proxy's own refusal, 400 an unreadable request body, 502 and *)
(* 504 a failed and a late upstream; "upstream" is the status and body the *)
(* upstream returned.                                                      *)
(***************************************************************************)
Status == {"none", "400", "502", "503", "504", "upstream"}

Idle == [at |-> "idle", flag |-> FALSE, target |-> NoNode, status |-> "none"]

PInit == Init /\ req = [r \in Request |-> Idle]

Locked(r) == IF r \in ElRequest THEN ElLocked ELSE ClLocked
Select(r) ==
  IF r \in ElRequest THEN select_el_node(el_nodes, req[r].flag)
                     ELSE select_cl_node(cl_nodes)

-----------------------------------------------------------------------------
(***************************************************************************)
(* A request arrives.  The EL handler loads the failover flag first; the   *)
(* CL handler has none.                                                    *)
(***************************************************************************)
Arrive(r) ==
  /\ req[r].at = "idle"
  /\ req' = [req EXCEPT ![r].at = "loaded",
                        ![r].flag = r \in ElRequest /\ el_failover_active]
  /\ UNCHANGED vars

\* Mutation of Enqueue: a reader queues although the lock is free.
EnqueueAnyway(r) ==
  /\ req[r].at = "loaded"
  /\ req' = [req EXCEPT ![r].at = "queued"]
  /\ UNCHANGED vars

Enqueue(r) ==
  /\ req[r].at = "loaded"
  /\ Locked(r)
  /\ req' = [req EXCEPT ![r].at = "queued"]
  /\ UNCHANGED vars

\* Mutation of Route: the selection is not checked.
RouteUnchecked(r) ==
  /\ req[r].at \in {"loaded", "queued"}
  /\ ~Locked(r)
  /\ req' = [req EXCEPT ![r].at = "forward", ![r].target = Select(r)]
  /\ UNCHANGED vars

(***************************************************************************)
(* The read lock is granted and a node selected, with no await in between. *)
(***************************************************************************)
Route(r) ==
  /\ req[r].at \in {"loaded", "queued"}
  /\ ~Locked(r)
  /\ Select(r) # NoNode
  /\ req' = [req EXCEPT ![r].at = "forward", ![r].target = Select(r)]
  /\ UNCHANGED vars

Refuse(r) ==
  /\ req[r].at \in {"loaded", "queued"}
  /\ ~Locked(r)
  /\ Select(r) = NoNode
  /\ req' = [req EXCEPT ![r].at = "done", ![r].status = "503"]
  /\ UNCHANGED vars

(***************************************************************************)
(* forward_request, forward_request_to_url and convert_response: every way *)
(* to end, none of which tries another node.  The reqwest timeout bounds   *)
(* the wait for the upstream.                                              *)
(***************************************************************************)
Forwarded(r, status) ==
  /\ req[r].at = "forward"
  /\ req' = [req EXCEPT ![r].at = "done", ![r].status = status]
  /\ UNCHANGED vars

Answer(r) == \E status \in {"400", "502", "504", "upstream"} : Forwarded(r, status)

(***************************************************************************)
(* The response has left; the slot is free.                                *)
(***************************************************************************)
Finish(r) ==
  /\ req[r].at = "done"
  /\ req' = [req EXCEPT ![r] = Idle]
  /\ UNCHANGED vars

-----------------------------------------------------------------------------
\* Mutation of NoElReaderQueued: a lock that prefers its writers.
WriterFirst == TRUE

(***************************************************************************)
(* The monitor's write acquisitions wait for the readers queued before.    *)
(***************************************************************************)
NoElReaderQueued == \A r \in ElRequest : req[r].at # "queued"
NoClReaderQueued == \A r \in ClRequest : req[r].at # "queued"

MonitorStep ==
  /\ \/ (StartCycle \/ ElSecondPass) /\ NoElReaderQueued
     \/ (StartClPass \/ ClSecondPass) /\ NoClReaderQueued
     \/ ElCheck \/ ElStoreHead \/ ClCheck \/ ClStoreHead \/ UpdateFailoverFlag
  /\ UNCHANGED req

Routing(r) == Enqueue(r) \/ Route(r) \/ Refuse(r)

PNext ==
  \/ MonitorStep
  \/ \E r \in Request : Arrive(r) \/ Routing(r) \/ Answer(r) \/ Finish(r)

PSpec == PInit /\ [][PNext]_allvars

-----------------------------------------------------------------------------
(***************************************************************************)
(* The handler's fields stay in their domains, and a forwarded request has *)
(* a target of its own pool.                                               *)
(***************************************************************************)
PTypeOK ==
  /\ TypeOK
  /\ req \in [Request -> [at : At, flag : BOOLEAN,
                          target : {NoNode} \cup EL \cup CL, status : Status]]
  /\ \A r \in Request : req[r].at = "forward" =>
       req[r].target \in (IF r \in ElRequest THEN EL ELSE CL)

Refused(r) == req[r].at # "done" /\ req'[r].at = "done" /\ req'[r].status = "503"

(***************************************************************************)
(* An EL request is refused although a node is healthy only when no        *)
(* primary is, and only because failover has not reached it: the monitor   *)
(* has published the health but not yet the flag, or it has published the  *)
(* flag after the request loaded it.                                       *)
(***************************************************************************)
RefusalIsExplained ==
  [][\A r \in ElRequest :
       Refused(r) /\ (\E n \in EL : el_nodes[n].is_healthy) =>
         /\ HealthyPrimaries(el_nodes) = {}
         /\ ~req[r].flag
         /\ FlagDue \/ el_failover_active]_allvars

(***************************************************************************)
(* Failover takes effect: if from some time on no primary is healthy and   *)
(* some backup is, then from some time on no EL request is refused.        *)
(***************************************************************************)
FailoverTakesEffect ==
  <>[](HealthyPrimaries(el_nodes) = {} /\ HealthyBackups(el_nodes) # {}) =>
    <>[][\A r \in ElRequest : ~Refused(r)]_allvars

(***************************************************************************)
(* README.md:86, "Falls back to first healthy backup node if all primary   *)
(* nodes are unhealthy": no EL request is refused while a node is healthy. *)
(***************************************************************************)
HealthyBackupServes ==
  [][\A r \in ElRequest : Refused(r) => \A n \in EL : ~el_nodes[n].is_healthy]_allvars
=============================================================================
