--------------------------- MODULE HealthMonitor ----------------------------
(***************************************************************************)
(* The health monitor task (src/src/monitor.rs, run_health_monitor): one   *)
(* task that for ever checks every EL node, recomputes the EL health,      *)
(* checks every CL node, recomputes the CL health, updates the failover    *)
(* flag and sleeps.                                                        *)
(*                                                                         *)
(* A step of the task is what it does between two awaits, so that other    *)
(* tasks can run wherever the code lets them.  `pc' is where the task is:  *)
(*   "boot"     before the first cycle                                     *)
(*   "el_check" holding the el_nodes write lock, awaiting node `cursor'    *)
(*   "el_head"  first EL pass finished, chain head not stored yet          *)
(*   "el_calc"  chain head stored, waiting for the write lock again        *)
(*   "cl_start" EL health known, waiting for the cl_nodes write lock       *)
(*   "cl_check", "cl_head", "cl_calc"  the same for the CL nodes           *)
(*   "flag"     both passes finished, failover flag not updated yet        *)
(*   "sleep"    between two cycles                                         *)
(***************************************************************************)
EXTENDS NodeHealth

CONSTANTS
  HungEl,    \* EL nodes that may accept a check and never answer it
  HungCl     \* CL nodes that may accept a check and never answer it

ASSUME HungAssumption == HungEl \subseteq EL /\ HungCl \subseteq CL

VARIABLES
  el_nodes,              \* AppState.el_nodes
  cl_nodes,              \* AppState.cl_nodes
  el_chain_head,         \* AppState.el_chain_head
  cl_chain_head,         \* AppState.cl_chain_head
  el_failover_active,    \* AppState.el_failover_active
  any_primary_healthy,   \* the local of run_health_check_cycle
  pc,                    \* where the task is
  cursor                 \* the node being checked; 0 outside the two passes

el_vars == <<el_nodes, el_chain_head, any_primary_healthy>>
cl_vars == <<cl_nodes, cl_chain_head>>
vars == <<el_vars, cl_vars, el_failover_active, pc, cursor>>

Init ==
  /\ el_nodes = [n \in EL |-> ElFromConfig]
  /\ cl_nodes = [n \in CL |-> ClFromConfig]
  /\ el_chain_head = 0
  /\ cl_chain_head = 0
  /\ el_failover_active = FALSE
  /\ any_primary_healthy = FALSE
  /\ pc = "boot"
  /\ cursor = 0

-----------------------------------------------------------------------------
(***************************************************************************)
(* check_all_el_nodes                                                      *)
(***************************************************************************)

StartCycle ==
  /\ pc \in {"boot", "sleep"}
  /\ pc' = "el_check"
  /\ cursor' = 1
  /\ UNCHANGED <<el_vars, cl_vars, el_failover_active>>

\* Mutation of ElAdvance: the pass runs past the last node.
ElAdvanceTooFar ==
  IF cursor \in EL
    THEN cursor' = cursor + 1 /\ pc' = "el_check"
    ELSE cursor' = 0 /\ pc' = "el_head"

ElAdvance ==
  IF cursor + 1 \in EL
    THEN cursor' = cursor + 1 /\ pc' = "el_check"
    ELSE cursor' = 0 /\ pc' = "el_head"

ElCheckOk(block_number) ==
  /\ pc = "el_check"
  /\ el_nodes' = [el_nodes EXCEPT ![cursor].block_number = block_number,
                                  ![cursor].check_ok = TRUE]
  /\ ElAdvance
  /\ UNCHANGED <<el_chain_head, any_primary_healthy, cl_vars, el_failover_active>>

(***************************************************************************)
(* Any failure of check_el_node: refused, reset, not JSON, a JSON-RPC      *)
(* error, no result, not a number.  The old block number is kept.          *)
(***************************************************************************)
ElCheckErr ==
  /\ pc = "el_check"
  /\ el_nodes' = [el_nodes EXCEPT ![cursor].check_ok = FALSE]
  /\ ElAdvance
  /\ UNCHANGED <<el_chain_head, any_primary_healthy, cl_vars, el_failover_active>>

\* Mutation of ElStoreHead: the head is not let back.
ElStoreHeadForward ==
  /\ pc = "el_head"
  /\ el_chain_head' = Max({el_chain_head, update_el_chain_head(el_nodes)})
  /\ pc' = "el_calc"
  /\ UNCHANGED <<el_nodes, any_primary_healthy, cl_vars, el_failover_active, cursor>>

(***************************************************************************)
(* The head is computed under a read lock and stored after it is released; *)
(* only this task writes el_nodes, so nothing can change in between.       *)
(***************************************************************************)
ElStoreHead ==
  /\ pc = "el_head"
  /\ el_chain_head' = update_el_chain_head(el_nodes)
  /\ pc' = "el_calc"
  /\ UNCHANGED <<el_nodes, any_primary_healthy, cl_vars, el_failover_active, cursor>>

\* Mutation of ElSecondPass: the primaries are counted before the verdicts.
ElSecondPassCountsFirst ==
  /\ pc = "el_calc"
  /\ el_nodes' = [n \in EL |->
       calculate_el_health(el_nodes[n], el_chain_head, MaxElLag, MaxFailures)]
  /\ any_primary_healthy' = (HealthyPrimaries(el_nodes) # {})
  /\ pc' = "cl_start"
  /\ UNCHANGED <<el_chain_head, cl_vars, el_failover_active, cursor>>

ElSecondPass ==
  /\ pc = "el_calc"
  /\ el_nodes' = [n \in EL |->
       calculate_el_health(el_nodes[n], el_chain_head, MaxElLag, MaxFailures)]
  /\ any_primary_healthy' = (HealthyPrimaries(el_nodes') # {})
  /\ pc' = "cl_start"
  /\ UNCHANGED <<el_chain_head, cl_vars, el_failover_active, cursor>>

-----------------------------------------------------------------------------
(***************************************************************************)
(* check_all_cl_nodes                                                      *)
(***************************************************************************)

StartClPass ==
  /\ pc = "cl_start"
  /\ pc' = "cl_check"
  /\ cursor' = 1
  /\ UNCHANGED <<el_vars, cl_vars, el_failover_active>>

ClAdvance ==
  IF cursor + 1 \in CL
    THEN cursor' = cursor + 1 /\ pc' = "cl_check"
    ELSE cursor' = 0 /\ pc' = "cl_head"

(***************************************************************************)
(* check_cl_node: the health endpoint first (any failure there is just     *)
(* `not ok'), then the slot.                                               *)
(***************************************************************************)
ClCheckOk(health_ok, slot) ==
  /\ pc = "cl_check"
  /\ cl_nodes' = [cl_nodes EXCEPT ![cursor].health_ok = health_ok,
                                  ![cursor].slot = slot]
  /\ ClAdvance
  /\ UNCHANGED <<el_vars, cl_chain_head, el_failover_active>>

(***************************************************************************)
(* The slot could not be read: unlike the EL pass, the height is reset.    *)
(***************************************************************************)
ClCheckErr ==
  /\ pc = "cl_check"
  /\ cl_nodes' = [cl_nodes EXCEPT ![cursor].health_ok = FALSE,
                                  ![cursor].slot = 0]
  /\ ClAdvance
  /\ UNCHANGED <<el_vars, cl_chain_head, el_failover_active>>

ClStoreHead ==
  /\ pc = "cl_head"
  /\ cl_chain_head' = update_cl_chain_head(cl_nodes)
  /\ pc' = "cl_calc"
  /\ UNCHANGED <<el_vars, cl_nodes, el_failover_active, cursor>>

ClSecondPass ==
  /\ pc = "cl_calc"
  /\ cl_nodes' = [n \in CL |->
       calculate_cl_health(cl_nodes[n], cl_chain_head, MaxClLag, MaxFailures)]
  /\ pc' = "flag"
  /\ UNCHANGED <<el_vars, cl_chain_head, el_failover_active, cursor>>

-----------------------------------------------------------------------------
\* Mutation of UpdateFailoverFlag: failover is never left.
UpdateFailoverLatched ==
  /\ pc = "flag"
  /\ el_failover_active' = (el_failover_active \/ ~any_primary_healthy)
  /\ pc' = "sleep"
  /\ UNCHANGED <<el_vars, cl_vars, cursor>>

\* Mutation of UpdateFailoverFlag: failover is never entered.
UpdateFailoverNever ==
  /\ pc = "flag"
  /\ el_failover_active' = (el_failover_active /\ ~any_primary_healthy)
  /\ pc' = "sleep"
  /\ UNCHANGED <<el_vars, cl_vars, cursor>>

UpdateFailoverFlag ==
  /\ pc = "flag"
  /\ el_failover_active' = ~any_primary_healthy
  /\ pc' = "sleep"
  /\ UNCHANGED <<el_vars, cl_vars, cursor>>

ElCheck == ElCheckErr \/ \E h \in Height : ElCheckOk(h)
ClCheck == ClCheckErr \/ \E ok \in BOOLEAN, s \in Height : ClCheckOk(ok, s)

Next ==
  \/ StartCycle \/ ElCheck \/ ElStoreHead \/ ElSecondPass
  \/ StartClPass \/ ClCheck \/ ClStoreHead \/ ClSecondPass
  \/ UpdateFailoverFlag

(***************************************************************************)
(* The runtime keeps running the task, the timer fires, and a check        *)
(* returns unless the node is one that may hang: the requests of           *)
(* check_el_node and check_cl_node have no timeout.                        *)
(***************************************************************************)
Answered ==
  /\ pc = "el_check" => cursor \notin HungEl
  /\ pc = "cl_check" => cursor \notin HungCl

Fairness == WF_vars(Answered /\ Next)

Spec == Init /\ [][Next]_vars
FairSpec == Spec /\ Fairness

-----------------------------------------------------------------------------
(***************************************************************************)
(* Locks.  The write lock of a vector is held across an await only during  *)
(* its first pass; the second pass takes and releases it in one step.      *)
(***************************************************************************)
ElLocked == pc = "el_check"
ClLocked == pc = "cl_check"
-----------------------------------------------------------------------------
(***************************************************************************)
(* Every variable stays in its domain; in particular the heights never     *)
(* exceed what was reported and the cursor is on a node during a pass.     *)
(***************************************************************************)
TypeOK ==
  /\ el_nodes \in [EL -> ElNodeState]
  /\ cl_nodes \in [CL -> ClNodeState]
  /\ el_chain_head \in Height
  /\ cl_chain_head \in Height
  /\ el_failover_active \in BOOLEAN
  /\ any_primary_healthy \in BOOLEAN
  /\ pc \in {"boot", "el_check", "el_head", "el_calc", "cl_start",
             "cl_check", "cl_head", "cl_calc", "flag", "sleep"}
  /\ pc = "el_check" => cursor \in EL
  /\ pc = "cl_check" => cursor \in CL
  /\ pc \notin {"el_check", "cl_check"} => cursor = 0

(***************************************************************************)
(* Nothing stale is used, although the write lock is released and taken    *)
(* again between the two passes: a chain head that has been stored is      *)
(* still the head of the nodes when the second pass reads it, and the      *)
(* local of run_health_check_cycle still agrees with the nodes when it     *)
(* becomes the failover flag, a whole CL pass after it was computed.       *)
(***************************************************************************)
FlagDue == pc \in {"cl_start", "cl_check", "cl_head", "cl_calc", "flag"}

HeadsStored ==
  /\ pc = "el_calc" => el_chain_head = update_el_chain_head(el_nodes)
  /\ pc = "cl_calc" => cl_chain_head = update_cl_chain_head(cl_nodes)

PrimariesCounted ==
  FlagDue => any_primary_healthy = (HealthyPrimaries(el_nodes) # {})

NothingStale == HeadsStored /\ PrimariesCounted

(***************************************************************************)
(* When the EL pass leaves no healthy node although node n answered, a     *)
(* node that did not answer is to blame: its old block number, kept by the *)
(* error path, is further ahead of n than the allowed lag.  Without such a *)
(* dead leader an answering node always keeps the proxy in service.        *)
(***************************************************************************)
ElOutageNeedsDeadLeader ==
  pc = "cl_start" /\ (\A n \in EL : ~el_nodes[n].is_healthy) =>
    \A n \in EL : el_nodes[n].check_ok =>
      \E m \in EL :
        /\ ~el_nodes[m].check_ok
        /\ el_nodes[m].block_number > el_nodes[n].block_number + MaxElLag

(***************************************************************************)
(* For the CL the error path resets the slot, so a node that fails without *)
(* answering cannot be to blame: the leader answered its slot in this very *)
(* cycle while its health endpoint refused (a syncing node, say).          *)
(***************************************************************************)
ClOutageNeedsSickLeader ==
  pc = "flag" /\ (\A n \in CL : ~cl_nodes[n].is_healthy) =>
    \A n \in CL : cl_nodes[n].health_ok =>
      \E m \in CL :
        /\ ~cl_nodes[m].health_ok
        /\ cl_nodes[m].slot > cl_nodes[n].slot + MaxClLag

(***************************************************************************)
(* The request handlers see the health of the EL nodes, their lock and the *)
(* failover flag only as MonitorInterface promises.                        *)
(***************************************************************************)
Interface == INSTANCE MonitorInterface WITH
  healthy  <- [n \in EL |-> el_nodes[n].is_healthy],
  failover <- el_failover_active,
  due      <- FlagDue,
  locked   <- ElLocked

KeepsInterface == Interface!ISpec

(***************************************************************************)
(* If no check hangs, the monitor for ever completes cycles, however many  *)
(* handlers queue for the locks it takes (Server).                         *)
(***************************************************************************)
CyclesForever == []<>(pc = "flag") /\ []<>(pc = "sleep")

(***************************************************************************)
(* A node that from some time on cannot be reached, or refuses health, is  *)
(* from some time on unhealthy: the counter gets to the threshold.         *)
(***************************************************************************)
DeadNodeIsDropped ==
  /\ \A n \in EL : <>[](~el_nodes[n].check_ok) => <>[](~el_nodes[n].is_healthy)
  /\ \A n \in CL : <>[](~cl_nodes[n].health_ok) => <>[](~cl_nodes[n].is_healthy)

(***************************************************************************)
(* A node that from some time on answers within the allowed lag is from    *)
(* some time on healthy, whatever its counter was.                         *)
(***************************************************************************)
RecoveredNodeServes ==
  /\ \A n \in EL :
       <>[](el_nodes[n].check_ok /\ el_nodes[n].lag <= MaxElLag) => <>[](el_nodes[n].is_healthy)
  /\ \A n \in CL :
       <>[](cl_nodes[n].health_ok /\ cl_nodes[n].lag <= MaxClLag) => <>[](cl_nodes[n].is_healthy)

(***************************************************************************)
(* AGENT.md:95, "Health monitoring runs on BOTH primary and backup nodes   *)
(* continuously", whatever a single node does; the test at el.rs:200 says  *)
(* a check `should fail on timeout/no response'.                           *)
(***************************************************************************)
MonitoringIsContinuous == \A n \in EL : []<>(pc = "el_check" /\ cursor = n)
=============================================================================
