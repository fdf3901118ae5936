--------------------------- MODULE VerdictHistory ---------------------------
(***************************************************************************)
(* The health monitor with two history variables: the verdicts of the last *)
(* K checks of every node.  A verdict is read off the fields the check     *)
(* left behind (reachable, and not lagging), never off the counter, so the *)
(* history is independent of the counter it is compared with.              *)
(***************************************************************************)
EXTENDS HealthMonitor

VARIABLES el_window, cl_window

hvars == <<vars, el_window, cl_window>>

(***************************************************************************)
(* Both 0 and 1 failures mark a node unhealthy at its first failed check.  *)
(***************************************************************************)
K == IF MaxFailures = 0 THEN 1 ELSE MaxFailures

ElDebounce == INSTANCE Debounce WITH
  Node <- EL, window <- el_window,
  healthy <- [n \in EL |-> el_nodes[n].is_healthy]

ClDebounce == INSTANCE Debounce WITH
  Node <- CL, window <- cl_window,
  healthy <- [n \in CL |-> cl_nodes[n].is_healthy]

ElPassed(n) == el_nodes[n].check_ok /\ el_nodes[n].lag <= MaxElLag
ClPassed(n) == cl_nodes[n].health_ok /\ cl_nodes[n].lag <= MaxClLag

HInit ==
  /\ Init
  /\ el_window = [n \in EL |-> [i \in 1 .. K |-> FALSE]]
  /\ cl_window = [n \in CL |-> [i \in 1 .. K |-> FALSE]]

RecordEl == el_window' = [n \in EL |-> ElDebounce!Shift(el_window[n], ElPassed(n)')]
RecordCl == cl_window' = [n \in CL |-> ClDebounce!Shift(cl_window[n], ClPassed(n)')]

HNext ==
  \/ /\ StartCycle \/ ElCheck \/ ElStoreHead
     /\ UNCHANGED <<el_window, cl_window>>
  \/ ElSecondPass /\ RecordEl /\ UNCHANGED cl_window
  \/ /\ StartClPass \/ ClCheck \/ ClStoreHead
     /\ UNCHANGED <<el_window, cl_window>>
  \/ ClSecondPass /\ RecordCl /\ UNCHANGED el_window
  \/ UpdateFailoverFlag /\ UNCHANGED <<el_window, cl_window>>

HSpec == HInit /\ [][HNext]_hvars

(***************************************************************************)
(* The fairness of the monitor: the history adds no condition to a step.   *)
(***************************************************************************)
HFairSpec == HSpec /\ WF_hvars(Answered /\ HNext)

-----------------------------------------------------------------------------
(***************************************************************************)
(* A node is healthy exactly when one of its last K checks passed, whatever*)
(* the order of passed and failed checks and however long the node has     *)
(* been failing: the counter may wrap (u32) without reviving a dead node.  *)
(***************************************************************************)
ElDebounced == ElDebounce!DSpec

(***************************************************************************)
(* The same for the CL nodes: calculate_cl_health debounces as the EL does.*)
(***************************************************************************)
ClDebounced == ClDebounce!DSpec
=============================================================================
