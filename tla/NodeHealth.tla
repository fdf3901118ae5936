----------------------------- MODULE NodeHealth -----------------------------
(***************************************************************************)
(* The health arithmetic of src/src/health/el.rs and src/src/health/cl.rs: *)
(* the chain head, a node's lag behind it, and the verdict of one check.   *)
(***************************************************************************)
EXTENDS AppState, FiniteSetsExt

(***************************************************************************)
(* u64::saturating_sub: a node ahead of the head has lag 0.                *)
(***************************************************************************)
SaturatingSub(a, b) == IF a >= b THEN a - b ELSE 0

(***************************************************************************)
(* consecutive_failures += 1 on a u32; a release build wraps.              *)
(***************************************************************************)
NextFailure(f) == IF f + 1 = FailureWrap THEN 0 ELSE f + 1

(***************************************************************************)
(* The chain head: the maximum over every node, reachable or not; 0 for    *)
(* an empty vector.                                                        *)
(***************************************************************************)
update_el_chain_head(nodes) == Max({0} \cup {nodes[n].block_number : n \in EL})
update_cl_chain_head(nodes) == Max({0} \cup {nodes[n].slot : n \in CL})

\* Mutation of Verdict: a passed check does not reset the counter.
VerdictKeepsCount(node, passed, lag, max_failures) ==
  LET failures == IF passed THEN node.consecutive_failures
                  ELSE NextFailure(node.consecutive_failures)
  IN  [node EXCEPT !.lag = lag,
                   !.consecutive_failures = failures,
                   !.is_healthy = passed \/ (@ /\ failures < max_failures)]

\* Mutation of Verdict: being below the threshold is enough to be healthy.
VerdictRevives(node, passed, lag, max_failures) ==
  LET failures == IF passed THEN 0 ELSE NextFailure(node.consecutive_failures)
  IN  [node EXCEPT !.lag = lag,
                   !.consecutive_failures = failures,
                   !.is_healthy = passed \/ failures < max_failures]

\* Mutation of Verdict: the threshold is never compared.
VerdictNeverDrops(node, passed, lag, max_failures) ==
  LET failures == IF passed THEN 0 ELSE NextFailure(node.consecutive_failures)
  IN  [node EXCEPT !.lag = lag,
                   !.consecutive_failures = failures,
                   !.is_healthy = passed \/ @]

\* Mutation of Verdict: a passed check resets the counter and no more.
VerdictNeverRecovers(node, passed, lag, max_failures) ==
  LET failures == IF passed THEN 0 ELSE NextFailure(node.consecutive_failures)
  IN  [node EXCEPT !.lag = lag,
                   !.consecutive_failures = failures,
                   !.is_healthy = @ /\ failures < max_failures]

(***************************************************************************)
(* The debounce shared by both functions: a passed check makes the node    *)
(* healthy and forgets its failures; a failed one counts, and makes the    *)
(* node unhealthy only at the threshold.                                   *)
(***************************************************************************)
Verdict(node, passed, lag, max_failures) ==
  LET failures == IF passed THEN 0 ELSE NextFailure(node.consecutive_failures)
  IN  [node EXCEPT !.lag = lag,
                   !.consecutive_failures = failures,
                   !.is_healthy = passed \/ (@ /\ failures < max_failures)]

\* Mutation of calculate_el_health: the allowed lag is excluded.
StrictElHealth(node, chain_head, max_lag, max_failures) ==
  LET lag == SaturatingSub(chain_head, node.block_number)
  IN  Verdict(node, node.check_ok /\ lag < max_lag, lag, max_failures)

calculate_el_health(node, chain_head, max_lag, max_failures) ==
  LET lag == SaturatingSub(chain_head, node.block_number)
  IN  Verdict(node, node.check_ok /\ lag <= max_lag, lag, max_failures)

\* Mutation of calculate_cl_health: the allowed lag is excluded.
StrictClHealth(node, chain_head, max_lag, max_failures) ==
  LET lag == SaturatingSub(chain_head, node.slot)
  IN  Verdict(node, node.health_ok /\ lag < max_lag, lag, max_failures)

calculate_cl_health(node, chain_head, max_lag, max_failures) ==
  LET lag == SaturatingSub(chain_head, node.slot)
  IN  Verdict(node, node.health_ok /\ lag <= max_lag, lag, max_failures)
=============================================================================
