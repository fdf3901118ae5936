----------------------------- MODULE Selection ------------------------------
(***************************************************************************)
(* Node selection (src/src/proxy/selection.rs).  iter().find(..) returns   *)
(* the first match of the vector, hence the least position.                *)
(***************************************************************************)
EXTENDS AppState, FiniteSetsExt

First(S) == IF S = {} THEN NoNode ELSE Min(S)

\* Mutation of select_el_node: in failover the primaries are not looked at.
SelectBackupsOnly(nodes, failover_active) ==
  IF failover_active THEN First(HealthyBackups(nodes))
                     ELSE First(HealthyPrimaries(nodes))

select_el_node(nodes, failover_active) ==
  IF HealthyPrimaries(nodes) # {} THEN First(HealthyPrimaries(nodes))
  ELSE IF failover_active         THEN First(HealthyBackups(nodes))
  ELSE NoNode

select_cl_node(nodes) == First({n \in CL : nodes[n].is_healthy})
=============================================================================
