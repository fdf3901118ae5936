-------------------------- MODULE MonitorInterface --------------------------
(***************************************************************************)
(* What the health monitor promises to the request handlers, which read    *)
(* only the `is_healthy' fields of AppState.el_nodes, under its read lock, *)
(* and the flag el_failover_active:                                        *)
(*   - the health of all EL nodes changes at once, never node by node, and *)
(*     not while the monitor holds the write lock across its checks;       *)
(*   - after each change the flag is set to `no primary is healthy' before *)
(*     the health changes again, and it changes at no other time;          *)
(*   - the lock is not held across awaits while the flag is still to be    *)
(*     set.  It may be held for ever: the checks have no timeout.          *)
(* Between the two the flag may contradict the health: `due' says so.      *)
(***************************************************************************)
EXTENDS AppState

VARIABLES
  healthy,    \* the is_healthy field of each EL node
  failover,   \* el_failover_active
  due,        \* the health has changed and the flag has not been updated yet
  locked      \* the write lock of el_nodes is held across the checks

ivars == <<healthy, failover, due, locked>>

ITypeOK ==
  /\ healthy \in [EL -> BOOLEAN]
  /\ failover \in BOOLEAN
  /\ due \in BOOLEAN
  /\ locked \in BOOLEAN

NoPrimary == \A n \in EL : IsPrimary(n) => ~healthy[n]

IInit ==
  /\ healthy = [n \in EL |-> FALSE]
  /\ failover = FALSE
  /\ due = FALSE
  /\ locked = FALSE

TakeLock ==
  /\ ~locked /\ ~due
  /\ locked' = TRUE
  /\ UNCHANGED <<healthy, failover, due>>

ReleaseLock ==
  /\ locked
  /\ locked' = FALSE
  /\ UNCHANGED <<healthy, failover, due>>

PublishHealth ==
  /\ ~due /\ ~locked
  /\ healthy' \in [EL -> BOOLEAN]
  /\ due' = TRUE
  /\ UNCHANGED <<failover, locked>>

PublishFailover ==
  /\ due
  /\ failover' = NoPrimary
  /\ due' = FALSE
  /\ UNCHANGED <<healthy, locked>>

INext == TakeLock \/ ReleaseLock \/ PublishHealth \/ PublishFailover

ISpec == IInit /\ [][INext]_ivars
=============================================================================
