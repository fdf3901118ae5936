------------------------------ MODULE AppState ------------------------------
(***************************************************************************)
(* The data shared by every task of Vixy (src/src/state.rs): the vectors   *)
(* of EL and CL node states and the limits that come from the              *)
(* configuration.  Nodes are numbered in the order of the vectors, which   *)
(* AppState::new fills with the primary EL nodes first and the backup EL   *)
(* nodes after them, so `is_primary' is a property of the position.        *)
(* Names and URLs never change and are represented by the position.        *)
(***************************************************************************)
EXTENDS Naturals

CONSTANTS
  NumPrimary,     \* number of [[el.primary]] entries
  NumBackup,      \* number of [[el.backup]] entries
  NumCl,          \* number of [[cl]] entries
  MaxElLag,       \* global.max_el_lag_blocks
  MaxClLag,       \* global.max_cl_lag_slots
  MaxFailures,    \* global.health_check_max_failures
  MaxHeight,      \* largest block number or slot: u64::MAX in the code
  FailureWrap     \* the modulus of consecutive_failures: 2^32 in the code

(***************************************************************************)
(* Config::validate refuses a configuration without a primary EL node or   *)
(* without a CL node; every other limit is any unsigned number.            *)
(***************************************************************************)
ASSUME ConfigAssumption ==
  /\ NumPrimary \in Nat /\ NumPrimary >= 1
  /\ NumBackup \in Nat
  /\ NumCl \in Nat /\ NumCl >= 1
  /\ MaxElLag \in Nat
  /\ MaxClLag \in Nat
  /\ MaxHeight \in Nat

(***************************************************************************)
(* health_check_max_failures and consecutive_failures are both u32.        *)
(***************************************************************************)
ASSUME WidthAssumption ==
  /\ FailureWrap \in Nat /\ FailureWrap >= 2
  /\ MaxFailures \in 0 .. (FailureWrap - 1)

EL == 1 .. (NumPrimary + NumBackup)
CL == 1 .. NumCl

IsPrimary(n) == n <= NumPrimary

NoNode == 0    \* the None of a selection

Height == 0 .. MaxHeight
FailureCount == 0 .. (FailureWrap - 1)

ElNodeState ==
  [block_number : Height, check_ok : BOOLEAN, is_healthy : BOOLEAN,
   lag : Height, consecutive_failures : FailureCount]

ClNodeState ==
  [slot : Height, health_ok : BOOLEAN, is_healthy : BOOLEAN,
   lag : Height, consecutive_failures : FailureCount]

(***************************************************************************)
(* ElNodeState::from_config and ClNodeState::from_config: a node starts    *)
(* unchecked and unhealthy, at height 0.                                   *)
(***************************************************************************)
ElFromConfig ==
  [block_number |-> 0, check_ok |-> FALSE, is_healthy |-> FALSE,
   lag |-> 0, consecutive_failures |-> 0]

ClFromConfig ==
  [slot |-> 0, health_ok |-> FALSE, is_healthy |-> FALSE,
   lag |-> 0, consecutive_failures |-> 0]

HealthyPrimaries(nodes) == {n \in EL : IsPrimary(n) /\ nodes[n].is_healthy}
HealthyBackups(nodes)   == {n \in EL : ~IsPrimary(n) /\ nodes[n].is_healthy}
=============================================================================
