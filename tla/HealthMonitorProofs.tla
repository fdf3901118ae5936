------------------------ MODULE HealthMonitorProofs -------------------------
(***************************************************************************)
(* Proofs about HealthMonitor, for every number of nodes and every limit.  *)
(***************************************************************************)
EXTENDS HealthMonitor, TLAPS, NaturalsInduction, WellFoundedInduction

(***************************************************************************)
(* A non-empty set of heights has a largest element, and Max is it: the    *)
(* least of its upper bounds belongs to the set.                           *)
(***************************************************************************)
LEMMA MaxOfHeights ==
  ASSUME NEW S \in SUBSET Height, S # {}
  PROVE  Max(S) \in S /\ \A x \in S : Max(S) >= x
<1> DEFINE Bounds == {b \in Nat : \A x \in S : x <= b}
           Less == {r \in Nat \X Nat : r[1] < r[2]}
<1>1. Bounds # {}
  <2>1. MaxHeight \in Bounds
    BY ConfigAssumption DEF Height
  <2> QED BY <2>1
<1>2. PICK b \in Bounds : \A c \in Bounds : ~(<<c, b>> \in Less)
  <2>1. IsWellFoundedOn(Less, Nat)
    BY NatLessThanWellFounded DEF OpToRel
  <2>2. Bounds \subseteq Nat
    OBVIOUS
  <2> HIDE DEF Bounds, Less
  <2> QED BY <1>1, <2>1, <2>2, WFMin
<1>3. \A c \in Bounds : b <= c
  <2> SUFFICES ASSUME NEW c \in Bounds PROVE b <= c
    OBVIOUS
  <2>1. b \in Nat /\ c \in Nat
    OBVIOUS
  <2>2. ~(<<c, b>> \in Less)
    BY <1>2
  <2>3. ~(c < b)
    BY <2>1, <2>2
  <2> QED BY <2>1, <2>3
<1>4. b \in S
  <2> SUFFICES ASSUME b \notin S PROVE FALSE
    OBVIOUS
  <2>1. PICK x \in S : TRUE
    OBVIOUS
  <2>2. x \in Nat /\ x < b
    BY <1>2, ConfigAssumption DEF Height
  <2>3. b - 1 \in Nat /\ b - 1 < b
    BY <1>2, <2>2
  <2>4. \A y \in S : y <= b - 1
    BY <1>2, ConfigAssumption DEF Height
  <2> QED BY <1>3, <2>3, <2>4
<1>5. \E m \in S : \A y \in S : m >= y
  BY <1>2, <1>4, ConfigAssumption DEF Height
<1> QED BY <1>5 DEF Max

(***************************************************************************)
(* The chain heads are heights, no node is above them, and one is at them  *)
(* unless they are 0.                                                      *)
(***************************************************************************)
LEMMA ElHead ==
  ASSUME el_nodes \in [EL -> ElNodeState]
  PROVE  /\ update_el_chain_head(el_nodes) \in Height
         /\ \A n \in EL : el_nodes[n].block_number <= update_el_chain_head(el_nodes)
         /\ update_el_chain_head(el_nodes) # 0 =>
              \E m \in EL : el_nodes[m].block_number = update_el_chain_head(el_nodes)
<1> DEFINE S == {0} \cup {el_nodes[n].block_number : n \in EL}
<1>1. S \in SUBSET Height /\ S # {}
  BY ConfigAssumption DEF ElNodeState, Height
<1>2. Max(S) \in S /\ \A x \in S : Max(S) >= x
  BY <1>1, MaxOfHeights
<1> QED BY <1>1, <1>2 DEF update_el_chain_head, Height

LEMMA ClHead ==
  ASSUME cl_nodes \in [CL -> ClNodeState]
  PROVE  /\ update_cl_chain_head(cl_nodes) \in Height
         /\ \A n \in CL : cl_nodes[n].slot <= update_cl_chain_head(cl_nodes)
         /\ update_cl_chain_head(cl_nodes) # 0 =>
              \E m \in CL : cl_nodes[m].slot = update_cl_chain_head(cl_nodes)
<1> DEFINE S == {0} \cup {cl_nodes[n].slot : n \in CL}
<1>1. S \in SUBSET Height /\ S # {}
  BY ConfigAssumption DEF ClNodeState, Height
<1>2. Max(S) \in S /\ \A x \in S : Max(S) >= x
  BY <1>1, MaxOfHeights
<1> QED BY <1>1, <1>2 DEF update_cl_chain_head, Height

(***************************************************************************)
(* The verdict on a node keeps it a node state: the lag is a height and    *)
(* the counter stays below its modulus.                                    *)
(***************************************************************************)
LEMMA NextFailureType ==
  ASSUME NEW f \in FailureCount
  PROVE  NextFailure(f) \in FailureCount
BY WidthAssumption DEF NextFailure, FailureCount

LEMMA LagType ==
  ASSUME NEW a \in Height, NEW b \in Height
  PROVE  SaturatingSub(a, b) \in Height
BY ConfigAssumption DEF SaturatingSub, Height

LEMMA ElVerdictType ==
  ASSUME NEW node \in ElNodeState, NEW head \in Height
  PROVE  calculate_el_health(node, head, MaxElLag, MaxFailures) \in ElNodeState
<1>1. SaturatingSub(head, node.block_number) \in Height
  BY LagType DEF ElNodeState
<1>2. NextFailure(node.consecutive_failures) \in FailureCount /\ 0 \in FailureCount
  BY NextFailureType, WidthAssumption DEF ElNodeState, FailureCount
<1> QED BY <1>1, <1>2 DEF calculate_el_health, Verdict, ElNodeState

LEMMA ClVerdictType ==
  ASSUME NEW node \in ClNodeState, NEW head \in Height
  PROVE  calculate_cl_health(node, head, MaxClLag, MaxFailures) \in ClNodeState
<1>1. SaturatingSub(head, node.slot) \in Height
  BY LagType DEF ClNodeState
<1>2. NextFailure(node.consecutive_failures) \in FailureCount /\ 0 \in FailureCount
  BY NextFailureType, WidthAssumption DEF ClNodeState, FailureCount
<1> QED BY <1>1, <1>2 DEF calculate_cl_health, Verdict, ClNodeState
-----------------------------------------------------------------------------
(***************************************************************************)
(* Type correctness.                                                       *)
(***************************************************************************)
LEMMA InitType == Init => TypeOK
<1>1. 0 \in Height /\ 0 \in FailureCount
  BY ConfigAssumption, WidthAssumption DEF Height, FailureCount
<1>2. ElFromConfig \in ElNodeState
  BY <1>1 DEF ElFromConfig, ElNodeState
<1>3. ClFromConfig \in ClNodeState
  BY <1>1 DEF ClFromConfig, ClNodeState
<1> QED BY <1>1, <1>2, <1>3 DEF Init, TypeOK

LEMMA NextType == TypeOK /\ [Next]_vars => TypeOK'
<1> SUFFICES ASSUME TypeOK, [Next]_vars PROVE TypeOK'
  OBVIOUS
<1> USE DEF TypeOK, el_vars, cl_vars
<1>1. CASE StartCycle
  BY <1>1, ConfigAssumption DEF StartCycle, EL
<1>2. CASE ElCheck
  <2>1. cursor \in EL /\ pc = "el_check"
    BY <1>2 DEF ElCheck, ElCheckOk, ElCheckErr
  <2>2. el_nodes' \in [EL -> ElNodeState]
    <3>1. el_nodes[cursor] \in ElNodeState
      BY <2>1
    <3>2. CASE ElCheckErr
      <4>1. [el_nodes[cursor] EXCEPT !.check_ok = FALSE] \in ElNodeState
        BY <3>1 DEF ElNodeState
      <4> QED BY <3>2, <4>1 DEF ElCheckErr
    <3>3. CASE \E h \in Height : ElCheckOk(h)
      <4>1. PICK h \in Height : ElCheckOk(h)
        BY <3>3
      <4>2. [el_nodes[cursor] EXCEPT !.block_number = h, !.check_ok = TRUE] \in ElNodeState
        BY <3>1 DEF ElNodeState
      <4>3. el_nodes' = [el_nodes EXCEPT ![cursor] =
              [el_nodes[cursor] EXCEPT !.block_number = h, !.check_ok = TRUE]]
        BY <4>1, <2>1, <3>1 DEF ElCheckOk, ElNodeState
      <4> QED BY <4>2, <4>3
    <3> QED BY <1>2, <3>2, <3>3 DEF ElCheck
  <2>3. \/ cursor' \in EL /\ pc' = "el_check"
        \/ cursor' = 0 /\ pc' = "el_head"
    BY <1>2 DEF ElCheck, ElCheckOk, ElCheckErr, ElAdvance
  <2> QED BY <1>2, <2>2, <2>3 DEF ElCheck, ElCheckOk, ElCheckErr
<1>3. CASE ElStoreHead
  BY <1>3, ElHead DEF ElStoreHead
<1>4. CASE ElSecondPass
  <2>1. el_nodes' \in [EL -> ElNodeState]
    BY <1>4, ElVerdictType DEF ElSecondPass
  <2> QED BY <1>4, <2>1 DEF ElSecondPass
<1>5. CASE StartClPass
  BY <1>5, ConfigAssumption DEF StartClPass, CL
<1>6. CASE ClCheck
  <2>1. cursor \in CL /\ pc = "cl_check"
    BY <1>6 DEF ClCheck, ClCheckOk, ClCheckErr
  <2>2. cl_nodes' \in [CL -> ClNodeState]
    <3>1. cl_nodes[cursor] \in ClNodeState /\ 0 \in Height
      BY <2>1, ConfigAssumption DEF Height
    <3>2. ASSUME NEW ok \in BOOLEAN, NEW s \in Height,
                 cl_nodes' = [cl_nodes EXCEPT ![cursor].health_ok = ok, ![cursor].slot = s]
          PROVE  cl_nodes' \in [CL -> ClNodeState]
      <4>1. [cl_nodes[cursor] EXCEPT !.health_ok = ok, !.slot = s] \in ClNodeState
        BY <3>1 DEF ClNodeState
      <4>2. cl_nodes' = [cl_nodes EXCEPT ![cursor] =
              [cl_nodes[cursor] EXCEPT !.health_ok = ok, !.slot = s]]
        BY <3>2, <2>1, <3>1 DEF ClNodeState
      <4> QED BY <4>1, <4>2
    <3> QED BY <1>6, <3>1, <3>2 DEF ClCheck, ClCheckOk, ClCheckErr
  <2>3. \/ cursor' \in CL /\ pc' = "cl_check"
        \/ cursor' = 0 /\ pc' = "cl_head"
    BY <1>6 DEF ClCheck, ClCheckOk, ClCheckErr, ClAdvance
  <2> QED BY <1>6, <2>2, <2>3 DEF ClCheck, ClCheckOk, ClCheckErr
<1>7. CASE ClStoreHead
  BY <1>7, ClHead DEF ClStoreHead
<1>8. CASE ClSecondPass
  <2>1. cl_nodes' \in [CL -> ClNodeState]
    BY <1>8, ClVerdictType DEF ClSecondPass
  <2> QED BY <1>8, <2>1 DEF ClSecondPass
<1>9. CASE UpdateFailoverFlag
  BY <1>9 DEF UpdateFailoverFlag
<1>10. CASE UNCHANGED vars
  BY <1>10 DEF vars
<1> QED
  BY <1>1, <1>2, <1>3, <1>4, <1>5, <1>6, <1>7, <1>8, <1>9, <1>10 DEF Next

THEOREM TypeCorrect == Spec => []TypeOK
<1>1. TypeOK /\ [Next]_vars => TypeOK'
  BY NextType
<1> QED BY InitType, <1>1, PTL DEF Spec
-----------------------------------------------------------------------------
(***************************************************************************)
(* Nothing stale is used.  The inductive invariant is the property itself  *)
(* with the types; ElSecondPass establishes one half, and every step up to *)
(* UpdateFailoverFlag leaves the EL nodes alone.                           *)
(***************************************************************************)
LEMMA NextFresh == TypeOK /\ NothingStale /\ [Next]_vars => NothingStale'
<1> SUFFICES ASSUME TypeOK, NothingStale, [Next]_vars PROVE NothingStale'
  OBVIOUS
<1> USE DEF NothingStale, HeadsStored, PrimariesCounted, FlagDue,
            el_vars, cl_vars, HealthyPrimaries
<1>1. CASE StartCycle
  BY <1>1 DEF StartCycle
<1>2. CASE ElCheck
  <2>1. pc' \in {"el_check", "el_head"}
    BY <1>2 DEF ElCheck, ElCheckOk, ElCheckErr, ElAdvance
  <2> QED BY <2>1
<1>3. CASE ElStoreHead
  BY <1>3 DEF ElStoreHead, update_el_chain_head
<1>4. CASE ElSecondPass
  BY <1>4 DEF ElSecondPass
<1>5. CASE StartClPass
  BY <1>5 DEF StartClPass
<1>6. CASE ClCheck
  <2>1. pc' \in {"cl_check", "cl_head"} /\ FlagDue
    BY <1>6 DEF ClCheck, ClCheckOk, ClCheckErr, ClAdvance
  <2>2. UNCHANGED el_vars
    BY <1>6 DEF ClCheck, ClCheckOk, ClCheckErr
  <2> QED BY <2>1, <2>2
<1>7. CASE ClStoreHead
  BY <1>7 DEF ClStoreHead, update_cl_chain_head
<1>8. CASE ClSecondPass
  BY <1>8 DEF ClSecondPass
<1>9. CASE UpdateFailoverFlag
  BY <1>9 DEF UpdateFailoverFlag
<1>10. CASE UNCHANGED vars
  BY <1>10 DEF vars, update_el_chain_head, update_cl_chain_head
<1> QED
  BY <1>1, <1>2, <1>3, <1>4, <1>5, <1>6, <1>7, <1>8, <1>9, <1>10 DEF Next

THEOREM NeverStale == Spec => []NothingStale
<1>1. Init => NothingStale
  BY DEF Init, NothingStale, HeadsStored, PrimariesCounted, FlagDue
<1>2. TypeOK /\ NothingStale /\ [Next]_vars => NothingStale'
  BY NextFresh
<1> QED BY <1>1, <1>2, TypeCorrect, PTL DEF Spec
-----------------------------------------------------------------------------
(***************************************************************************)
(* Who is to blame for an outage.  A node that answered and is unhealthy   *)
(* after the second pass lags behind the head; the head is not 0 then and  *)
(* is the height of some node, which has lag 0 and would be healthy had it *)
(* answered.  No invariant beyond NothingStale is needed: the step that    *)
(* ends the pass establishes the property.                                 *)
(***************************************************************************)
LEMMA ElSecondPassOutage ==
  ASSUME TypeOK, NothingStale, ElSecondPass PROVE ElOutageNeedsDeadLeader'
<1> DEFINE head == el_chain_head
<1>1. /\ head = update_el_chain_head(el_nodes)
      /\ head \in Height /\ MaxElLag \in Nat /\ Height \subseteq Nat
  BY ConfigAssumption
     DEF TypeOK, NothingStale, HeadsStored, ElSecondPass, Height
<1>2. ASSUME NEW n \in EL
      PROVE  /\ el_nodes'[n].check_ok = el_nodes[n].check_ok
             /\ el_nodes'[n].block_number = el_nodes[n].block_number
             /\ el_nodes[n].block_number \in Nat
             /\ el_nodes[n].check_ok /\ head <= el_nodes[n].block_number + MaxElLag
                  => el_nodes'[n].is_healthy
  <2>1. /\ el_nodes[n] \in ElNodeState
        /\ el_nodes'[n] = calculate_el_health(el_nodes[n], head, MaxElLag, MaxFailures)
    BY DEF TypeOK, ElSecondPass
  <2>2. el_nodes[n].block_number \in Nat
    BY <1>1, <2>1 DEF ElNodeState
  <2>3. head <= el_nodes[n].block_number + MaxElLag =>
          SaturatingSub(head, el_nodes[n].block_number) <= MaxElLag
    BY <1>1, <2>2 DEF SaturatingSub
  <2> QED BY <2>1, <2>2, <2>3 DEF calculate_el_health, Verdict, ElNodeState
<1> SUFFICES ASSUME \A n \in EL : ~el_nodes'[n].is_healthy,
                    NEW n \in EL, el_nodes'[n].check_ok
             PROVE  \E m \in EL :
                      /\ ~el_nodes'[m].check_ok
                      /\ el_nodes'[m].block_number > el_nodes'[n].block_number + MaxElLag
  BY DEF ElOutageNeedsDeadLeader
<1>3. head > el_nodes[n].block_number + MaxElLag
  BY <1>1, <1>2
<1>4. PICK m \in EL : el_nodes[m].block_number = head
  <2>1. head # 0
    BY <1>1, <1>2, <1>3
  <2> QED BY <1>1, <2>1, ElHead DEF TypeOK
<1>5. ~el_nodes[m].check_ok
  BY <1>1, <1>2, <1>4
<1> QED BY <1>2, <1>3, <1>4, <1>5

LEMMA ClSecondPassOutage ==
  ASSUME TypeOK, NothingStale, ClSecondPass PROVE ClOutageNeedsSickLeader'
<1> DEFINE head == cl_chain_head
<1>1. /\ head = update_cl_chain_head(cl_nodes)
      /\ head \in Height /\ MaxClLag \in Nat /\ Height \subseteq Nat
  BY ConfigAssumption
     DEF TypeOK, NothingStale, HeadsStored, ClSecondPass, Height
<1>2. ASSUME NEW n \in CL
      PROVE  /\ cl_nodes'[n].health_ok = cl_nodes[n].health_ok
             /\ cl_nodes'[n].slot = cl_nodes[n].slot
             /\ cl_nodes[n].slot \in Nat
             /\ cl_nodes[n].health_ok /\ head <= cl_nodes[n].slot + MaxClLag
                  => cl_nodes'[n].is_healthy
  <2>1. /\ cl_nodes[n] \in ClNodeState
        /\ cl_nodes'[n] = calculate_cl_health(cl_nodes[n], head, MaxClLag, MaxFailures)
    BY DEF TypeOK, ClSecondPass
  <2>2. cl_nodes[n].slot \in Nat
    BY <1>1, <2>1 DEF ClNodeState
  <2>3. head <= cl_nodes[n].slot + MaxClLag =>
          SaturatingSub(head, cl_nodes[n].slot) <= MaxClLag
    BY <1>1, <2>2 DEF SaturatingSub
  <2> QED BY <2>1, <2>2, <2>3 DEF calculate_cl_health, Verdict, ClNodeState
<1> SUFFICES ASSUME \A n \in CL : ~cl_nodes'[n].is_healthy,
                    NEW n \in CL, cl_nodes'[n].health_ok
             PROVE  \E m \in CL :
                      /\ ~cl_nodes'[m].health_ok
                      /\ cl_nodes'[m].slot > cl_nodes'[n].slot + MaxClLag
  BY DEF ClOutageNeedsSickLeader
<1>3. head > cl_nodes[n].slot + MaxClLag
  BY <1>1, <1>2
<1>4. PICK m \in CL : cl_nodes[m].slot = head
  <2>1. head # 0
    BY <1>1, <1>2, <1>3
  <2> QED BY <1>1, <2>1, ClHead DEF TypeOK
<1>5. ~cl_nodes[m].health_ok
  BY <1>1, <1>2, <1>4
<1> QED BY <1>2, <1>3, <1>4, <1>5

(***************************************************************************)
(* Every other step leaves the property alone: it does not end in the      *)
(* control state the property speaks of, or it changes nothing.            *)
(***************************************************************************)
LEMMA NextElOutage ==
  TypeOK /\ NothingStale /\ ElOutageNeedsDeadLeader /\ [Next]_vars
    => ElOutageNeedsDeadLeader'
<1> SUFFICES ASSUME TypeOK, NothingStale, ElOutageNeedsDeadLeader, [Next]_vars
             PROVE  ElOutageNeedsDeadLeader'
  OBVIOUS
<1>1. CASE ElSecondPass
  BY <1>1, ElSecondPassOutage
<1>2. CASE UNCHANGED vars
  BY <1>2 DEF vars, el_vars, ElOutageNeedsDeadLeader
<1>3. CASE \/ StartCycle \/ ElCheck \/ ElStoreHead \/ StartClPass \/ ClCheck
           \/ ClStoreHead \/ ClSecondPass \/ UpdateFailoverFlag
  <2>1. pc' # "cl_start"
    BY <1>3 DEF StartCycle, ElCheck, ElCheckOk, ElCheckErr, ElAdvance, ElStoreHead,
                StartClPass, ClCheck, ClCheckOk, ClCheckErr, ClAdvance, ClStoreHead,
                ClSecondPass, UpdateFailoverFlag
  <2> QED BY <2>1 DEF ElOutageNeedsDeadLeader
<1> QED BY <1>1, <1>2, <1>3 DEF Next

LEMMA NextClOutage ==
  TypeOK /\ NothingStale /\ ClOutageNeedsSickLeader /\ [Next]_vars
    => ClOutageNeedsSickLeader'
<1> SUFFICES ASSUME TypeOK, NothingStale, ClOutageNeedsSickLeader, [Next]_vars
             PROVE  ClOutageNeedsSickLeader'
  OBVIOUS
<1>1. CASE ClSecondPass
  BY <1>1, ClSecondPassOutage
<1>2. CASE UNCHANGED vars
  BY <1>2 DEF vars, cl_vars, ClOutageNeedsSickLeader
<1>3. CASE \/ StartCycle \/ ElCheck \/ ElStoreHead \/ ElSecondPass \/ StartClPass
           \/ ClCheck \/ ClStoreHead \/ UpdateFailoverFlag
  <2>1. pc' # "flag"
    BY <1>3 DEF StartCycle, ElCheck, ElCheckOk, ElCheckErr, ElAdvance, ElStoreHead,
                ElSecondPass, StartClPass, ClCheck, ClCheckOk, ClCheckErr, ClAdvance,
                ClStoreHead, UpdateFailoverFlag
  <2> QED BY <2>1 DEF ClOutageNeedsSickLeader
<1> QED BY <1>1, <1>2, <1>3 DEF Next

THEOREM ElOutageExplained == Spec => []ElOutageNeedsDeadLeader
<1>1. Init => ElOutageNeedsDeadLeader
  BY DEF Init, ElOutageNeedsDeadLeader
<1>2. TypeOK /\ NothingStale /\ ElOutageNeedsDeadLeader /\ [Next]_vars
        => ElOutageNeedsDeadLeader'
  BY NextElOutage
<1> QED BY <1>1, <1>2, TypeCorrect, NeverStale, PTL DEF Spec

THEOREM ClOutageExplained == Spec => []ClOutageNeedsSickLeader
<1>1. Init => ClOutageNeedsSickLeader
  BY DEF Init, ClOutageNeedsSickLeader
<1>2. TypeOK /\ NothingStale /\ ClOutageNeedsSickLeader /\ [Next]_vars
        => ClOutageNeedsSickLeader'
  BY NextClOutage
<1> QED BY <1>1, <1>2, TypeCorrect, NeverStale, PTL DEF Spec
-----------------------------------------------------------------------------
(***************************************************************************)
(* A check of the first pass touches neither the verdict on a node nor its *)
(* failure counter.                                                        *)
(***************************************************************************)
LEMMA ElCheckKeepsVerdict ==
  ASSUME TypeOK, ElCheck
  PROVE  \A n \in EL :
           /\ el_nodes'[n].is_healthy = el_nodes[n].is_healthy
           /\ el_nodes'[n].consecutive_failures = el_nodes[n].consecutive_failures
<1> SUFFICES ASSUME NEW n \in EL
             PROVE  /\ el_nodes'[n].is_healthy = el_nodes[n].is_healthy
                    /\ el_nodes'[n].consecutive_failures = el_nodes[n].consecutive_failures
  OBVIOUS
<1>1. cursor \in EL /\ el_nodes[n] \in ElNodeState
  BY DEF TypeOK, ElCheck, ElCheckOk, ElCheckErr
<1>2. CASE ElCheckErr
  <2>1. el_nodes'[n] = IF n = cursor THEN [el_nodes[n] EXCEPT !.check_ok = FALSE]
                                     ELSE el_nodes[n]
    BY <1>2, <1>1 DEF TypeOK, ElCheckErr
  <2> QED BY <2>1, <1>1 DEF ElNodeState
<1>3. CASE \E h \in Height : ElCheckOk(h)
  <2>1. PICK h \in Height : ElCheckOk(h)
    BY <1>3
  <2>2. el_nodes'[n] = IF n = cursor
                         THEN [el_nodes[n] EXCEPT !.block_number = h, !.check_ok = TRUE]
                         ELSE el_nodes[n]
    BY <2>1, <1>1 DEF TypeOK, ElCheckOk, ElNodeState
  <2> QED BY <2>2, <1>1 DEF ElNodeState
<1> QED BY <1>2, <1>3 DEF ElCheck

LEMMA ClCheckKeepsVerdict ==
  ASSUME TypeOK, ClCheck
  PROVE  \A n \in CL :
           /\ cl_nodes'[n].is_healthy = cl_nodes[n].is_healthy
           /\ cl_nodes'[n].consecutive_failures = cl_nodes[n].consecutive_failures
<1> SUFFICES ASSUME NEW n \in CL
             PROVE  /\ cl_nodes'[n].is_healthy = cl_nodes[n].is_healthy
                    /\ cl_nodes'[n].consecutive_failures = cl_nodes[n].consecutive_failures
  OBVIOUS
<1>1. cursor \in CL /\ cl_nodes[n] \in ClNodeState
  BY DEF TypeOK, ClCheck, ClCheckOk, ClCheckErr
<1>2. PICK ok \in BOOLEAN, s \in Height \cup {0} :
        cl_nodes' = [cl_nodes EXCEPT ![cursor].health_ok = ok, ![cursor].slot = s]
  BY DEF ClCheck, ClCheckOk, ClCheckErr
<1>3. cl_nodes'[n] = IF n = cursor
                       THEN [cl_nodes[n] EXCEPT !.health_ok = ok, !.slot = s]
                       ELSE cl_nodes[n]
  BY <1>1, <1>2 DEF TypeOK, ClNodeState
<1> QED BY <1>1, <1>3 DEF ClNodeState
-----------------------------------------------------------------------------
(***************************************************************************)
(* The monitor implements MonitorInterface: only ElSecondPass publishes    *)
(* health, and with the types and NothingStale the flag published is the   *)
(* one the health calls for.  StartCycle takes the lock, the check of the  *)
(* last node releases it; every other step is a stutter.                   *)
(***************************************************************************)
THEOREM ImplementsInterface == Spec => KeepsInterface
<1>1. Init => Interface!IInit
  BY DEF Init, Interface!IInit, ElFromConfig, FlagDue, ElLocked, Interface!EL, EL
<1>2. TypeOK /\ NothingStale /\ TypeOK' /\ [Next]_vars
        => [Interface!INext]_(Interface!ivars)
  <2> SUFFICES ASSUME TypeOK, NothingStale, TypeOK', [Next]_vars
               PROVE  Interface!INext \/ UNCHANGED Interface!ivars
    OBVIOUS
  <2> USE DEF Interface!ivars, Interface!EL, EL, el_vars, cl_vars, ElLocked
  <2>1. CASE ElSecondPass
    <3>1. [n \in EL |-> el_nodes'[n].is_healthy] \in [EL -> BOOLEAN]
      BY DEF TypeOK, ElNodeState
    <3> QED BY <2>1, <3>1
            DEF ElSecondPass, FlagDue, Interface!INext, Interface!PublishHealth
  <2>2. CASE UpdateFailoverFlag
    <3>1. any_primary_healthy = (HealthyPrimaries(el_nodes) # {})
      BY <2>2 DEF UpdateFailoverFlag, NothingStale, PrimariesCounted, FlagDue
    <3>2. (~any_primary_healthy) = Interface!NoPrimary
      BY <3>1 DEF TypeOK, HealthyPrimaries, Interface!NoPrimary, Interface!IsPrimary, IsPrimary, ElNodeState
    <3> QED BY <2>2, <3>2
            DEF UpdateFailoverFlag, FlagDue, Interface!INext, Interface!PublishFailover
  <2>3. CASE ElCheck
    <3>1. pc = "el_check" /\ pc' \in {"el_check", "el_head"} /\ UNCHANGED el_failover_active
      BY <2>3 DEF ElCheck, ElCheckOk, ElCheckErr, ElAdvance
    <3>2. \A n \in EL : el_nodes'[n].is_healthy = el_nodes[n].is_healthy
      BY <2>3, ElCheckKeepsVerdict
    <3> QED BY <3>1, <3>2 DEF FlagDue, Interface!INext, Interface!ReleaseLock
  <2>4. CASE ClCheck
    <3>1. pc = "cl_check" /\ pc' \in {"cl_check", "cl_head"}
      BY <2>4 DEF ClCheck, ClCheckOk, ClCheckErr, ClAdvance
    <3>2. UNCHANGED <<el_nodes, el_failover_active>>
      BY <2>4 DEF ClCheck, ClCheckOk, ClCheckErr
    <3> QED BY <3>1, <3>2 DEF FlagDue
  <2>5. CASE StartCycle
    BY <2>5 DEF StartCycle, FlagDue, Interface!INext, Interface!TakeLock
  <2>6. CASE ElStoreHead \/ StartClPass \/ ClStoreHead \/ ClSecondPass
    BY <2>6 DEF ElStoreHead, StartClPass, ClStoreHead, ClSecondPass, FlagDue
  <2>7. CASE UNCHANGED vars
    BY <2>7 DEF vars, FlagDue
  <2> QED BY <2>1, <2>2, <2>3, <2>4, <2>5, <2>6, <2>7 DEF Next
<1> QED
  BY <1>1, <1>2, TypeCorrect, NeverStale, PTL
     DEF Spec, KeepsInterface, Interface!ISpec
=============================================================================
