---------------------------- MODULE StatusProofs ----------------------------
(***************************************************************************)
(* Proofs about StatusEndpoint, for every number of nodes and every limit. *)
(***************************************************************************)
EXTENDS StatusEndpoint, HealthMonitorProofs

ElWork == {"el_check", "el_head", "el_calc"}
ClWork == {"cl_check", "cl_head", "cl_calc"}

(***************************************************************************)
(* Outside its EL pass the monitor leaves the EL part of AppState with the *)
(* head of its nodes and the lags behind it; the same for the CL; and from *)
(* the end of a cycle to the next EL verdicts the flag is that of the      *)
(* nodes.                                                                  *)
(***************************************************************************)
ElSettled ==
  pc \notin ElWork =>
    /\ el_chain_head = update_el_chain_head(el_nodes)
    /\ \A n \in EL : el_nodes[n].lag = el_chain_head - el_nodes[n].block_number

ClSettled ==
  pc \notin ClWork =>
    /\ cl_chain_head = update_cl_chain_head(cl_nodes)
    /\ \A n \in CL : cl_nodes[n].lag = cl_chain_head - cl_nodes[n].slot

FlagSettled ==
  /\ cycled \in BOOLEAN
  /\ pc = "sleep" => cycled
  /\ cycled /\ ~FlagDue => el_failover_active = (HealthyPrimaries(el_nodes) = {})

Monitored == TypeOK /\ NothingStale /\ ElSettled /\ ClSettled

(***************************************************************************)
(* What the handler has read is still so, unless `overlap' has recorded    *)
(* the work of the monitor that made it old.                               *)
(***************************************************************************)
StatusType ==
  [at : {"idle", "cl_head", "flag", "el_nodes", "cl_nodes"}, queued : BOOLEAN,
   el_head : Height, cl_head : Height, flag : BOOLEAN]

ElHeadCurrent ==
  status.at \in {"cl_head", "flag", "el_nodes"} /\ "el" \notin overlap =>
    pc \notin ElWork /\ status.el_head = el_chain_head

ClHeadCurrent ==
  status.at \in {"flag", "el_nodes", "cl_nodes"} /\ "cl" \notin overlap =>
    pc \notin ClWork /\ status.cl_head = cl_chain_head

FlagCurrent ==
  status.at = "el_nodes" /\ "flag" \notin overlap =>
    ~FlagDue /\ status.flag = el_failover_active

StatusInv ==
  /\ Monitored /\ FlagSettled /\ status \in StatusType
  /\ ElHeadCurrent /\ ClHeadCurrent /\ FlagCurrent

-----------------------------------------------------------------------------
(***************************************************************************)
(* The second passes settle what the first ones have disturbed.            *)
(***************************************************************************)
LEMMA ElSecondPassSettles ==
  ASSUME TypeOK, NothingStale, ElSecondPass
  PROVE  ElSettled'
<1>1. /\ el_chain_head = update_el_chain_head(el_nodes) /\ el_chain_head \in Height
      /\ el_chain_head' = el_chain_head
      /\ \A n \in EL : el_nodes[n].block_number <= el_chain_head
  BY ElHead DEF TypeOK, NothingStale, HeadsStored, ElSecondPass
<1>2. ASSUME NEW n \in EL
      PROVE  /\ el_nodes'[n].block_number = el_nodes[n].block_number
             /\ el_nodes'[n].lag = el_chain_head - el_nodes[n].block_number
  <2>1. /\ el_nodes[n] \in ElNodeState
        /\ el_nodes'[n] =
             calculate_el_health(el_nodes[n], el_chain_head, MaxElLag, MaxFailures)
    BY DEF TypeOK, ElSecondPass
  <2>2. SaturatingSub(el_chain_head, el_nodes[n].block_number)
          = el_chain_head - el_nodes[n].block_number
    BY <1>1, <2>1, ConfigAssumption DEF SaturatingSub, Height, ElNodeState
  <2> QED
    BY <2>1, <2>2 DEF calculate_el_health, Verdict, ElNodeState
<1>3. update_el_chain_head(el_nodes)' = update_el_chain_head(el_nodes)
  <2>1. {el_nodes'[n].block_number : n \in EL} = {el_nodes[n].block_number : n \in EL}
    BY <1>2
  <2> QED
    BY <2>1 DEF update_el_chain_head
<1> QED
  BY <1>1, <1>2, <1>3 DEF ElSettled

LEMMA ClSecondPassSettles ==
  ASSUME TypeOK, NothingStale, ClSecondPass
  PROVE  ClSettled'
<1>1. /\ cl_chain_head = update_cl_chain_head(cl_nodes) /\ cl_chain_head \in Height
      /\ cl_chain_head' = cl_chain_head
      /\ \A n \in CL : cl_nodes[n].slot <= cl_chain_head
  BY ClHead DEF TypeOK, NothingStale, HeadsStored, ClSecondPass
<1>2. ASSUME NEW n \in CL
      PROVE  /\ cl_nodes'[n].slot = cl_nodes[n].slot
             /\ cl_nodes'[n].lag = cl_chain_head - cl_nodes[n].slot
  <2>1. /\ cl_nodes[n] \in ClNodeState
        /\ cl_nodes'[n] =
             calculate_cl_health(cl_nodes[n], cl_chain_head, MaxClLag, MaxFailures)
    BY DEF TypeOK, ClSecondPass
  <2>2. SaturatingSub(cl_chain_head, cl_nodes[n].slot) = cl_chain_head - cl_nodes[n].slot
    BY <1>1, <2>1, ConfigAssumption DEF SaturatingSub, Height, ClNodeState
  <2> QED
    BY <2>1, <2>2 DEF calculate_cl_health, Verdict, ClNodeState
<1>3. update_cl_chain_head(cl_nodes)' = update_cl_chain_head(cl_nodes)
  <2>1. {cl_nodes'[n].slot : n \in CL} = {cl_nodes[n].slot : n \in CL}
    BY <1>2
  <2> QED
    BY <2>1 DEF update_cl_chain_head
<1> QED
  BY <1>1, <1>2, <1>3 DEF ClSettled

LEMMA MonitoredInit == Init => Monitored
<1> SUFFICES ASSUME Init PROVE Monitored
  OBVIOUS
<1>1. TypeOK /\ NothingStale
  BY InitType DEF Init, NothingStale, HeadsStored, PrimariesCounted, FlagDue
<1>2. /\ \A n \in EL : el_nodes[n].block_number = 0 /\ el_nodes[n].lag = 0
      /\ \A n \in CL : cl_nodes[n].slot = 0 /\ cl_nodes[n].lag = 0
      /\ el_chain_head = 0 /\ cl_chain_head = 0
  BY DEF Init, ElFromConfig, ClFromConfig
<1>3. update_el_chain_head(el_nodes) = 0
  BY <1>1, <1>2, ElHead DEF TypeOK
<1>4. update_cl_chain_head(cl_nodes) = 0
  BY <1>1, <1>2, ClHead DEF TypeOK
<1> QED
  BY <1>1, <1>2, <1>3, <1>4 DEF Monitored, ElSettled, ClSettled

LEMMA MonitoredNext == Monitored /\ [Next]_vars => Monitored'
<1> SUFFICES ASSUME Monitored, [Next]_vars PROVE Monitored'
  OBVIOUS
<1>1. TypeOK' /\ NothingStale'
  BY NextType, NextFresh DEF Monitored
<1>2. CASE ElSecondPass
  <2>1. UNCHANGED cl_vars /\ pc \notin ClWork
    BY <1>2 DEF ElSecondPass, ClWork
  <2> QED
    BY <1>1, <1>2, <2>1, ElSecondPassSettles DEF Monitored, ClSettled, cl_vars
<1>3. CASE ClSecondPass
  <2>1. UNCHANGED el_vars /\ pc \notin ElWork
    BY <1>3 DEF ClSecondPass, ElWork
  <2> QED
    BY <1>1, <1>3, <2>1, ClSecondPassSettles DEF Monitored, ElSettled, el_vars
<1>4. CASE StartCycle \/ ElCheck \/ ElStoreHead
  <2>1. UNCHANGED cl_vars /\ pc \notin ClWork /\ pc' \in ElWork
    BY <1>4 DEF StartCycle, ElCheck, ElCheckOk, ElCheckErr, ElAdvance, ElStoreHead,
                ElWork, ClWork
  <2> QED
    BY <1>1, <2>1 DEF Monitored, ElSettled, ClSettled, cl_vars
<1>5. CASE StartClPass \/ ClCheck \/ ClStoreHead
  <2>1. UNCHANGED el_vars /\ pc \notin ElWork /\ pc' \in ClWork
    BY <1>5 DEF StartClPass, ClCheck, ClCheckOk, ClCheckErr, ClAdvance, ClStoreHead,
                ElWork, ClWork
  <2> QED
    BY <1>1, <2>1 DEF Monitored, ElSettled, ClSettled, el_vars
<1>6. CASE UpdateFailoverFlag \/ UNCHANGED vars
  <2>1. UNCHANGED <<el_vars, cl_vars>> /\ (pc \notin ElWork \cup ClWork \/ UNCHANGED pc)
    BY <1>6 DEF UpdateFailoverFlag, vars, ElWork, ClWork
  <2> QED
    BY <1>1, <2>1 DEF Monitored, ElSettled, ClSettled, el_vars, cl_vars
<1> QED
  BY <1>2, <1>3, <1>4, <1>5, <1>6 DEF Next

-----------------------------------------------------------------------------
(***************************************************************************)
(* What the monitor leaves alone outside the stretches that are recorded.  *)
(***************************************************************************)
LEMMA MonitorKeeps ==
  ASSUME TypeOK, Next
  PROVE  /\ pc \notin ElWork \/ pc' \notin ElWork => el_chain_head' = el_chain_head
         /\ pc \notin ClWork \/ pc' \notin ClWork => cl_chain_head' = cl_chain_head
         /\ ~FlagDue => UNCHANGED el_failover_active
BY DEF Next, StartCycle, ElCheck, ElCheckOk, ElCheckErr, ElStoreHead, ElSecondPass,
       StartClPass, ClCheck, ClCheckOk, ClCheckErr, ClStoreHead, ClSecondPass,
       UpdateFailoverFlag, ElWork, ClWork, FlagDue, el_vars, cl_vars

LEMMA FlagSettledNext ==
  ASSUME Monitored, FlagSettled, Next, cycled' = (cycled \/ pc' = "sleep")
  PROVE  FlagSettled'
<1>1. CASE StartCycle \/ ElStoreHead
  <2>1. /\ UNCHANGED <<el_nodes, el_failover_active>> /\ ~FlagDue
        /\ pc' # "sleep"
    BY <1>1 DEF StartCycle, ElStoreHead, el_vars, FlagDue
  <2> QED
    BY <2>1 DEF FlagSettled, HealthyPrimaries
<1>2. CASE ElCheck
  <2>1. UNCHANGED el_failover_active /\ ~FlagDue /\ pc' # "sleep"
    BY <1>2 DEF ElCheck, ElCheckOk, ElCheckErr, ElAdvance, FlagDue
  <2>2. HealthyPrimaries(el_nodes)' = HealthyPrimaries(el_nodes)
    BY <1>2, ElCheckKeepsVerdict DEF Monitored, HealthyPrimaries
  <2> QED
    BY <2>1, <2>2 DEF FlagSettled
<1>3. CASE ElSecondPass \/ StartClPass \/ ClCheck \/ ClStoreHead \/ ClSecondPass
  BY <1>3 DEF ElSecondPass, StartClPass, ClCheck, ClCheckOk, ClCheckErr, ClAdvance,
              ClStoreHead, ClSecondPass, FlagSettled, FlagDue
<1>4. CASE UpdateFailoverFlag
  <2>1. /\ any_primary_healthy = (HealthyPrimaries(el_nodes) # {})
        /\ el_failover_active' = ~any_primary_healthy /\ UNCHANGED el_nodes
    BY <1>4 DEF UpdateFailoverFlag, Monitored, NothingStale, PrimariesCounted, FlagDue,
                el_vars
  <2> QED
    BY <2>1 DEF FlagSettled, HealthyPrimaries
<1> QED
  BY <1>1, <1>2, <1>3, <1>4 DEF Next

LEMMA Recorded ==
  ASSUME Record, status'.at # "idle"
  PROVE  /\ "el" \notin overlap' =>
              "el" \notin overlap /\ pc \notin ElWork /\ pc' \notin ElWork
         /\ "cl" \notin overlap' =>
              "cl" \notin overlap /\ pc \notin ClWork /\ pc' \notin ClWork
         /\ "flag" \notin overlap' =>
              "flag" \notin overlap /\ ~FlagDue /\ ~FlagDue'
BY DEF Record, Phases, ElWork, ClWork

LEMMA StatusInvInit == SInit => StatusInv
<1> SUFFICES ASSUME SInit PROVE StatusInv
  OBVIOUS
<1>1. Monitored
  BY MonitoredInit DEF SInit
<1>2. status \in StatusType /\ status.at = "idle" /\ ~cycled
  BY ConfigAssumption DEF SInit, Idle, StatusType, Height
<1>3. cycled \in BOOLEAN /\ pc # "sleep"
  BY DEF SInit, Init
<1> QED
  BY <1>1, <1>2, <1>3 DEF StatusInv, FlagSettled, ElHeadCurrent, ClHeadCurrent, FlagCurrent

LEMMA StatusInvNext == StatusInv /\ [SNext]_svars => StatusInv'
<1> SUFFICES ASSUME StatusInv, [SNext]_svars PROVE StatusInv'
  OBVIOUS
<1> USE DEF StatusInv
<1>1. CASE UNCHANGED svars
  <2>1. UNCHANGED <<vars, status, overlap, cycled>>
    BY <1>1 DEF svars
  <2>2. Monitored'
    BY <2>1, MonitoredNext
  <2> QED
    BY <2>1, <2>2 DEF vars, el_vars, cl_vars, FlagSettled, HealthyPrimaries, ElHeadCurrent,
       ClHeadCurrent, FlagCurrent, FlagDue
<1>2. CASE MonitorStep /\ Record
  <2>1. Next /\ UNCHANGED status
    BY <1>2 DEF MonitorStep, Next
  <2>2. Monitored' /\ FlagSettled'
    BY <1>2, <2>1, MonitoredNext, FlagSettledNext DEF Record
  <2>3. CASE status.at = "idle"
    BY <2>1, <2>2, <2>3 DEF ElHeadCurrent, ClHeadCurrent, FlagCurrent
  <2>4. CASE status.at # "idle"
    BY <1>2, <2>1, <2>2, <2>4, Recorded, MonitorKeeps
       DEF Monitored, ElHeadCurrent, ClHeadCurrent, FlagCurrent
  <2> QED
    BY <2>3, <2>4
<1>3. CASE (LoadElHead \/ Handler) /\ UNCHANGED vars /\ Record
  <2>1. /\ UNCHANGED <<el_chain_head, cl_chain_head, el_failover_active, el_nodes, pc>>
        /\ el_chain_head \in Height /\ cl_chain_head \in Height
        /\ el_failover_active \in BOOLEAN /\ 0 \in Height
    BY <1>3, ConfigAssumption DEF vars, el_vars, cl_vars, Monitored, TypeOK, Height
  <2>2. Monitored'
    BY <1>3, MonitoredNext
  <2>3. FlagSettled'
    <3>1. cycled' = cycled
      BY <1>3, <2>1 DEF Record, FlagSettled
    <3> QED
      BY <2>1, <3>1 DEF FlagSettled, FlagDue, HealthyPrimaries
  <2>4. CASE LoadElHead
    <3>1. /\ status'.at = "cl_head" /\ status'.el_head = el_chain_head
          /\ status' \in StatusType
      BY <2>1, <2>4 DEF LoadElHead, StatusType
    <3> QED
      BY <1>3, <2>1, <2>2, <2>3, <3>1, Recorded
         DEF ElHeadCurrent, ClHeadCurrent, FlagCurrent
  <2>5. CASE LoadClHead
    <3>1. /\ status.at = "cl_head" /\ status'.at = "flag"
          /\ status'.el_head = status.el_head /\ status'.cl_head = cl_chain_head
          /\ status' \in StatusType
      BY <2>1, <2>5 DEF LoadClHead, StatusType
    <3> QED
      BY <1>3, <2>1, <2>2, <2>3, <3>1, Recorded
         DEF ElHeadCurrent, ClHeadCurrent, FlagCurrent
  <2>6. CASE LoadFlag
    <3>1. /\ status.at = "flag" /\ status'.at = "el_nodes"
          /\ status'.el_head = status.el_head /\ status'.cl_head = status.cl_head
          /\ status'.flag = el_failover_active
          /\ status' \in StatusType
      BY <2>1, <2>6 DEF LoadFlag, StatusType
    <3> QED
      BY <1>3, <2>1, <2>2, <2>3, <3>1, Recorded
         DEF ElHeadCurrent, ClHeadCurrent, FlagCurrent, FlagDue
  <2>7. CASE Enqueue
    <3>1. /\ status.at \in {"el_nodes", "cl_nodes"} /\ status'.at = status.at
          /\ status'.el_head = status.el_head /\ status'.cl_head = status.cl_head
          /\ status'.flag = status.flag
          /\ status' \in StatusType
      BY <2>1, <2>7 DEF Enqueue, StatusType
    <3> QED
      BY <1>3, <2>1, <2>2, <2>3, <3>1, Recorded
         DEF ElHeadCurrent, ClHeadCurrent, FlagCurrent, FlagDue
  <2>8. CASE ReadElNodes
    <3>1. /\ status.at = "el_nodes" /\ status'.at = "cl_nodes"
          /\ status'.cl_head = status.cl_head
          /\ status' \in StatusType
      BY <2>1, <2>8 DEF ReadElNodes, Idle, StatusType
    <3> QED
      BY <1>3, <2>1, <2>2, <2>3, <3>1, Recorded
         DEF ElHeadCurrent, ClHeadCurrent, FlagCurrent
  <2>9. CASE ReadClNodes
    <3>1. status'.at = "idle" /\ status' \in StatusType
      BY <2>1, <2>9 DEF ReadClNodes, Idle, StatusType
    <3> QED
      BY <2>2, <2>3, <3>1 DEF ElHeadCurrent, ClHeadCurrent, FlagCurrent
  <2> QED
    BY <1>3, <2>4, <2>5, <2>6, <2>7, <2>8, <2>9 DEF Handler
<1> QED
  BY <1>1, <1>2, <1>3 DEF SNext

LEMMA StatusInvHolds == SSpec => []StatusInv
BY StatusInvInit, StatusInvNext, PTL DEF SSpec

-----------------------------------------------------------------------------
(***************************************************************************)
(* A response shows the height of the best node it reports as the head and *)
(* every lag as the distance to it, unless the monitor was in the EL (the  *)
(* CL) pass while the request was served; although the head and the nodes  *)
(* were read at different moments, and the nodes after waiting for their   *)
(* lock.                                                                   *)
(***************************************************************************)
THEOREM ReportedHeadsExplainLags == SSpec => HeadsExplainLags
<1>1. StatusInv =>
        /\ status.at = "el_nodes" /\ "el" \notin overlap =>
             /\ status.el_head = update_el_chain_head(el_nodes)
             /\ \A n \in EL : el_nodes[n].lag = status.el_head - el_nodes[n].block_number
        /\ status.at = "cl_nodes" /\ "cl" \notin overlap =>
             /\ status.cl_head = update_cl_chain_head(cl_nodes)
             /\ \A n \in CL : cl_nodes[n].lag = status.cl_head - cl_nodes[n].slot
  BY DEF StatusInv, Monitored, ElSettled, ClSettled, ElHeadCurrent, ClHeadCurrent
<1> QED
  BY <1>1, StatusInvHolds, PTL DEF HeadsExplainLags, ReadsEl, ReadsCl

(***************************************************************************)
(* A response says that failover is active exactly if it shows no healthy  *)
(* primary, unless the monitor was between its EL pass and the flag while  *)
(* the request was served, or has never finished a cycle.                  *)
(***************************************************************************)
THEOREM ReportedFlagExplainsNodes == SSpec => FlagExplainsNodes
<1>1. StatusInv /\ status.at = "el_nodes" /\ "flag" \notin overlap /\ cycled =>
        status.flag = (HealthyPrimaries(el_nodes) = {})
  BY DEF StatusInv, FlagSettled, FlagCurrent
<1> QED
  BY <1>1, StatusInvHolds, PTL DEF FlagExplainsNodes, ReadsEl

(***************************************************************************)
(* The endpoint only watches the monitor and makes it wait: a behaviour of *)
(* both is one of the monitor, so what is proved of HealthMonitor holds    *)
(* beside any status request.                                              *)
(***************************************************************************)
THEOREM StatusRunsMonitor == SSpec => Spec
<1>1. SInit => Init
  BY DEF SInit
<1>2. [SNext]_svars => [Next]_vars
  BY DEF SNext, MonitorStep, Next, svars
<1> QED
  BY <1>1, <1>2, PTL DEF SSpec, Spec
=============================================================================
