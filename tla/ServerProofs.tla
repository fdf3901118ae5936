---------------------------- MODULE ServerProofs ----------------------------
(***************************************************************************)
(* Proofs about HttpProxy and Server, for any number of nodes and requests *)
(* and every limit.  That health and flag agree whenever no flag is due    *)
(* rests on what HealthMonitorProofs proves of the monitor's steps.        *)
(***************************************************************************)
EXTENDS Server, HealthMonitorProofs, SelectionProofs

-----------------------------------------------------------------------------
(***************************************************************************)
(* A step of the proxy is a step of the monitor or leaves its variables    *)
(* alone.                                                                  *)
(***************************************************************************)
LEMMA ProxyStepOfMonitor == [PNext]_allvars => [Next]_vars
BY DEF PNext, allvars, MonitorStep, Next, Arrive, Routing, Enqueue, Route, Refuse,
       Answer, Forwarded, Finish

(***************************************************************************)
(* Type correctness.                                                       *)
(***************************************************************************)
LEMMA PInitType == PInit => PTypeOK
BY InitType DEF PInit, PTypeOK, Idle, At, Status

LEMMA PNextType == PTypeOK /\ [PNext]_allvars => PTypeOK'
<1> SUFFICES ASSUME PTypeOK, [PNext]_allvars PROVE PTypeOK'
  OBVIOUS
<1>1. TypeOK'
  BY ProxyStepOfMonitor, NextType DEF PTypeOK
<1>2. CASE UNCHANGED req
  BY <1>1, <1>2 DEF PTypeOK
<1>3. ASSUME NEW r \in Request, Arrive(r) PROVE PTypeOK'
  <2>1. (r \in ElRequest /\ el_failover_active) \in BOOLEAN
    OBVIOUS
  <2> QED
    BY <1>1, <1>3, <2>1 DEF PTypeOK, Arrive, At
<1>4. ASSUME NEW r \in Request, Enqueue(r) PROVE PTypeOK'
  BY <1>1, <1>4 DEF PTypeOK, Enqueue, At
<1>5. ASSUME NEW r \in Request, Route(r) PROVE PTypeOK'
  <2>1. Select(r) \in (IF r \in ElRequest THEN EL ELSE CL)
    BY <1>5, SelectElNode, SelectClNode DEF PTypeOK, Route, Select
  <2> QED
    BY <1>1, <1>5, <2>1 DEF PTypeOK, Route, At
<1>6. ASSUME NEW r \in Request, Refuse(r) PROVE PTypeOK'
  BY <1>1, <1>6 DEF PTypeOK, Refuse, At, Status
<1>7. ASSUME NEW r \in Request, Answer(r) PROVE PTypeOK'
  <2>1. PICK status \in Status : Forwarded(r, status)
    BY <1>7 DEF Answer, Status
  <2> QED
    BY <1>1, <2>1 DEF PTypeOK, Forwarded, At
<1>8. ASSUME NEW r \in Request, Finish(r) PROVE PTypeOK'
  BY <1>1, <1>8 DEF PTypeOK, Finish, Idle, At, Status
<1> QED
  BY <1>2, <1>3, <1>4, <1>5, <1>6, <1>7, <1>8 DEF PNext, allvars, MonitorStep, Routing

(***************************************************************************)
(* The fields of every handler stay in their domains, and a request is     *)
(* only ever forwarded to a node of its own pool.                          *)
(***************************************************************************)
THEOREM HandlersTyped == PSpec => []PTypeOK
<1> QED
  BY PInitType, PNextType, PTL DEF PSpec

-----------------------------------------------------------------------------
(***************************************************************************)
(* Why a request is refused.                                               *)
(***************************************************************************)
ElServes == \E n \in EL : el_nodes[n].is_healthy

FlagIsRight ==
  ~FlagDue /\ HealthyPrimaries(el_nodes) = {} /\ ElServes => el_failover_active

LEMMA FlagIsRightInit == Init => FlagIsRight
BY DEF Init, FlagIsRight, ElServes, ElFromConfig

LEMMA FlagIsRightNext ==
  TypeOK /\ NothingStale /\ FlagIsRight /\ [Next]_vars => FlagIsRight'
<1> SUFFICES ASSUME TypeOK, NothingStale, FlagIsRight, [Next]_vars PROVE FlagIsRight'
  OBVIOUS
<1> USE DEF FlagIsRight, ElServes, HealthyPrimaries, FlagDue, el_vars, cl_vars
<1>1. CASE ElSecondPass
  BY <1>1 DEF ElSecondPass
<1>2. CASE UpdateFailoverFlag
  <2>1. any_primary_healthy = (HealthyPrimaries(el_nodes) # {})
    BY <1>2 DEF UpdateFailoverFlag, NothingStale, PrimariesCounted
  <2> QED
    BY <1>2, <2>1 DEF UpdateFailoverFlag
<1>3. CASE ElCheck
  <2>1. pc = "el_check" /\ UNCHANGED el_failover_active
    BY <1>3 DEF ElCheck, ElCheckOk, ElCheckErr
  <2>2. \A n \in EL : el_nodes'[n].is_healthy = el_nodes[n].is_healthy
    BY <1>3, ElCheckKeepsVerdict
  <2> QED
    BY <2>1, <2>2
<1>4. CASE ClCheck
  <2>1. pc = "cl_check" /\ pc' \in {"cl_check", "cl_head"}
    BY <1>4 DEF ClCheck, ClCheckOk, ClCheckErr, ClAdvance
  <2> QED
    BY <2>1
<1>5. CASE StartCycle \/ ElStoreHead \/ StartClPass \/ ClStoreHead \/ ClSecondPass
  BY <1>5 DEF StartCycle, ElStoreHead, StartClPass, ClStoreHead, ClSecondPass
<1>6. CASE UNCHANGED vars
  BY <1>6 DEF vars
<1> QED
  BY <1>1, <1>2, <1>3, <1>4, <1>5, <1>6 DEF Next

(***************************************************************************)
(* A refusal while a node is healthy: the handler found no primary, its    *)
(* flag was off, and with FlagIsRight the flag is due or already on.       *)
(***************************************************************************)
LEMMA RefusalExplained ==
  ASSUME PTypeOK, FlagIsRight, [PNext]_allvars,
         NEW r \in ElRequest, Refused(r), ElServes
  PROVE  /\ HealthyPrimaries(el_nodes) = {}
         /\ ~req[r].flag
         /\ FlagDue \/ el_failover_active
<1>1. Refuse(r)
  <2>1. PICK s \in Request : Arrive(s) \/ Routing(s) \/ Answer(s) \/ Finish(s)
    BY DEF Refused, PNext, allvars, MonitorStep
  <2>2. r \in Request /\ req \in [Request -> [at : At, flag : BOOLEAN,
                                    target : {NoNode} \cup EL \cup CL, status : Status]]
    BY DEF Request, PTypeOK
  <2>3. s = r
    BY <2>1, <2>2 DEF Refused, Arrive, Routing, Enqueue, Route, Refuse, Answer,
                      Forwarded, Finish
  <2>4. ~(Arrive(r) \/ Enqueue(r) \/ Route(r) \/ Finish(r))
    BY <2>2 DEF Refused, Arrive, Enqueue, Route, Finish, Idle
  <2>5. ~Answer(r)
    BY <2>2 DEF Refused, Answer, Forwarded
  <2> QED
    BY <2>1, <2>3, <2>4, <2>5 DEF Routing
<1>2. req[r].flag \in BOOLEAN
  BY DEF PTypeOK, Request
<1>3. /\ HealthyPrimaries(el_nodes) = {}
      /\ req[r].flag => HealthyBackups(el_nodes) = {}
  BY <1>1, <1>2, SelectElNode DEF Refuse, Select
<1>4. HealthyBackups(el_nodes) # {}
  BY <1>3 DEF ElServes, HealthyPrimaries, HealthyBackups
<1> QED
  BY <1>3, <1>4 DEF FlagIsRight

(***************************************************************************)
(* If an EL request is refused although a node is healthy, no primary is,  *)
(* and the flag has not been updated yet or was loaded before it was.      *)
(***************************************************************************)
THEOREM RefusalsExplained == PSpec => RefusalIsExplained
<1>1. PInit => FlagIsRight /\ NothingStale
  BY FlagIsRightInit DEF PInit, Init, NothingStale, HeadsStored, PrimariesCounted, FlagDue
<1>2. PTypeOK /\ NothingStale /\ [PNext]_allvars => NothingStale'
  BY ProxyStepOfMonitor, NextFresh DEF PTypeOK
<1>3. PTypeOK /\ NothingStale /\ FlagIsRight /\ [PNext]_allvars => FlagIsRight'
  BY ProxyStepOfMonitor, FlagIsRightNext DEF PTypeOK
<1>4. PTypeOK /\ FlagIsRight /\ [PNext]_allvars =>
        [\A r \in ElRequest :
           Refused(r) /\ (\E n \in EL : el_nodes[n].is_healthy) =>
             /\ HealthyPrimaries(el_nodes) = {}
             /\ ~req[r].flag
             /\ FlagDue \/ el_failover_active]_allvars
  BY RefusalExplained DEF ElServes
<1> QED
  BY <1>1, <1>2, <1>3, <1>4, HandlersTyped, PTL DEF PSpec, RefusalIsExplained

-----------------------------------------------------------------------------
(***************************************************************************)
(* What is proved of the handlers holds of the process that starts them,   *)
(* drains them and exits: phase by phase it only takes steps away.         *)
(***************************************************************************)
THEOREM ServerRunsProxy == ServerSpec => PSpec
<1>1. ServerInit => PInit
  BY DEF ServerInit
<1>2. [ServerNext]_server_vars => [PNext]_allvars
  BY DEF ServerNext, server_vars, Bind, StartFails, Serve, shutdown_signal, Exit,
         Monitoring, Serving, Ending, PNext
<1> QED
  BY <1>1, <1>2, PTL DEF ServerSpec, PSpec

(***************************************************************************)
(* Handlers and process only watch the monitor and make it wait: whatever  *)
(* is proved of HealthMonitor, its interface included, holds of the whole  *)
(* process from start to exit.                                             *)
(***************************************************************************)
THEOREM ServerRunsMonitor == ServerSpec => Spec
<1>1. PInit => Init
  BY DEF PInit
<1> QED
  BY <1>1, ProxyStepOfMonitor, ServerRunsProxy, PTL DEF PSpec, Spec
=============================================================================
