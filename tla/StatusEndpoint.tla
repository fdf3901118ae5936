--------------------------- MODULE StatusEndpoint ---------------------------
(***************************************************************************)
(* GET /status (src/src/proxy/http.rs, status_handler) beside the health   *)
(* monitor.  The handler loads three atomics one after the other, then     *)
(* awaits the read lock of el_nodes, then that of cl_nodes, so the parts   *)
(* of one response are of different moments of the monitor.                *)
(*                                                                         *)
(* status.at is what the handler of the one request in progress reads      *)
(* next: "cl_head", "flag", "el_nodes" or "cl_nodes"; "idle" is no request.*)
(* Of the response only what a later read is compared with is kept, and no *)
(* longer than that.  The handler answers as soon as it has cl_nodes.      *)
(***************************************************************************)
EXTENDS HealthMonitor

VARIABLES
  status,
  overlap,    \* history: what the monitor was at since the request arrived
  cycled      \* history: the monitor has finished its first cycle

svars == <<vars, status, overlap, cycled>>

Idle == [at |-> "idle", queued |-> FALSE, el_head |-> 0, cl_head |-> 0, flag |-> FALSE]

(***************************************************************************)
(* The stretches of a cycle in which AppState contradicts itself: heights  *)
(* are newer than the head or the lags, or the health than the flag.       *)
(***************************************************************************)
Phases ==
  {p \in {"el", "cl", "flag"} :
     \/ p = "el" /\ pc \in {"el_check", "el_head", "el_calc"}
     \/ p = "cl" /\ pc \in {"cl_check", "cl_head", "cl_calc"}
     \/ p = "flag" /\ FlagDue}

SInit == Init /\ status = Idle /\ overlap = {} /\ cycled = FALSE

-----------------------------------------------------------------------------
LoadElHead ==
  /\ status.at = "idle"
  /\ status' = [status EXCEPT !.at = "cl_head", !.el_head = el_chain_head]

LoadClHead ==
  /\ status.at = "cl_head"
  /\ status' = [status EXCEPT !.at = "flag", !.cl_head = cl_chain_head]

LoadFlag ==
  /\ status.at = "flag"
  /\ status' = [status EXCEPT !.at = "el_nodes", !.flag = el_failover_active]

(***************************************************************************)
(* The lock is held by a writer: the reader queues.                        *)
(***************************************************************************)
Enqueue ==
  /\ ~status.queued
  /\ \/ status.at = "el_nodes" /\ ElLocked
     \/ status.at = "cl_nodes" /\ ClLocked
  /\ status' = [status EXCEPT !.queued = TRUE]

ReadElNodes ==
  /\ status.at = "el_nodes" /\ ~ElLocked
  /\ status' = [Idle EXCEPT !.at = "cl_nodes", !.cl_head = status.cl_head]

ReadClNodes ==
  /\ status.at = "cl_nodes" /\ ~ClLocked
  /\ status' = Idle

Handler == LoadClHead \/ LoadFlag \/ Enqueue \/ ReadElNodes \/ ReadClNodes

-----------------------------------------------------------------------------
\* Mutation of ReaderQueued: a lock that prefers its writers.
NobodyQueued(at) == FALSE

(***************************************************************************)
(* tokio's RwLock is fair: the monitor, the only writer, waits for a       *)
(* reader that queued before it.                                           *)
(***************************************************************************)
ReaderQueued(at) == status.at = at /\ status.queued

MonitorStep ==
  /\ \/ (StartCycle \/ ElSecondPass) /\ ~ReaderQueued("el_nodes")
     \/ (StartClPass \/ ClSecondPass) /\ ~ReaderQueued("cl_nodes")
     \/ ElCheck \/ ElStoreHead \/ ClCheck \/ ClStoreHead \/ UpdateFailoverFlag
  /\ UNCHANGED status

Record ==
  /\ overlap' = IF status'.at = "idle" THEN {} ELSE overlap \cup Phases \cup Phases'
  /\ cycled' = (cycled \/ pc' = "sleep")

SNext ==
  /\ \/ MonitorStep
     \/ (LoadElHead \/ Handler) /\ UNCHANGED vars
  /\ Record

(***************************************************************************)
(* The runtime runs every ready task; nobody has to ask for the status.    *)
(***************************************************************************)
SFairness ==
  /\ WF_svars(Answered /\ MonitorStep /\ Record)
  /\ WF_svars(Handler /\ UNCHANGED vars /\ Record)

SSpec == SInit /\ [][SNext]_svars
SFairSpec == SSpec /\ SFairness

-----------------------------------------------------------------------------
ReadsEl == status.at = "el_nodes" /\ status'.at = "cl_nodes"
ReadsCl == status.at = "cl_nodes" /\ status'.at = "idle"

(***************************************************************************)
(* A response contradicts itself only if the monitor was at work on what   *)
(* it contradicts while the request was served.  Otherwise the reported    *)
(* head is the height of the best node reported and every reported lag is  *)
(* the distance to it, although head and nodes were read at different      *)
(* moments and the nodes possibly after waiting for their lock.            *)
(***************************************************************************)
HeadsExplainLags ==
  [][/\ ReadsEl /\ "el" \notin overlap =>
          /\ status.el_head = update_el_chain_head(el_nodes)
          /\ \A n \in EL : el_nodes[n].lag = status.el_head - el_nodes[n].block_number
     /\ ReadsCl /\ "cl" \notin overlap =>
          /\ status.cl_head = update_cl_chain_head(cl_nodes)
          /\ \A n \in CL : cl_nodes[n].lag = status.cl_head - cl_nodes[n].slot]_svars

(***************************************************************************)
(* A response says that failover is active exactly if it shows no healthy  *)
(* primary, unless the monitor was between the EL pass and the flag while  *)
(* the request was served, or has not finished a cycle since the start.    *)
(***************************************************************************)
FlagExplainsNodes ==
  [][ReadsEl /\ "flag" \notin overlap /\ cycled =>
       status.flag = (HealthyPrimaries(el_nodes) = {})]_svars

(***************************************************************************)
(* Every status request is answered, although it waits for two locks the   *)
(* monitor takes for ever again and holds while it awaits the nodes.       *)
(***************************************************************************)
StatusAnswered == status.at # "idle" ~> status.at = "idle"
=============================================================================
