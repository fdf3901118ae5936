------------------------------- MODULE Server -------------------------------
(***************************************************************************)
(* The process (src/src/main.rs): it starts the health monitor, binds the  *)
(* listener, serves requests, and after Ctrl+C or SIGTERM takes no more of *)
(* them and exits when those it has are answered.  Leaving main drops the  *)
(* runtime and every task with it.                                         *)
(*                                                                         *)
(*   "starting"  the monitor is spawned, the listener is not bound         *)
(*   "serving"   in axum::serve                                            *)
(*   "draining"  the shutdown signal has come                              *)
(*   "exited"    main has returned                                         *)
(***************************************************************************)
EXTENDS HttpProxy

CONSTANT Stalled    \* slots whose client may stop sending or reading

ASSUME StalledAssumption == Stalled \subseteq Request

VARIABLE phase

server_vars == <<allvars, phase>>

ServerInit == PInit /\ phase = "starting"

-----------------------------------------------------------------------------
Bind ==
  /\ phase = "starting"
  /\ phase' = "serving"
  /\ UNCHANGED allvars

(***************************************************************************)
(* An address that cannot be parsed or bound, or a signal before           *)
(* shutdown_signal is polled.                                              *)
(***************************************************************************)
StartFails ==
  /\ phase = "starting"
  /\ phase' = "exited"
  /\ UNCHANGED allvars

Serve == phase = "serving" /\ (\E r \in Request : Arrive(r)) /\ UNCHANGED phase

shutdown_signal ==
  /\ phase = "serving"
  /\ phase' = "draining"
  /\ UNCHANGED allvars

\* Mutation of Exit: the process does not wait for its requests.
ExitAtOnce ==
  /\ phase = "draining"
  /\ phase' = "exited"
  /\ UNCHANGED allvars

(***************************************************************************)
(* axum's graceful shutdown waits for the requests in progress.            *)
(***************************************************************************)
Exit ==
  /\ phase = "draining"
  /\ \A r \in Request : req[r].at = "idle"
  /\ phase' = "exited"
  /\ UNCHANGED allvars

\* Mutation of Running: the tasks are cancelled by the shutdown signal.
RunningUntilSignal == phase \in {"starting", "serving"} /\ UNCHANGED phase

(***************************************************************************)
(* What the tasks already spawned do, until main returns.                  *)
(***************************************************************************)
Running == phase # "exited" /\ UNCHANGED phase

Monitoring == MonitorStep /\ Running
Serving(r) == Routing(r) /\ Running
Ending(r) == (Answer(r) \/ Finish(r)) /\ Running

ServerNext ==
  \/ Bind \/ StartFails \/ Serve \/ shutdown_signal \/ Exit
  \/ Monitoring
  \/ \E r \in Request : Serving(r) \/ Ending(r)

(***************************************************************************)
(* The runtime polls every task that can go on: the monitor, unless a      *)
(* check hangs, and each handler; reqwest's timeout ends every forwarded   *)
(* request, once the client has sent it; axum notices that all requests    *)
(* have ended.  No request has to come, and no shutdown signal.            *)
(***************************************************************************)
ServerFairness ==
  /\ WF_server_vars(Answered /\ Monitoring)
  /\ \A r \in Request : WF_server_vars(Serving(r))
  /\ \A r \in Request \ Stalled : WF_server_vars(Ending(r))
  /\ WF_server_vars(Exit)

ServerSpec == ServerInit /\ [][ServerNext]_server_vars
ServerFairSpec == ServerSpec /\ ServerFairness

-----------------------------------------------------------------------------
(***************************************************************************)
(* A request the server has taken is answered, although its handler may    *)
(* wait for a lock that the monitor takes for ever again and holds while   *)
(* it awaits the nodes, and although the shutdown signal may come.         *)
(***************************************************************************)
RequestsAreAnswered ==
  \A r \in Request \ Stalled : req[r].at # "idle" ~> req[r].at = "done"

(***************************************************************************)
(* main.rs:158, "Vixy shut down gracefully": after the signal the process  *)
(* ends, unless a client stalls; the requests it waits for may themselves  *)
(* be waiting for the monitor.                                             *)
(***************************************************************************)
ShutdownCompletes == phase = "draining" ~> phase = "exited"

(***************************************************************************)
(* As long as the process lives the monitor completes cycles for ever,     *)
(* however many requests queue for the locks it takes.                     *)
(***************************************************************************)
MonitorNeverStarves == [](phase # "exited") => CyclesForever
=============================================================================
