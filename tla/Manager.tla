------------------------------- MODULE Manager -------------------------------
(***************************************************************************)
(* The manager and the processes it starts and stops: manager_thread,      *)
(* ensure_running, ManagerProcess.start and stop, manager_cleanup.  A step *)
(* is the visit of one process in one phase, or a wait for one that was    *)
(* signalled; children crash, exit on SIGINT or ignore it at any step.     *)
(* The params the manager clears and writes are in SafetyHandshake.        *)
(***************************************************************************)
EXTENDS Naturals

CONSTANTS
  N,            \* number of managed processes, visited in order 1..N
  Kind,         \* when each runs: "always", "onroad", "offroad" or "driverview"
  Restarted,    \* those with restart_if_crash
  MaxCrashes, MaxToggles  \* bounds: crashes, changes of started and IsDriverViewEnabled

Procs == 1..N
Kinds == {"always", "onroad", "offroad", "driverview"}
Requests == {"DoUninstall", "DoShutdown", "DoReboot"}

ASSUME ManagerAssumption ==
  /\ N \in Nat \ {0} /\ Kind \in [Procs -> Kinds] /\ Restarted \subseteq Procs
  /\ MaxCrashes \in Nat /\ MaxToggles \in Nat

VARIABLES
  started,      \* deviceState.started
  driverView,   \* the param IsDriverViewEnabled
  requested,    \* the exit params that are set
  phase,        \* where the manager is
  i,            \* the process it visits
  back,         \* the phase a join returns to
  startedNow,   \* started of this iteration
  running,      \* the list ensure_running builds
  handle,       \* proc: none, or a process that is alive or dead
  shuttingDown,
  instances,    \* live processes in the system, with a handle or not
  unwanted,     \* successive iterations a process was not to run, up to 2
  final,        \* how the manager ended
  termed,       \* SIGTERM ended the loop
  crashes, toggles

envVars == <<started, driverView, requested, toggles>>
loopVars == <<phase, i, back, startedNow, running, unwanted>>
procVars == <<handle, shuttingDown, instances>>
vars == <<envVars, loopVars, procVars, final, termed, crashes>>

\* Definitions whose name ends in Bug are mutated forms of the next definition.

\* ensure_running(False) before the loop.
Init ==
  /\ started = FALSE /\ driverView = FALSE /\ requested = {} /\ toggles = 0
  /\ phase = "stop" /\ i = 1 /\ back = "stop" /\ startedNow = FALSE
  /\ running = {} /\ unwanted = [p \in Procs |-> 0]
  /\ handle = [p \in Procs |-> "none"] /\ shuttingDown = [p \in Procs |-> FALSE]
  /\ instances = [p \in Procs |-> 0]
  /\ final = "none" /\ termed = FALSE /\ crashes = 0

-----------------------------------------------------------------------------
(* Helpers.                                                                *)

\* should_run of process_config.
ShouldRun(p) ==
  \/ Kind[p] = "always"
  \/ Kind[p] \in {"onroad", "driverview"} /\ startedNow
  \/ Kind[p] = "driverview" /\ driverView
  \/ Kind[p] = "offroad" /\ ~startedNow

Proceed(q) == i' = q + 1 /\ UNCHANGED <<phase, back>>

\* The handle is dropped and the process forgotten.
Forget(p) ==
  /\ handle' = [handle EXCEPT ![p] = "none"]
  /\ shuttingDown' = [shuttingDown EXCEPT ![p] = FALSE]

Spawn(p) ==
  /\ handle' = [handle EXCEPT ![p] = "alive"]
  /\ shuttingDown' = [shuttingDown EXCEPT ![p] = FALSE]
  /\ instances' = [instances EXCEPT ![p] = @ + 1]

InterruptBug(p) == Forget(p) /\ UNCHANGED instances
\* The process is sent SIGINT and keeps its handle.
Interrupt(p) ==
  /\ shuttingDown' = [shuttingDown EXCEPT ![p] = TRUE]
  /\ UNCHANGED <<handle, instances>>

\* join_process is entered and returns to the present phase.
Wait == phase' = "join" /\ back' = phase /\ UNCHANGED i

StopBug(p, block) ==
  \/ /\ handle[p] = "none" /\ Proceed(p) /\ UNCHANGED procVars
  \/ /\ handle[p] = "dead" /\ Proceed(p) /\ Forget(p) /\ UNCHANGED instances
  \/ /\ handle[p] = "alive" /\ ~shuttingDown[p] /\ Interrupt(p)
     /\ IF block THEN Wait ELSE Proceed(p)
  \/ /\ handle[p] = "alive" /\ shuttingDown[p]
     /\ IF block THEN Wait ELSE Proceed(p)
     /\ UNCHANGED procVars
\* ManagerProcess.stop up to its join.  A second call waits even if it need not block.
Stop(p, block) ==
  \/ /\ handle[p] = "none" /\ Proceed(p) /\ UNCHANGED procVars
  \/ /\ handle[p] = "dead" /\ Proceed(p) /\ Forget(p) /\ UNCHANGED instances
  \/ /\ handle[p] = "alive" /\ ~shuttingDown[p] /\ Interrupt(p)
     /\ IF block THEN Wait ELSE Proceed(p)
  \/ /\ handle[p] = "alive" /\ shuttingDown[p] /\ Wait /\ UNCHANGED procVars

-----------------------------------------------------------------------------
(* The loop.                                                               *)

\* sm.update.
Update ==
  /\ phase = "update"
  /\ phase' = "stop" /\ i' = 1 /\ startedNow' = started /\ running' = {}
  /\ UNCHANGED <<back, unwanted, envVars, procVars, final, termed, crashes>>

RestartCrashedBug(p) == Proceed(p) /\ UNCHANGED procVars
\* restart: the dead process is forgotten and started again.
RestartCrashed(p) == Proceed(p) /\ Spawn(p)

\* ensure_running, first loop: a process that is to run.
VisitWanted ==
  /\ phase = "stop" /\ i \in Procs /\ ShouldRun(i)
  /\ running' = running \cup {i}
  /\ unwanted' = [unwanted EXCEPT ![i] = 0]
  /\ IF i \in Restarted /\ handle[i] = "dead" THEN RestartCrashed(i)
     ELSE Proceed(i) /\ UNCHANGED procVars
  /\ UNCHANGED <<startedNow, envVars, final, termed, crashes>>

\* ensure_running, first loop: a process that is not.
VisitUnwanted ==
  /\ phase = "stop" /\ i \in Procs /\ ~ShouldRun(i)
  /\ unwanted' = [unwanted EXCEPT ![i] = IF @ < 2 THEN @ + 1 ELSE @]
  /\ Stop(i, FALSE)
  /\ UNCHANGED <<startedNow, running, envVars, final, termed, crashes>>

StopPhaseOver ==
  /\ phase = "stop" /\ i > N
  /\ phase' = "start" /\ i' = 1
  /\ UNCHANGED <<back, startedNow, running, unwanted, envVars, procVars, final, termed, crashes>>

StartBug(p) ==
  \/ /\ handle[p] = "none" \/ (shuttingDown[p] /\ handle[p] = "dead")
     /\ Proceed(p) /\ Spawn(p)
  \/ /\ handle[p] # "none" /\ ~(shuttingDown[p] /\ handle[p] = "dead")
     /\ Proceed(p) /\ UNCHANGED procVars
\* start: one that is still shutting down is stopped for good before it is started.
Start(p) ==
  \/ /\ shuttingDown[p] /\ handle[p] = "alive" /\ Wait /\ UNCHANGED procVars
  \/ /\ handle[p] = "none" \/ (shuttingDown[p] /\ handle[p] = "dead")
     /\ Proceed(p) /\ Spawn(p)
  \/ /\ ~shuttingDown[p] /\ handle[p] # "none" /\ Proceed(p) /\ UNCHANGED procVars

StartRunning ==
  /\ phase = "start" /\ i \in Procs
  /\ IF i \in running THEN Start(i) ELSE Proceed(i) /\ UNCHANGED procVars
  /\ UNCHANGED <<startedNow, running, unwanted, envVars, final, termed, crashes>>

StartPhaseOver ==
  /\ phase = "start" /\ i > N
  /\ phase' = "report"
  /\ UNCHANGED <<i, back, startedNow, running, unwanted, envVars, procVars, final, termed, crashes>>

\* managerState is sent; an exit param ends the loop.
Report ==
  /\ phase = "report"
  /\ phase' = IF requested = {} THEN "update" ELSE "cleanup"
  /\ i' = 1
  /\ UNCHANGED <<back, startedNow, running, unwanted, envVars, procVars, final, termed, crashes>>

\* SIGTERM: SystemExit out of manager_thread.
Terminate ==
  /\ \/ phase \in {"update", "stop", "start", "report"}
     \/ phase = "join" /\ back \in {"stop", "start"}
  /\ termed' = TRUE /\ phase' = "cleanup" /\ i' = 1
  /\ unwanted' = [p \in Procs |-> 0]
  /\ UNCHANGED <<back, startedNow, running, envVars, procVars, final, crashes>>

-----------------------------------------------------------------------------
(* join_process, and what follows it.                                      *)

\* stop goes on with the next process, start with the one just stopped.
Joined == phase' = back /\ i' = (IF back = "start" THEN i ELSE i + 1) /\ UNCHANGED back

JoinExited ==
  /\ phase = "join" /\ handle[i] = "dead"
  /\ Joined /\ Forget(i)
  /\ UNCHANGED <<instances, startedNow, running, unwanted, envVars, final, termed, crashes>>

JoinTimeoutBug ==
  /\ phase = "join" /\ handle[i] = "alive"
  /\ UNCHANGED vars
\* Five seconds without an exit: SIGKILL, which no process survives.
JoinTimeout ==
  /\ phase = "join" /\ handle[i] = "alive"
  /\ Joined /\ Forget(i) /\ instances' = [instances EXCEPT ![i] = @ - 1]
  /\ UNCHANGED <<startedNow, running, unwanted, envVars, final, termed, crashes>>

-----------------------------------------------------------------------------
(* manager_cleanup and the end of main.                                    *)

\* First all are signalled, then all are waited for.
CleanupStop ==
  /\ phase \in {"cleanup", "kill"} /\ i \in Procs
  /\ Stop(i, phase = "kill")
  /\ UNCHANGED <<startedNow, running, unwanted, envVars, final, termed, crashes>>

CleanupOverBug ==
  /\ phase \in {"cleanup", "kill"} /\ i > N
  /\ phase' = "exit" /\ i' = 1
  /\ UNCHANGED <<back, startedNow, running, unwanted, envVars, procVars, final, termed, crashes>>
CleanupOver ==
  /\ phase \in {"cleanup", "kill"} /\ i > N
  /\ phase' = IF phase = "cleanup" THEN "kill" ELSE "exit"
  /\ i' = 1
  /\ UNCHANGED <<back, startedNow, running, unwanted, envVars, procVars, final, termed, crashes>>

\* uninstall before reboot before shutdown; a manager that got SIGTERM just exits.
Exit ==
  /\ phase = "exit" /\ phase' = "done"
  /\ final' = IF termed THEN "exit"
              ELSE IF "DoUninstall" \in requested THEN "uninstall"
              ELSE IF "DoReboot" \in requested THEN "reboot" ELSE "shutdown"
  /\ UNCHANGED <<i, back, startedNow, running, unwanted, envVars, procVars, termed, crashes>>

-----------------------------------------------------------------------------
(* The children and the rest of the system.                                *)

Dies(p) ==
  /\ handle[p] = "alive"
  /\ handle' = [handle EXCEPT ![p] = "dead"]
  /\ instances' = [instances EXCEPT ![p] = @ - 1]
  /\ UNCHANGED <<shuttingDown, loopVars, envVars, final, termed>>

Crash(p) == crashes < MaxCrashes /\ crashes' = crashes + 1 /\ Dies(p)
ExitOnInterrupt(p) == shuttingDown[p] /\ Dies(p) /\ UNCHANGED crashes

Toggle ==
  /\ toggles < MaxToggles /\ toggles' = toggles + 1
  /\ \/ started' = ~started /\ UNCHANGED driverView
     \/ driverView' = ~driverView /\ UNCHANGED started
  /\ UNCHANGED <<requested, loopVars, procVars, final, termed, crashes>>

Request(r) ==
  /\ phase # "done" /\ r \notin requested
  /\ requested' = requested \cup {r}
  /\ UNCHANGED <<started, driverView, toggles, loopVars, procVars, final, termed, crashes>>

-----------------------------------------------------------------------------
Loop == Update \/ VisitWanted \/ VisitUnwanted \/ StopPhaseOver \/ StartRunning
        \/ StartPhaseOver \/ Report
Leave == CleanupStop \/ CleanupOver \/ Exit
Join == JoinExited \/ JoinTimeout
Env == (\E p \in Procs : Crash(p) \/ ExitOnInterrupt(p)) \/ Toggle \/ \E r \in Requests : Request(r)
Next == Loop \/ Join \/ Leave \/ Terminate \/ Env

Spec == Init /\ [][Next]_vars

\* The manager runs; nothing is asked of its children.
FairSpec == Spec /\ WF_vars(Loop \/ Join \/ Leave)

-----------------------------------------------------------------------------
(* Properties.                                                             *)

Phases == {"update", "stop", "start", "report", "join", "cleanup", "kill", "exit", "done"}
FlagsOK ==
  /\ {started, driverView, startedNow, termed} \subseteq BOOLEAN /\ requested \subseteq Requests
  /\ phase \in Phases /\ back \in {"stop", "start", "cleanup", "kill"}
  /\ handle \in [Procs -> {"none", "alive", "dead"}] /\ shuttingDown \in [Procs -> BOOLEAN]
  /\ running \subseteq Procs
  /\ final \in {"none", "exit", "uninstall", "reboot", "shutdown"}
CountersOK ==
  /\ i \in 1..N + 1 /\ (phase = "join" => i \in Procs)
  /\ unwanted \in [Procs -> 0..2] /\ instances \in [Procs -> Nat]
  /\ crashes \in 0..MaxCrashes /\ toggles \in 0..MaxToggles
TypeOK == FlagsOK /\ CountersOK

\* A process never runs twice, and none runs that the manager has no handle on: two
\* pandads or two cards would fight over the same sockets and buses.
OneInstance ==
  \A p \in Procs : instances[p] = IF handle[p] = "alive" THEN 1 ELSE 0

\* When managerState is sent, a process that is to run is running, or it is reported as
\* one that should be and is not (selfdrived's processNotRunning): start never leaves it
\* out because an earlier stop was still under way.
WantedIsRunningOrReported ==
  phase = "report" => \A p \in running : handle[p] # "none" /\ ~shuttingDown[p]

\* A process not to run in two successive iterations is gone after the second, also if
\* it ignores SIGINT.
UnwantedIsDead ==
  phase = "report" => \A p \in Procs : unwanted[p] = 2 => instances[p] = 0

\* "everything is dead" before the device is uninstalled, rebooted or shut down.
EverythingIsDead == phase \in {"exit", "done"} => \A p \in Procs : instances[p] = 0

\* No process is left over: not one that is no longer to run, and none at an exit.
NoneLeftOver == UnwantedIsDead /\ EverythingIsDead

\* An exit param is acted on, whatever the children do with SIGINT.
ExitCarriedOut == requested # {} ~> final # "none"

\* A process with restart_if_crash that crashed comes back, unless the manager ends.
CrashedComesBack ==
  \A p \in Restarted :
    (handle[p] = "dead" /\ Kind[p] = "always")
      ~> (handle[p] = "alive" \/ phase \in {"cleanup", "kill", "exit", "done"})
=============================================================================
