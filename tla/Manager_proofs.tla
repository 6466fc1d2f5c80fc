--------------------------- MODULE Manager_proofs ----------------------------
(***************************************************************************)
(* For any number of processes of any kind, any crashes and any changes of *)
(* what is to run: the safety properties of Manager.  The invariant says,  *)
(* phase by phase, what the visits made so far have established: Unwanted  *)
(* for ensure_running's first loop, Wanted for its second, Cleaned for     *)
(* the two loops of manager_cleanup.                                       *)
(***************************************************************************)
EXTENDS Manager, TLAPS

Settled(p) == handle[p] = "none" \/ shuttingDown[p]
Up(p) == handle[p] # "none" /\ ~shuttingDown[p]
Joining(phases) == phase = "join" /\ back \in phases

Handles == \A p \in Procs : shuttingDown[p] => handle[p] # "none"

Listed ==
  /\ \A p \in running : unwanted[p] = 0
  /\ phase = "stop" \/ Joining({"stop"}) => \A p \in running : p < i

Wanted ==
  /\ phase = "start" \/ Joining({"start"}) => \A p \in running : p < i => Up(p)
  /\ WantedIsRunningOrReported

Unwanted ==
  \A p \in Procs :
    /\ unwanted[p] > 0 => Settled(p)
    /\ unwanted[p] = 2 => handle[p] = "none" \/ (Joining({"stop"}) /\ p = i)

Cleaned ==
  /\ phase = "cleanup" \/ Joining({"cleanup"}) => \A p \in Procs : p < i => Settled(p)
  /\ Joining({"cleanup"}) => Settled(i)
  /\ phase = "kill" \/ Joining({"kill"}) =>
       \A p \in Procs : Settled(p) /\ (p < i => handle[p] = "none")
  /\ phase \in {"exit", "done"} => \A p \in Procs : handle[p] = "none"

Inv ==
  /\ FlagsOK /\ CountersOK /\ OneInstance /\ Handles
  /\ Listed /\ Wanted /\ Unwanted /\ Cleaned

\* Inv holds initially.
LEMMA InitHolds == Init => Inv
<1> USE ManagerAssumption DEF Init
<1>1. Init => FlagsOK BY DEF FlagsOK, Phases
<1>2. Init => CountersOK BY DEF CountersOK, Procs
<1>3. Init => OneInstance /\ Handles BY DEF OneInstance, Handles
<1>4. Init => Listed /\ Wanted /\ Unwanted /\ Cleaned
  BY DEF Listed, Wanted, WantedIsRunningOrReported, Unwanted, Cleaned, Joining
<1>5. QED BY <1>1, <1>2, <1>3, <1>4 DEF Inv

\* Update preserves Inv.
LEMMA UpdateStep ==
  ASSUME Inv, Update
  PROVE  Inv'
<1> USE ManagerAssumption DEF Inv, Procs, envVars, loopVars, procVars,
      Update
<1>1. FlagsOK' BY DEF FlagsOK, CountersOK, Phases, Requests
<1>2. CountersOK' BY DEF CountersOK, FlagsOK, OneInstance
<1>3. OneInstance' BY DEF OneInstance, FlagsOK, CountersOK
<1>4. Handles' BY DEF Handles, FlagsOK, CountersOK
<1>5. Listed' BY DEF Listed, Joining, FlagsOK, CountersOK
<1>6. Wanted' BY DEF Wanted, WantedIsRunningOrReported, Joining, Up, FlagsOK, CountersOK
<1>7. Unwanted' BY DEF Unwanted, Listed, Handles, Joining, Settled, FlagsOK, CountersOK
<1>8. Cleaned' BY DEF Cleaned, Handles, Joining, Settled, FlagsOK, CountersOK
<1>9. QED BY <1>1, <1>2, <1>3, <1>4, <1>5, <1>6, <1>7, <1>8

\* VisitWanted preserves Inv.
LEMMA VisitWantedStep ==
  ASSUME Inv, VisitWanted
  PROVE  Inv'
<1> USE ManagerAssumption DEF Inv, Procs, envVars, loopVars, procVars,
      VisitWanted, Spawn, Proceed, RestartCrashed
<1>1. FlagsOK' BY DEF FlagsOK, CountersOK, Phases, Requests
<1>2. CountersOK' BY DEF CountersOK, FlagsOK, OneInstance
<1>3. OneInstance' BY DEF OneInstance, FlagsOK, CountersOK
<1>4. Handles' BY DEF Handles, FlagsOK, CountersOK
<1>5. Listed' BY DEF Listed, Joining, FlagsOK, CountersOK
<1>6. Wanted' BY DEF Wanted, WantedIsRunningOrReported, Joining, Up, FlagsOK, CountersOK
<1>7. Unwanted' BY DEF Unwanted, Listed, Handles, Joining, Settled, FlagsOK, CountersOK
<1>8. Cleaned' BY DEF Cleaned, Handles, Joining, Settled, FlagsOK, CountersOK
<1>9. QED BY <1>1, <1>2, <1>3, <1>4, <1>5, <1>6, <1>7, <1>8

\* VisitUnwanted preserves Inv.
LEMMA VisitUnwantedStep ==
  ASSUME Inv, VisitUnwanted
  PROVE  Inv'
<1> USE ManagerAssumption DEF Inv, Procs, envVars, loopVars, procVars,
      VisitUnwanted, Forget, Interrupt, Wait, Proceed, Stop
<1>1. FlagsOK' BY DEF FlagsOK, CountersOK, Phases, Requests
<1>2. CountersOK' BY DEF CountersOK, FlagsOK, OneInstance
<1>3. OneInstance' BY DEF OneInstance, FlagsOK, CountersOK
<1>4. Handles' BY DEF Handles, FlagsOK, CountersOK
<1>5. Listed' BY DEF Listed, Joining, FlagsOK, CountersOK
<1>6. Wanted' BY DEF Wanted, WantedIsRunningOrReported, Joining, Up, FlagsOK, CountersOK
<1>7. Unwanted' BY DEF Unwanted, Listed, Handles, Joining, Settled, FlagsOK, CountersOK
<1>8. Cleaned' BY DEF Cleaned, Handles, Joining, Settled, FlagsOK, CountersOK
<1>9. QED BY <1>1, <1>2, <1>3, <1>4, <1>5, <1>6, <1>7, <1>8

\* StopPhaseOver preserves Inv.
LEMMA StopPhaseOverStep ==
  ASSUME Inv, StopPhaseOver
  PROVE  Inv'
<1> USE ManagerAssumption DEF Inv, Procs, envVars, loopVars, procVars,
      StopPhaseOver
<1>1. FlagsOK' BY DEF FlagsOK, CountersOK, Phases, Requests
<1>2. CountersOK' BY DEF CountersOK, FlagsOK, OneInstance
<1>3. OneInstance' BY DEF OneInstance, FlagsOK, CountersOK
<1>4. Handles' BY DEF Handles, FlagsOK, CountersOK
<1>5. Listed' BY DEF Listed, Joining, FlagsOK, CountersOK
<1>6. Wanted' BY DEF Wanted, WantedIsRunningOrReported, Joining, Up, FlagsOK, CountersOK
<1>7. Unwanted' BY DEF Unwanted, Listed, Handles, Joining, Settled, FlagsOK, CountersOK
<1>8. Cleaned' BY DEF Cleaned, Handles, Joining, Settled, FlagsOK, CountersOK
<1>9. QED BY <1>1, <1>2, <1>3, <1>4, <1>5, <1>6, <1>7, <1>8

\* StartRunning preserves Inv.
LEMMA StartRunningStep ==
  ASSUME Inv, StartRunning
  PROVE  Inv'
<1> USE ManagerAssumption DEF Inv, Procs, envVars, loopVars, procVars,
      StartRunning, Spawn, Wait, Proceed, Start
<1>1. FlagsOK' BY DEF FlagsOK, CountersOK, Phases, Requests
<1>2. CountersOK' BY DEF CountersOK, FlagsOK, OneInstance
<1>3. OneInstance' BY DEF OneInstance, FlagsOK, CountersOK
<1>4. Handles' BY DEF Handles, FlagsOK, CountersOK
<1>5. Listed' BY DEF Listed, Joining, FlagsOK, CountersOK
<1>6. Wanted' BY DEF Wanted, WantedIsRunningOrReported, Joining, Up, FlagsOK, CountersOK
<1>7. Unwanted' BY DEF Unwanted, Listed, Handles, Joining, Settled, FlagsOK, CountersOK
<1>8. Cleaned' BY DEF Cleaned, Handles, Joining, Settled, FlagsOK, CountersOK
<1>9. QED BY <1>1, <1>2, <1>3, <1>4, <1>5, <1>6, <1>7, <1>8

\* StartPhaseOver preserves Inv.
LEMMA StartPhaseOverStep ==
  ASSUME Inv, StartPhaseOver
  PROVE  Inv'
<1> USE ManagerAssumption DEF Inv, Procs, envVars, loopVars, procVars,
      StartPhaseOver
<1>1. FlagsOK' BY DEF FlagsOK, CountersOK, Phases, Requests
<1>2. CountersOK' BY DEF CountersOK, FlagsOK, OneInstance
<1>3. OneInstance' BY DEF OneInstance, FlagsOK, CountersOK
<1>4. Handles' BY DEF Handles, FlagsOK, CountersOK
<1>5. Listed' BY DEF Listed, Joining, FlagsOK, CountersOK
<1>6. Wanted' BY DEF Wanted, WantedIsRunningOrReported, Joining, Up, FlagsOK, CountersOK
<1>7. Unwanted' BY DEF Unwanted, Listed, Handles, Joining, Settled, FlagsOK, CountersOK
<1>8. Cleaned' BY DEF Cleaned, Handles, Joining, Settled, FlagsOK, CountersOK
<1>9. QED BY <1>1, <1>2, <1>3, <1>4, <1>5, <1>6, <1>7, <1>8

\* Report preserves Inv.
LEMMA ReportStep ==
  ASSUME Inv, Report
  PROVE  Inv'
<1> USE ManagerAssumption DEF Inv, Procs, envVars, loopVars, procVars,
      Report
<1>1. FlagsOK' BY DEF FlagsOK, CountersOK, Phases, Requests
<1>2. CountersOK' BY DEF CountersOK, FlagsOK, OneInstance
<1>3. OneInstance' BY DEF OneInstance, FlagsOK, CountersOK
<1>4. Handles' BY DEF Handles, FlagsOK, CountersOK
<1>5. Listed' BY DEF Listed, Joining, FlagsOK, CountersOK
<1>6. Wanted' BY DEF Wanted, WantedIsRunningOrReported, Joining, Up, FlagsOK, CountersOK
<1>7. Unwanted' BY DEF Unwanted, Listed, Handles, Joining, Settled, FlagsOK, CountersOK
<1>8. Cleaned' BY DEF Cleaned, Handles, Joining, Settled, FlagsOK, CountersOK
<1>9. QED BY <1>1, <1>2, <1>3, <1>4, <1>5, <1>6, <1>7, <1>8

\* Terminate preserves Inv.
LEMMA TerminateStep ==
  ASSUME Inv, Terminate
  PROVE  Inv'
<1> USE ManagerAssumption DEF Inv, Procs, envVars, loopVars, procVars,
      Terminate
<1>1. FlagsOK' BY DEF FlagsOK, CountersOK, Phases, Requests
<1>2. CountersOK' BY DEF CountersOK, FlagsOK, OneInstance
<1>3. OneInstance' BY DEF OneInstance, FlagsOK, CountersOK
<1>4. Handles' BY DEF Handles, FlagsOK, CountersOK
<1>5. Listed' BY DEF Listed, Joining, FlagsOK, CountersOK
<1>6. Wanted' BY DEF Wanted, WantedIsRunningOrReported, Joining, Up, FlagsOK, CountersOK
<1>7. Unwanted' BY DEF Unwanted, Listed, Handles, Joining, Settled, FlagsOK, CountersOK
<1>8. Cleaned' BY DEF Cleaned, Handles, Joining, Settled, FlagsOK, CountersOK
<1>9. QED BY <1>1, <1>2, <1>3, <1>4, <1>5, <1>6, <1>7, <1>8

\* JoinExited preserves Inv.
LEMMA JoinExitedStep ==
  ASSUME Inv, JoinExited
  PROVE  Inv'
<1> USE ManagerAssumption DEF Inv, Procs, envVars, loopVars, procVars,
      JoinExited, Forget, Joined
<1>1. FlagsOK' BY DEF FlagsOK, CountersOK, Phases, Requests
<1>2. CountersOK' BY DEF CountersOK, FlagsOK, OneInstance
<1>3. OneInstance' BY DEF OneInstance, FlagsOK, CountersOK
<1>4. Handles' BY DEF Handles, FlagsOK, CountersOK
<1>5. Listed' BY DEF Listed, Joining, FlagsOK, CountersOK
<1>6. Wanted' BY DEF Wanted, WantedIsRunningOrReported, Joining, Up, FlagsOK, CountersOK
<1>7. Unwanted' BY DEF Unwanted, Listed, Handles, Joining, Settled, FlagsOK, CountersOK
<1>8. Cleaned' BY DEF Cleaned, Handles, Joining, Settled, FlagsOK, CountersOK
<1>9. QED BY <1>1, <1>2, <1>3, <1>4, <1>5, <1>6, <1>7, <1>8

\* JoinTimeout preserves Inv.
LEMMA JoinTimeoutStep ==
  ASSUME Inv, JoinTimeout
  PROVE  Inv'
<1> USE ManagerAssumption DEF Inv, Procs, envVars, loopVars, procVars,
      JoinTimeout, Forget, Joined
<1>1. FlagsOK' BY DEF FlagsOK, CountersOK, Phases, Requests
<1>2. CountersOK' BY DEF CountersOK, FlagsOK, OneInstance
<1>3. OneInstance' BY DEF OneInstance, FlagsOK, CountersOK
<1>4. Handles' BY DEF Handles, FlagsOK, CountersOK
<1>5. Listed' BY DEF Listed, Joining, FlagsOK, CountersOK
<1>6. Wanted' BY DEF Wanted, WantedIsRunningOrReported, Joining, Up, FlagsOK, CountersOK
<1>7. Unwanted' BY DEF Unwanted, Listed, Handles, Joining, Settled, FlagsOK, CountersOK
<1>8. Cleaned' BY DEF Cleaned, Handles, Joining, Settled, FlagsOK, CountersOK
<1>9. QED BY <1>1, <1>2, <1>3, <1>4, <1>5, <1>6, <1>7, <1>8

\* CleanupStop preserves Inv.
LEMMA CleanupStopStep ==
  ASSUME Inv, CleanupStop
  PROVE  Inv'
<1> USE ManagerAssumption DEF Inv, Procs, envVars, loopVars, procVars,
      CleanupStop, Forget, Interrupt, Wait, Proceed, Stop
<1>1. FlagsOK' BY DEF FlagsOK, CountersOK, Phases, Requests
<1>2. CountersOK' BY DEF CountersOK, FlagsOK, OneInstance
<1>3. OneInstance' BY DEF OneInstance, FlagsOK, CountersOK
<1>4. Handles' BY DEF Handles, FlagsOK, CountersOK
<1>5. Listed' BY DEF Listed, Joining, FlagsOK, CountersOK
<1>6. Wanted' BY DEF Wanted, WantedIsRunningOrReported, Joining, Up, FlagsOK, CountersOK
<1>7. Unwanted' BY DEF Unwanted, Listed, Handles, Joining, Settled, FlagsOK, CountersOK
<1>8. Cleaned' BY DEF Cleaned, Handles, Joining, Settled, FlagsOK, CountersOK
<1>9. QED BY <1>1, <1>2, <1>3, <1>4, <1>5, <1>6, <1>7, <1>8

\* CleanupOver preserves Inv.
LEMMA CleanupOverStep ==
  ASSUME Inv, CleanupOver
  PROVE  Inv'
<1> USE ManagerAssumption DEF Inv, Procs, envVars, loopVars, procVars,
      CleanupOver
<1>1. FlagsOK' BY DEF FlagsOK, CountersOK, Phases, Requests
<1>2. CountersOK' BY DEF CountersOK, FlagsOK, OneInstance
<1>3. OneInstance' BY DEF OneInstance, FlagsOK, CountersOK
<1>4. Handles' BY DEF Handles, FlagsOK, CountersOK
<1>5. Listed' BY DEF Listed, Joining, FlagsOK, CountersOK
<1>6. Wanted' BY DEF Wanted, WantedIsRunningOrReported, Joining, Up, FlagsOK, CountersOK
<1>7. Unwanted' BY DEF Unwanted, Listed, Handles, Joining, Settled, FlagsOK, CountersOK
<1>8. Cleaned' BY DEF Cleaned, Handles, Joining, Settled, FlagsOK, CountersOK
<1>9. QED BY <1>1, <1>2, <1>3, <1>4, <1>5, <1>6, <1>7, <1>8

\* Exit preserves Inv.
LEMMA ExitStep ==
  ASSUME Inv, Exit
  PROVE  Inv'
<1> USE ManagerAssumption DEF Inv, Procs, envVars, loopVars, procVars,
      Exit
<1>1. FlagsOK' BY DEF FlagsOK, CountersOK, Phases, Requests
<1>2. CountersOK' BY DEF CountersOK, FlagsOK, OneInstance
<1>3. OneInstance' BY DEF OneInstance, FlagsOK, CountersOK
<1>4. Handles' BY DEF Handles, FlagsOK, CountersOK
<1>5. Listed' BY DEF Listed, Joining, FlagsOK, CountersOK
<1>6. Wanted' BY DEF Wanted, WantedIsRunningOrReported, Joining, Up, FlagsOK, CountersOK
<1>7. Unwanted' BY DEF Unwanted, Listed, Handles, Joining, Settled, FlagsOK, CountersOK
<1>8. Cleaned' BY DEF Cleaned, Handles, Joining, Settled, FlagsOK, CountersOK
<1>9. QED BY <1>1, <1>2, <1>3, <1>4, <1>5, <1>6, <1>7, <1>8

\* Toggle preserves Inv.
LEMMA ToggleStep ==
  ASSUME Inv, Toggle
  PROVE  Inv'
<1> USE ManagerAssumption DEF Inv, Procs, envVars, loopVars, procVars,
      Toggle
<1>1. FlagsOK' BY DEF FlagsOK, CountersOK, Phases, Requests
<1>2. CountersOK' BY DEF CountersOK, FlagsOK, OneInstance
<1>3. OneInstance' BY DEF OneInstance, FlagsOK, CountersOK
<1>4. Handles' BY DEF Handles, FlagsOK, CountersOK
<1>5. Listed' BY DEF Listed, Joining, FlagsOK, CountersOK
<1>6. Wanted' BY DEF Wanted, WantedIsRunningOrReported, Joining, Up, FlagsOK, CountersOK
<1>7. Unwanted' BY DEF Unwanted, Listed, Handles, Joining, Settled, FlagsOK, CountersOK
<1>8. Cleaned' BY DEF Cleaned, Handles, Joining, Settled, FlagsOK, CountersOK
<1>9. QED BY <1>1, <1>2, <1>3, <1>4, <1>5, <1>6, <1>7, <1>8

\* Crash preserves Inv.
LEMMA CrashStep ==
  ASSUME Inv, NEW q \in Procs, Crash(q)
  PROVE  Inv'
<1> USE ManagerAssumption DEF Inv, Procs, envVars, loopVars, procVars,
      Crash, Dies
<1>1. FlagsOK' BY DEF FlagsOK, CountersOK, Phases, Requests
<1>2. CountersOK' BY DEF CountersOK, FlagsOK, OneInstance
<1>3. OneInstance' BY DEF OneInstance, FlagsOK, CountersOK
<1>4. Handles' BY DEF Handles, FlagsOK, CountersOK
<1>5. Listed' BY DEF Listed, Joining, FlagsOK, CountersOK
<1>6. Wanted' BY DEF Wanted, WantedIsRunningOrReported, Joining, Up, FlagsOK, CountersOK
<1>7. Unwanted' BY DEF Unwanted, Listed, Handles, Joining, Settled, FlagsOK, CountersOK
<1>8. Cleaned' BY DEF Cleaned, Handles, Joining, Settled, FlagsOK, CountersOK
<1>9. QED BY <1>1, <1>2, <1>3, <1>4, <1>5, <1>6, <1>7, <1>8

\* ExitOnInterrupt preserves Inv.
LEMMA ExitOnInterruptStep ==
  ASSUME Inv, NEW q \in Procs, ExitOnInterrupt(q)
  PROVE  Inv'
<1> USE ManagerAssumption DEF Inv, Procs, envVars, loopVars, procVars,
      ExitOnInterrupt, Dies
<1>1. FlagsOK' BY DEF FlagsOK, CountersOK, Phases, Requests
<1>2. CountersOK' BY DEF CountersOK, FlagsOK, OneInstance
<1>3. OneInstance' BY DEF OneInstance, FlagsOK, CountersOK
<1>4. Handles' BY DEF Handles, FlagsOK, CountersOK
<1>5. Listed' BY DEF Listed, Joining, FlagsOK, CountersOK
<1>6. Wanted' BY DEF Wanted, WantedIsRunningOrReported, Joining, Up, FlagsOK, CountersOK
<1>7. Unwanted' BY DEF Unwanted, Listed, Handles, Joining, Settled, FlagsOK, CountersOK
<1>8. Cleaned' BY DEF Cleaned, Handles, Joining, Settled, FlagsOK, CountersOK
<1>9. QED BY <1>1, <1>2, <1>3, <1>4, <1>5, <1>6, <1>7, <1>8

\* Request preserves Inv.
LEMMA RequestStep ==
  ASSUME Inv, NEW r \in Requests, Request(r)
  PROVE  Inv'
<1> USE ManagerAssumption DEF Inv, Procs, envVars, loopVars, procVars,
      Request
<1>1. FlagsOK' BY DEF FlagsOK, CountersOK, Phases, Requests
<1>2. CountersOK' BY DEF CountersOK, FlagsOK, OneInstance
<1>3. OneInstance' BY DEF OneInstance, FlagsOK, CountersOK
<1>4. Handles' BY DEF Handles, FlagsOK, CountersOK
<1>5. Listed' BY DEF Listed, Joining, FlagsOK, CountersOK
<1>6. Wanted' BY DEF Wanted, WantedIsRunningOrReported, Joining, Up, FlagsOK, CountersOK
<1>7. Unwanted' BY DEF Unwanted, Listed, Handles, Joining, Settled, FlagsOK, CountersOK
<1>8. Cleaned' BY DEF Cleaned, Handles, Joining, Settled, FlagsOK, CountersOK
<1>9. QED BY <1>1, <1>2, <1>3, <1>4, <1>5, <1>6, <1>7, <1>8

\* Inv is an invariant of the manager.
THEOREM ManagerInvariant == Spec => []Inv
<1>1. ASSUME Inv, [Next]_vars
      PROVE  Inv'
  <2>1. ASSUME Loop \/ Join PROVE Inv'
    BY <1>1, <2>1, UpdateStep, VisitWantedStep, VisitUnwantedStep, StopPhaseOverStep,
       StartRunningStep, StartPhaseOverStep, ReportStep, JoinExitedStep, JoinTimeoutStep
    DEF Loop, Join
  <2>2. ASSUME Leave \/ Terminate PROVE Inv'
    BY <1>1, <2>2, CleanupStopStep, CleanupOverStep, ExitStep, TerminateStep DEF Leave
  <2>3. ASSUME Env PROVE Inv'
    BY <1>1, <2>3, CrashStep, ExitOnInterruptStep, ToggleStep, RequestStep DEF Env
  <2>4. ASSUME UNCHANGED vars PROVE Inv'
    <3> USE <1>1, <2>4 DEF vars, envVars, loopVars, procVars, Inv
    <3>1. FlagsOK' BY DEF FlagsOK
    <3>2. CountersOK' BY DEF CountersOK
    <3>3. (OneInstance /\ Handles /\ Listed /\ Unwanted)'
      BY DEF OneInstance, Handles, Listed, Unwanted, Joining, Settled
    <3>4. (Wanted /\ Cleaned)'
      BY DEF Wanted, WantedIsRunningOrReported, Cleaned, Joining, Settled, Up
    <3>5. QED BY <3>1, <3>2, <3>3, <3>4
  <2>5. QED BY <1>1, <2>1, <2>2, <2>3, <2>4 DEF Next
<1>2. QED BY InitHolds, <1>1, PTL DEF Spec

\* Types and bounds of the manager, for any number of processes.
THEOREM ManagerTypes == Spec => []TypeOK
  BY ManagerInvariant, PTL DEF Inv, TypeOK

\* No process runs twice or without a handle (ManagerProcess.stop).
THEOREM InstanceSafety == Spec => []OneInstance
  BY ManagerInvariant, PTL DEF Inv

\* A process that is to run is never silently absent from managerState.
THEOREM WantedSafety == Spec => []WantedIsRunningOrReported
  BY ManagerInvariant, PTL DEF Inv, Wanted

\* A process that is not to run is dead after the second iteration.
THEOREM UnwantedSafety == Spec => []UnwantedIsDead
<1>1. Inv => UnwantedIsDead
  BY DEF Inv, UnwantedIsDead, Unwanted, OneInstance, Joining, CountersOK
<1>2. QED BY <1>1, ManagerInvariant, PTL

\* Everything is dead before the device goes down (manager_cleanup).
THEOREM CleanupSafety == Spec => []EverythingIsDead
<1>1. Inv => EverythingIsDead
  BY DEF Inv, EverythingIsDead, Cleaned, OneInstance
<1>2. QED BY <1>1, ManagerInvariant, PTL

\* Nothing is left over, in a running manager or at its exit.
THEOREM LeftOverSafety == Spec => []NoneLeftOver
BY UnwantedSafety, CleanupSafety, PTL DEF NoneLeftOver

=============================================================================
