-------------------------- MODULE Selfdrived_proofs --------------------------
(***************************************************************************)
(* Proofs about Selfdrived, for every set of pandas, every set of inputs   *)
(* and every value of the limits.  IInv is the inductive invariant: each   *)
(* safety property needs the flags to agree with the state machine, and    *)
(* the brake property needs the edge memory CSPrev as well.                *)
(***************************************************************************)
EXTENDS Selfdrived, TLAPS

FlagsOK == (enabled <=> state \in ENABLED_STATES) /\ (active <=> state \in ACTIVE_STATES)
StartsDisengaged == ~initialized => state = "disabled"
LatchPersisted == excessiveActuation => excessiveParam
TimerRuns == state = "softDisabling" => softDisableTimer > 0

IInv ==
  /\ TypeOK /\ FlagsOK /\ StartsDisengaged /\ LatchPersisted /\ TimerRuns
  /\ NeverActiveWhileBraking /\ EnabledOnlyWithCruise
  /\ MismatchEndsEngagement /\ CommFailureDisables

-----------------------------------------------------------------------------
(* The event table.                                                        *)

\* What the events the arguments below use contribute.
LEMMA EventTable ==
  ASSUME NEW evs
  PROVE  /\ "buttonCancel" \in evs => Contains(evs, "USER_DISABLE")
         /\ "pedalPressed" \in evs => Contains(evs, "USER_DISABLE") /\ Contains(evs, "NO_ENTRY")
         /\ "pcmDisable" \in evs => Contains(evs, "USER_DISABLE")
         /\ "preEnableStandstill" \in evs => Contains(evs, "PRE_ENABLE")
         /\ "excessiveActuation" \in evs => Contains(evs, "SOFT_DISABLE") /\ Contains(evs, "NO_ENTRY")
         /\ "commIssue" \in evs => Contains(evs, "SOFT_DISABLE") /\ Contains(evs, "NO_ENTRY")
         /\ "controlsMismatch" \in evs => Contains(evs, "IMMEDIATE_DISABLE") /\ Contains(evs, "NO_ENTRY")
         /\ "canError" \in evs => Contains(evs, "IMMEDIATE_DISABLE") /\ Contains(evs, "NO_ENTRY")
  BY DEF Contains, EventTypes

\* Of the events that disengage, only pcmDisable does not also refuse entry.
LEMMA DisablingRefusesEntry ==
  ASSUME NEW evs \in SUBSET EventName, ~Contains(evs, "NO_ENTRY"), "pcmDisable" \notin evs
  PROVE  /\ ~Contains(evs, "USER_DISABLE") /\ ~Contains(evs, "IMMEDIATE_DISABLE")
         /\ ~Contains(evs, "SOFT_DISABLE")
  BY DEF Contains, EventTypes, EventName

\* Only the enable events enable.
LEMMA EnableEvents ==
  ASSUME NEW evs \in SUBSET EventName, Contains(evs, "ENABLE")
  PROVE  "pcmEnable" \in evs \/ "buttonEnable" \in evs
  BY DEF Contains, EventTypes, EventName

-----------------------------------------------------------------------------
(* The state machine.                                                      *)

LEMMA NextStateType ==
  ASSUME NEW s \in States, NEW timer \in 0..SoftDisableSteps, NEW evs
  PROVE  /\ NextState(s, timer, evs) \in States
         /\ NextTimer(s, timer, evs) \in 0..SoftDisableSteps
  BY LimitsAssumption DEF NextState, NextTimer, FromDisabled, FromEngaged, States, Ticked

\* A soft disable is timed from its first step on and ends before the timer is at zero.
LEMMA TimerStarts ==
  ASSUME NEW s \in States, NEW timer \in 0..SoftDisableSteps, NEW evs,
         NextState(s, timer, evs) = "softDisabling"
  PROVE  NextTimer(s, timer, evs) > 0
  BY LimitsAssumption DEF NextState, NextTimer, FromDisabled, FromEngaged, States, Ticked

\* From an engaged state, a user or immediate disable always disengages.
LEMMA DisableWins ==
  ASSUME NEW s \in States \ {"disabled"}, NEW timer, NEW evs,
         Contains(evs, "USER_DISABLE") \/ Contains(evs, "IMMEDIATE_DISABLE")
  PROVE  NextState(s, timer, evs) = "disabled"
  BY DEF NextState, FromEngaged, States

\* Entry needs an enable event and no refusal.
LEMMA EntryNeeds ==
  ASSUME NEW timer, NEW evs, NextState("disabled", timer, evs) # "disabled"
  PROVE  Contains(evs, "ENABLE") /\ ~Contains(evs, "NO_ENTRY")
  BY DEF NextState, FromDisabled

\* A pre-enable condition holds back a machine that is not active yet.
LEMMA PreEnableHolds ==
  ASSUME NEW s \in {"disabled", "preEnabled"}, NEW timer, NEW evs, Contains(evs, "PRE_ENABLE")
  PROVE  NextState(s, timer, evs) \notin ACTIVE_STATES
  BY DEF NextState, FromDisabled, FromEngaged, ACTIVE_STATES

-----------------------------------------------------------------------------
(* The events of one initialized step.                                     *)

LEMMA EventsType ==
  ASSUME NEW CS, NEW smNew, NEW fr, NEW mismatches, NEW excessive
  PROVE  UpdateEvents(CS, smNew, fr, mismatches, excessive) \in SUBSET EventName
  BY DEF UpdateEvents, WithCommIssue, DriverEvents, SystemEvents, CarEvents, Named,
         EventName, EventTypes

\* What each condition of the loop puts on the list.
LEMMA EventsRaised ==
  ASSUME NEW CS \in CarState, NEW smNew \in SubMaster, NEW fr, NEW mismatches, NEW excessive,
         NEW evs, evs = UpdateEvents(CS, smNew, fr, mismatches, excessive)
  PROVE  /\ ~CS.canValid => "canError" \in evs
         /\ CS.canValid /\ PedalPressed(CS) => "pedalPressed" \in evs
         /\ CS.canValid /\ CS.brakePressed /\ CS.standstill => "preEnableStandstill" \in evs
         /\ CS.canValid /\ pcmCruise /\ ~CS.cruiseEnabled => "pcmDisable" \in evs
         /\ excessive => "excessiveActuation" \in evs
         /\ mismatches >= MismatchLimit /\ Pandas # {} => "controlsMismatch" \in evs
  BY DEF UpdateEvents, WithCommIssue, DriverEvents, SystemEvents, CarEvents, Named, CarState,
         TooManyMismatches

\* Where an enable event can come from.
LEMMA EnableSource ==
  ASSUME NEW CS \in CarState, NEW smNew \in SubMaster, NEW fr, NEW mismatches, NEW excessive,
         NEW evs, evs = UpdateEvents(CS, smNew, fr, mismatches, excessive)
  PROVE  /\ "pcmEnable" \in evs => CS.cruiseEnabled
         /\ "buttonEnable" \in evs => CS.buttonEnable
         /\ "pcmDisable" \in evs => pcmCruise /\ ~CS.cruiseEnabled
  BY DEF UpdateEvents, WithCommIssue, DriverEvents, SystemEvents, CarEvents, Named, CarState

\* The catch-all leaves no failing check without a disabling event.
LEMMA CatchAll ==
  ASSUME NEW CS, NEW smNew, NEW fr, NEW mismatches, NEW excessive, ~smNew.allChecks,
         NEW evs, evs = UpdateEvents(CS, smNew, fr, mismatches, excessive)
  PROVE  /\ Contains(evs, "NO_ENTRY")
         /\ Contains(evs, "SOFT_DISABLE") \/ Contains(evs, "IMMEDIATE_DISABLE")
<1> DEFINE before == DriverEvents(CS, smNew.pandaStates, fr, mismatches, excessive)
           system == SystemEvents(CS, smNew)
           all == before \cup system
<1>1. all \subseteq evs
  BY DEF UpdateEvents, WithCommIssue
<1>2. CASE "commIssue" \in evs
  BY <1>2, EventTable
<1>3. CASE "commIssue" \notin evs
  <2>1. /\ Contains(all, "NO_ENTRY")
        /\ Contains(all, "SOFT_DISABLE") \/ Contains(all, "IMMEDIATE_DISABLE")
    BY <1>3 DEF UpdateEvents, WithCommIssue, NoSystemErrors, HasDisableEvents, Named
  <2>2. \A et : Contains(all, et) => Contains(evs, et)
    BY <1>1 DEF Contains
  <2> QED
    BY <2>1, <2>2
<1> QED
  BY <1>2, <1>3

-----------------------------------------------------------------------------
(* Induction.                                                              *)

LEMMA Constants ==
  /\ NoCar \in CarState /\ NoMessages \in SubMaster
  /\ FrameBound \in Nat /\ 0 \in 0..SoftDisableSteps /\ 0 \in 0..MismatchLimit
  /\ 0 \in 0..(CruiseMismatchLimit + 1)
<1>1. NoCar \in CarState
  BY DEF NoCar, CarState
<1>2. NoMessages \in SubMaster
  BY DEF NoMessages, SubMaster, PandaState, SafetyModel
<1>3. /\ FrameBound \in Nat /\ 0 \in 0..SoftDisableSteps /\ 0 \in 0..MismatchLimit
      /\ 0 \in 0..(CruiseMismatchLimit + 1)
  BY LimitsAssumption DEF FrameBound
<1> QED
  BY <1>1, <1>2, <1>3

LEMMA InitInv == Init => IInv
<1> SUFFICES ASSUME Init PROVE IInv
  OBVIOUS
<1>1. TypeOK
  <2>1. /\ initialized \in BOOLEAN /\ enabled \in BOOLEAN /\ active \in BOOLEAN
        /\ pcmCruise \in BOOLEAN /\ disengageOnAccelerator \in BOOLEAN
    BY DEF Init
  <2>2. excessiveActuation \in BOOLEAN /\ excessiveParam \in BOOLEAN
    BY DEF Init
  <2>3. state \in States /\ events \subseteq EventName
    BY DEF Init, States
  <2>4. /\ softDisableTimer \in 0..SoftDisableSteps /\ mismatchCounter \in 0..MismatchLimit
        /\ cruiseMismatchCounter \in 0..(CruiseMismatchLimit + 1) /\ frame \in 0..FrameBound
        /\ CSPrev \in CarState /\ sm \in SubMaster
    BY Constants DEF Init
  <2> QED
    BY <2>1, <2>2, <2>3, <2>4 DEF TypeOK
<1>2. FlagsOK
  BY DEF Init, FlagsOK, ENABLED_STATES, ACTIVE_STATES
<1>3. NeverActiveWhileBraking /\ EnabledOnlyWithCruise /\ MismatchEndsEngagement
      /\ CommFailureDisables
  BY DEF Init, NeverActiveWhileBraking, EnabledOnlyWithCruise, MismatchEndsEngagement,
         CommFailureDisables
<1>4. StartsDisengaged /\ LatchPersisted /\ TimerRuns
  BY DEF Init, StartsDisengaged, LatchPersisted, TimerRuns
<1> QED
  BY <1>1, <1>2, <1>3, <1>4 DEF IInv

LEMMA RestartInv == IInv /\ Restart => IInv'
<1> SUFFICES ASSUME IInv, Restart PROVE IInv'
  OBVIOUS
<1>1. TypeOK'
  <2>1. /\ initialized' \in BOOLEAN /\ enabled' \in BOOLEAN /\ active' \in BOOLEAN
        /\ pcmCruise' \in BOOLEAN /\ disengageOnAccelerator' \in BOOLEAN
    BY DEF Restart
  <2>2. excessiveActuation' \in BOOLEAN /\ excessiveParam' \in BOOLEAN
    BY DEF Restart, IInv, TypeOK
  <2>3. state' \in States /\ events' \subseteq EventName
    BY DEF Restart, States
  <2>4. /\ softDisableTimer' \in 0..SoftDisableSteps /\ mismatchCounter' \in 0..MismatchLimit
        /\ cruiseMismatchCounter' \in 0..(CruiseMismatchLimit + 1) /\ frame' \in 0..FrameBound
        /\ CSPrev' \in CarState /\ sm' \in SubMaster
    BY Constants DEF Restart
  <2> QED
    BY <2>1, <2>2, <2>3, <2>4 DEF TypeOK
<1>2. FlagsOK'
  BY DEF Restart, FlagsOK, ENABLED_STATES, ACTIVE_STATES
<1>3. NeverActiveWhileBraking' /\ EnabledOnlyWithCruise' /\ MismatchEndsEngagement'
      /\ CommFailureDisables'
  BY DEF Restart, NeverActiveWhileBraking, EnabledOnlyWithCruise, MismatchEndsEngagement,
         CommFailureDisables
<1>4. StartsDisengaged' /\ LatchPersisted' /\ TimerRuns'
  BY DEF Restart, StartsDisengaged, LatchPersisted, TimerRuns
<1> QED
  BY <1>1, <1>2, <1>3, <1>4 DEF IInv

\* A step that engages does so from disabled, or was engaged with no reason to stop.
LEMMA EngagedStep ==
  ASSUME IInv, NEW CS \in CarState, NEW smNew \in SubMaster, StepOn(CS, smNew), enabled'
  PROVE  /\ initialized'
         /\ state' = NextState(state, softDisableTimer, events')
         /\ state = "disabled" =>
              Contains(events', "ENABLE") /\ ~Contains(events', "NO_ENTRY")
         /\ state # "disabled" =>
              ~Contains(events', "USER_DISABLE") /\ ~Contains(events', "IMMEDIATE_DISABLE")
<1>1. initialized'
  BY DEF StepOn, IInv, FlagsOK, StartsDisengaged, TypeOK, ENABLED_STATES, ACTIVE_STATES, Initializes
<1>2. StateMachineUpdate(events')
  BY <1>1 DEF StepOn, IInv, TypeOK
<1>3. state' = NextState(state, softDisableTimer, events') /\ state' # "disabled"
  BY <1>2 DEF StateMachineUpdate, ENABLED_STATES, ACTIVE_STATES
<1>4. state = "disabled" => Contains(events', "ENABLE") /\ ~Contains(events', "NO_ENTRY")
  BY <1>3, EntryNeeds
<1>5. state # "disabled" =>
        ~Contains(events', "USER_DISABLE") /\ ~Contains(events', "IMMEDIATE_DISABLE")
  BY <1>3, DisableWins DEF IInv, TypeOK
<1> QED
  BY <1>1, <1>3, <1>4, <1>5

LEMMA StepInv ==
  ASSUME IInv, UNCHANGED settings, NEW CS \in CarState, CS.buttonEnable => ~pcmCruise,
         NEW smNew \in SubMaster, StepOn(CS, smNew)
  PROVE  IInv'
<1> DEFINE fr == IF frame < FrameBound THEN frame + 1 ELSE frame
           latched == Latched(Initializes(CS, smNew, fr), smNew)
<1>1. /\ frame' = fr /\ sm' = smNew /\ CSPrev' = CS
      /\ mismatchCounter' = CountMismatch(smNew.pandaStates)
      /\ excessiveActuation' = latched
  BY DEF StepOn
<1>2. initialized' =>
        /\ events' = UpdateEvents(CS, smNew, fr, mismatchCounter', latched)
        /\ cruiseMismatchCounter' = CountCruiseMismatch(CS)
        /\ StateMachineUpdate(events')
  BY DEF StepOn
<1>3. ~initialized' =>
        /\ events' = {"selfdriveInitializing"}
        /\ UNCHANGED <<cruiseMismatchCounter, state, softDisableTimer, enabled, active>>
  BY DEF StepOn
<1>4. mismatchCounter' \in 0..MismatchLimit
  BY <1>1, LimitsAssumption DEF CountMismatch, IInv, TypeOK, MismatchEndsEngagement
<1>5. mismatchCounter' = MismatchLimit => Pandas # {}
  BY <1>1, LimitsAssumption DEF CountMismatch, IInv, TypeOK, MismatchEndsEngagement, PandaDisagrees
<1>6. TypeOK'
  <2>1. initialized' \in BOOLEAN /\ excessiveActuation' \in BOOLEAN /\ excessiveParam' \in BOOLEAN
    BY DEF StepOn, IInv, TypeOK, Initializes, Latched, Persisted, SubMaster, CarState
  <2>2. CSPrev' \in CarState /\ sm' \in SubMaster
    BY <1>1
  <2>3. frame' \in 0..FrameBound
    BY <1>1, LimitsAssumption DEF IInv, TypeOK, FrameBound
  <2>4. events' \subseteq EventName
    BY <1>2, <1>3, <2>1, EventsType DEF EventName, EventTypes
  <2>5. cruiseMismatchCounter' \in 0..(CruiseMismatchLimit + 1)
    BY <1>2, <1>3, <2>1, LimitsAssumption DEF IInv, TypeOK, CountCruiseMismatch
  <2>6. state' \in States /\ softDisableTimer' \in 0..SoftDisableSteps
    BY <1>2, <1>3, <2>1, NextStateType DEF IInv, TypeOK, StateMachineUpdate
  <2>7. enabled' \in BOOLEAN /\ active' \in BOOLEAN
    <3>1. CASE initialized'
      BY <1>2, <3>1 DEF StateMachineUpdate
    <3>2. CASE ~initialized'
      BY <1>3, <3>2 DEF IInv, TypeOK
    <3> QED
      BY <2>1, <3>1, <3>2
  <2>8. pcmCruise' \in BOOLEAN /\ disengageOnAccelerator' \in BOOLEAN
    BY DEF settings, IInv, TypeOK
  <2> QED
    BY <1>4, <2>1, <2>2, <2>3, <2>4, <2>5, <2>6, <2>7, <2>8 DEF TypeOK
<1>7. FlagsOK'
  BY <1>2, <1>3, <1>6 DEF TypeOK, IInv, FlagsOK, StateMachineUpdate
<1>8. StartsDisengaged'
  BY <1>3 DEF IInv, StartsDisengaged, StepOn, Initializes
<1>9. LatchPersisted'
  BY DEF StepOn, LatchPersisted, Latched, Persisted, IInv, TypeOK
<1>10. NeverActiveWhileBraking'
  <2> SUFFICES ASSUME active', CS.brakePressed PROVE FALSE
    BY <1>1 DEF NeverActiveWhileBraking
  <2>1. enabled' /\ state' \in ACTIVE_STATES
    BY <1>7 DEF FlagsOK, ENABLED_STATES
  <2>2. initialized' /\ state' = NextState(state, softDisableTimer, events')
    BY <2>1, EngagedStep
  <2>3. ~(Contains(events', "NO_ENTRY") /\ Contains(events', "USER_DISABLE"))
        /\ ~(Contains(events', "NO_ENTRY") /\ Contains(events', "IMMEDIATE_DISABLE"))
    BY <2>1, EngagedStep
  <2>4. "canError" \notin events' /\ "pedalPressed" \notin events'
    BY <2>3, EventTable
  <2>5. CS.canValid /\ ~PedalPressed(CS)
    BY <1>2, <2>2, <2>4, EventsRaised
  <2>6. CSPrev.brakePressed /\ CS.standstill
    BY <2>5 DEF PedalPressed, CarState
  <2>7. Contains(events', "PRE_ENABLE")
    BY <1>2, <2>2, <2>5, <2>6, EventsRaised, EventTable
  <2>8. state \in {"disabled", "preEnabled"}
    BY <2>6 DEF IInv, TypeOK, FlagsOK, NeverActiveWhileBraking, States, ACTIVE_STATES
  <2> QED
    BY <2>1, <2>2, <2>7, <2>8, PreEnableHolds
<1>11. EnabledOnlyWithCruise'
  <2> SUFFICES ASSUME enabled', pcmCruise, ~CS.cruiseEnabled PROVE FALSE
    BY <1>1 DEF EnabledOnlyWithCruise, settings
  <2>1. initialized' /\ events' = UpdateEvents(CS, smNew, fr, mismatchCounter', latched)
    BY <1>2, EngagedStep
  <2>2. "canError" \notin events'
    BY EngagedStep, EventTable
  <2>3. "pcmDisable" \in events'
    BY <2>1, <2>2, EventsRaised DEF CarState
  <2>4. state = "disabled"
    BY <2>3, EngagedStep, EventTable
  <2>5. "pcmEnable" \in events' \/ "buttonEnable" \in events'
    BY <2>4, EngagedStep, EnableEvents, <1>6 DEF TypeOK
  <2> QED
    BY <2>1, <2>5, EnableSource
<1>12. MismatchEndsEngagement'
  <2> SUFFICES ASSUME enabled', mismatchCounter' >= MismatchLimit PROVE FALSE
    BY <1>4, LimitsAssumption DEF MismatchEndsEngagement
  <2>1. initialized' /\ events' = UpdateEvents(CS, smNew, fr, mismatchCounter', latched)
    BY <1>2, EngagedStep
  <2>2. "controlsMismatch" \in events'
    BY <2>1, <1>4, <1>5, LimitsAssumption, EventsRaised
  <2> QED
    BY <2>2, EngagedStep, EventTable
<1>13. CommFailureDisables'
  BY <1>1, <1>2, CatchAll DEF CommFailureDisables
<1>14. TimerRuns'
  BY <1>2, <1>3, TimerStarts DEF IInv, TypeOK, TimerRuns, StateMachineUpdate
<1> QED
  BY <1>6, <1>7, <1>8, <1>9, <1>10, <1>11, <1>12, <1>13, <1>14 DEF IInv

\* The step of the loop is a step on a carState of the car, or the previous one.
LEMMA StepCases ==
  ASSUME IInv, Step
  PROVE  \E CS \in CarState, smNew \in SubMaster :
           UNCHANGED settings /\ StepOn(CS, smNew) /\ (CS.buttonEnable => ~pcmCruise)
  BY InputsAssumption DEF Step, IInv, TypeOK

LEMMA NextInv == IInv /\ [Next]_vars => IInv'
<1> SUFFICES ASSUME IInv, [Next]_vars PROVE IInv'
  OBVIOUS
<1>1. CASE Step
  BY <1>1, StepCases, StepInv
<1>2. CASE Restart
  BY <1>2, RestartInv
<1>3. CASE UNCHANGED vars
  BY <1>3 DEF vars, settings, IInv, TypeOK, FlagsOK, StartsDisengaged, LatchPersisted, TimerRuns,
     NeverActiveWhileBraking, EnabledOnlyWithCruise, MismatchEndsEngagement, CommFailureDisables
<1> QED
  BY <1>1, <1>2, <1>3 DEF Next

\* IInv, and with it every conjunct, holds in every reachable state.
THEOREM Inductive == Spec => []IInv
  BY InitInv, NextInv, PTL DEF Spec

-----------------------------------------------------------------------------
(* The theorems.                                                           *)

\* Every variable keeps its type and the counters their limits, on any inputs.
THEOREM TypeCorrect == Spec => []TypeOK
<1>1. IInv => TypeOK
  BY DEF IInv
<1> QED
  BY Inductive, <1>1, PTL

\* The brake rule of selfdrived.py and the preEnabled state of state.py together
\* keep control inactive on every carState with the brake pressed.
THEOREM BrakeSafety == Spec => []NeverActiveWhileBraking
<1>1. IInv => NeverActiveWhileBraking
  BY DEF IInv
<1> QED
  BY Inductive, <1>1, PTL

\* On a pcm cruise car engagement never outlives the car's cruise.
THEOREM CruiseSafety == Spec => []EnabledOnlyWithCruise
<1>1. IInv => EnabledOnlyWithCruise
  BY DEF IInv
<1> QED
  BY Inductive, <1>1, PTL

\* openpilot is disengaged before MismatchLimit refused samples, whatever the
\* limit and the number of pandas.
THEOREM MismatchSafety == Spec => []MismatchEndsEngagement
<1>1. IInv => MismatchEndsEngagement
  BY DEF IInv
<1> QED
  BY Inductive, <1>1, PTL

\* The catch-all masks no failing SubMaster check.
THEOREM CommSafety == Spec => []CommFailureDisables
<1>1. IInv => CommFailureDisables
  BY DEF IInv
<1> QED
  BY Inductive, <1>1, PTL

\* An engagement happens on an initialized step whose events ask for no disengagement.
LEMMA EntryIsClear ==
  ASSUME IInv, [Next]_vars, ~enabled, enabled'
  PROVE  /\ initialized' /\ ~Contains(events', "NO_ENTRY")
         /\ \A et \in {"USER_DISABLE", "IMMEDIATE_DISABLE", "SOFT_DISABLE"} : ~Contains(events', et)
<1>1. Step
  BY DEF Next, vars, Restart
<1>2. PICK CS \in CarState, smNew \in SubMaster :
        StepOn(CS, smNew) /\ (CS.buttonEnable => ~pcmCruise)
  BY <1>1, StepCases
<1>3. state = "disabled"
  BY DEF IInv, TypeOK, FlagsOK, States, ENABLED_STATES, ACTIVE_STATES
<1>4. Contains(events', "ENABLE") /\ ~Contains(events', "NO_ENTRY") /\ initialized'
  BY <1>2, <1>3, EngagedStep
<1>5. events' \in SUBSET EventName
  BY NextInv DEF IInv, TypeOK
<1>6. "pcmDisable" \notin events'
  BY <1>2, <1>4, <1>5, EnableEvents, EnableSource DEF StepOn
<1> QED
  BY <1>4, <1>5, <1>6, DisablingRefusesEntry

\* No engagement on a step whose events also ask for a disengagement.
THEOREM EntrySafety == Spec => EngagesOnlyWhenClear
  BY Inductive, EntryIsClear, PTL DEF Spec, EngagesOnlyWhenClear

\* The latch is in the param, bars entry, and survives every restart that finds the param.
THEOREM LatchSafety == Spec => ExcessiveActuationBarsEntry
<1>1. ASSUME IInv, [Next]_vars
      PROVE  /\ excessiveActuation' => excessiveParam'
             /\ excessiveActuation /\ ~excessiveActuation' => excessiveParam /\ ~excessiveParam'
  <2>1. LatchPersisted /\ LatchPersisted'
    BY <1>1, NextInv DEF IInv
  <2>2. CASE Step
    BY <2>1, <2>2 DEF Step, StepOn, Latched, LatchPersisted
  <2>3. CASE Restart
    BY <2>1, <2>3 DEF Restart, LatchPersisted
  <2>4. CASE UNCHANGED vars
    BY <2>1, <2>4 DEF vars, LatchPersisted
  <2> QED
    BY <1>1, <2>2, <2>3, <2>4 DEF Next
<1>2. ASSUME IInv, [Next]_vars, excessiveActuation', ~enabled, enabled' PROVE FALSE
  <2>1. Step
    BY <1>2 DEF Next, vars, Restart
  <2>2. PICK CS \in CarState, smNew \in SubMaster :
          StepOn(CS, smNew) /\ (CS.buttonEnable => ~pcmCruise)
    BY <1>2, <2>1, StepCases
  <2>3. state = "disabled"
    BY <1>2 DEF IInv, TypeOK, FlagsOK, States, ENABLED_STATES, ACTIVE_STATES
  <2>4. ~Contains(events', "NO_ENTRY") /\ initialized'
    BY <1>2, <2>2, <2>3, EngagedStep
  <2>5. "excessiveActuation" \in events'
    BY <1>2, <2>2, <2>4, EventsRaised DEF StepOn
  <2> QED
    BY <2>4, <2>5, EventTable
<1> QED
  BY Inductive, <1>1, <1>2, PTL DEF Spec, ExcessiveActuationBarsEntry

-----------------------------------------------------------------------------
(* Selfdrived keeps the promises of Engagement.                            *)

\* One call of the state machine in an engaged state: it keeps control on, counts the steps
\* left to a soft disable, and disengages only when told to or when none is left.
LEMMA EngagedMachine ==
  ASSUME NEW s \in States \ {"disabled"}, NEW timer \in 0..SoftDisableSteps, NEW evs,
         s = "softDisabling" => timer > 0,
         NEW t, t = NextState(s, timer, evs),
         NEW left, left = (IF s = "softDisabling" THEN timer ELSE SoftDisableSteps + 1),
         NEW leftNext, leftNext = (IF t = "softDisabling" THEN NextTimer(s, timer, evs)
                                   ELSE SoftDisableSteps + 1)
  PROVE  /\ t \in ENABLED_STATES =>
              /\ ~Contains(evs, "USER_DISABLE") /\ ~Contains(evs, "IMMEDIATE_DISABLE")
              /\ s \in ACTIVE_STATES => t \in ACTIVE_STATES
              /\ leftNext = (IF s \in ACTIVE_STATES /\ Contains(evs, "SOFT_DISABLE")
                             THEN left - 1 ELSE SoftDisableSteps + 1)
              /\ leftNext > 0
         /\ t \notin ENABLED_STATES =>
              /\ leftNext = SoftDisableSteps + 1
              /\ \/ Contains(evs, "USER_DISABLE") \/ Contains(evs, "IMMEDIATE_DISABLE")
                 \/ s \in ACTIVE_STATES /\ Contains(evs, "SOFT_DISABLE") /\ left = 1
<1>1. CASE s = "softDisabling"
  BY <1>1, LimitsAssumption
     DEF NextState, NextTimer, FromEngaged, States, ENABLED_STATES, ACTIVE_STATES, Ticked
<1>2. CASE s # "softDisabling"
  BY <1>2, LimitsAssumption
     DEF NextState, NextTimer, FromEngaged, States, ENABLED_STATES, ACTIVE_STATES, Ticked
<1> QED BY <1>1, <1>2

\* A step of the loop is one of the steps of Engagement.
LEMMA StepShown == ASSUME IInv, Step PROVE Shown!ENext
<1>1. PICK CS \in CarState, smNew \in SubMaster : StepOn(CS, smNew)
  BY StepCases
<1>2. IInv'
  BY NextInv DEF Next
<1>3. initialized => initialized'
  BY <1>1 DEF StepOn, Initializes
<1>4. initialized' => state' = NextState(state, softDisableTimer, events')
                      /\ softDisableTimer' = NextTimer(state, softDisableTimer, events')
  BY <1>1 DEF StepOn, StateMachineUpdate
<1>5. /\ enabled \in BOOLEAN /\ active \in BOOLEAN /\ initialized \in BOOLEAN
      /\ enabled' \in BOOLEAN /\ active' \in BOOLEAN /\ initialized' \in BOOLEAN
      /\ state \in States /\ state' \in States /\ softDisableTimer \in 0..SoftDisableSteps
      /\ state = "softDisabling" => softDisableTimer > 0
  BY <1>2 DEF IInv, TypeOK, TimerRuns
<1>6. /\ (enabled <=> state \in ENABLED_STATES) /\ (active <=> state \in ACTIVE_STATES)
      /\ (enabled' <=> state' \in ENABLED_STATES) /\ (active' <=> state' \in ACTIVE_STATES)
  BY <1>2 DEF IInv, FlagsOK
<1>7. /\ ~enabled => state = "disabled" /\ ~active
      /\ ~enabled' => state' = "disabled" /\ ~active'
  BY <1>5, <1>6 DEF States, ENABLED_STATES, ACTIVE_STATES
<1>8. CASE ~enabled /\ ~enabled'
  <2>1. Shown!StandBy
    BY <1>3, <1>7, <1>8 DEF Shown!StandBy, Shown!Off, Shown!Asks, Shown!Stops
  <2> QED BY <2>1 DEF Shown!ENext
<1>9. CASE ~enabled /\ enabled'
  <2>1. /\ initialized' /\ ~Contains(events', "NO_ENTRY")
        /\ \A et \in {"USER_DISABLE", "IMMEDIATE_DISABLE", "SOFT_DISABLE"} : ~Contains(events', et)
    BY <1>9, EntryIsClear DEF Next
  <2>2. state' # "softDisabling"
    BY <1>4, <1>7, <1>9, <2>1 DEF NextState, FromDisabled
  <2>3. Shown!Engage
    BY <1>5, <1>9, <2>1, <2>2 DEF Shown!Engage
  <2> QED BY <2>3 DEF Shown!ENext
<1>10. CASE enabled
  <2> DEFINE left == IF state = "softDisabling" THEN softDisableTimer ELSE SoftDisableSteps + 1
  <2>1. initialized /\ initialized' /\ state # "disabled"
    BY <1>3, <1>5, <1>6, <1>10 DEF IInv, StartsDisengaged, ENABLED_STATES, ACTIVE_STATES
  <2>2. /\ enabled' =>
             /\ ~Contains(events', "USER_DISABLE") /\ ~Contains(events', "IMMEDIATE_DISABLE")
             /\ active => active'
             /\ left' = (IF active /\ Contains(events', "SOFT_DISABLE") THEN left - 1
                         ELSE SoftDisableSteps + 1)
             /\ left' > 0
        /\ ~enabled' =>
             /\ left' = SoftDisableSteps + 1
             /\ \/ Contains(events', "USER_DISABLE") \/ Contains(events', "IMMEDIATE_DISABLE")
                \/ active /\ Contains(events', "SOFT_DISABLE") /\ left = 1
    BY <1>4, <1>5, <1>6, <2>1, EngagedMachine
  <2>3. CASE enabled'
    <3>1. Shown!Hold
      BY <1>5, <1>10, <2>1, <2>2, <2>3 DEF Shown!Hold, Shown!Asks, Shown!Stops
    <3> QED BY <3>1 DEF Shown!ENext
  <2>4. CASE ~enabled'
    <3>1. Shown!LetGo
      BY <1>5, <1>7, <1>10, <2>1, <2>2, <2>4 DEF Shown!LetGo, Shown!Off, Shown!Asks, Shown!Stops
    <3> QED BY <3>1 DEF Shown!ENext
  <2> QED BY <1>5, <2>3, <2>4
<1> QED BY <1>5, <1>8, <1>9, <1>10

LEMMA NextShown ==
  ASSUME IInv, [Next]_vars
  PROVE  [Shown!ENext]_<<initialized, enabled, active,
           {et \in {"USER_DISABLE", "IMMEDIATE_DISABLE", "SOFT_DISABLE", "NO_ENTRY"} : Contains(events, et)},
           IF state = "softDisabling" THEN softDisableTimer ELSE SoftDisableSteps + 1>>
<1>1. CASE Step BY <1>1, StepShown
<1>2. CASE Restart
  <2>1. Shown!StartOver
    BY <1>2 DEF Restart, Shown!StartOver, Shown!EInit, Shown!Off, Contains
  <2> QED BY <2>1 DEF Shown!ENext
<1>3. CASE UNCHANGED vars BY <1>3 DEF vars
<1> QED BY <1>1, <1>2, <1>3 DEF Next

\* The loop implements Engagement, for any inputs and limits: it never engages with a reason
\* against it, never lets go without one, and a soft disabling reason that lasts ends control
\* in SoftDisableSteps + 1 steps, whichever state it met.
THEOREM EngagementRefined == Spec => ImplementsEngagement
<1>1. Init => Shown!EInit
  BY DEF Init, Shown!EInit, Shown!Off, Contains
<1> QED
  BY <1>1, Inductive, NextShown, PTL DEF Spec, ImplementsEngagement, Shown!ESpec

=============================================================================
