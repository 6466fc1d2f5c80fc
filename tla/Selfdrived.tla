------------------------------ MODULE Selfdrived ------------------------------
(***************************************************************************)
(* selfdrive/selfdrived: the 100 Hz loop that decides whether openpilot is *)
(* engaged.  One Step is one call of SelfdriveD.step: it samples carState  *)
(* and the SubMaster, computes the events, runs the engagement state       *)
(* machine on them and publishes the result.  Restart is the process being *)
(* stopped and started again by the manager, which keeps only the params.  *)
(*                                                                         *)
(* Abstractions: an event is kept when its set of event types differs from *)
(* those already kept or when a rule of the loop depends on it; the car is *)
(* one of the brands that go through create_common_events with pcm_enable  *)
(* equal to CP.pcmCruise; replay, simulation and dashcam mode are left out.*)
(***************************************************************************)
EXTENDS Naturals, FiniteSets

CONSTANTS
  Pandas,                 \* the connected pandas
  Configured,             \* those that have an entry in CP.safetyConfigs
  CarStates,              \* the carState messages the car may send
  SubMasters,             \* what the SubMaster may hold at a step
  SoftDisableSteps,       \* int(SOFT_DISABLE_TIME / DT_CTRL), 300
  MismatchLimit,          \* mismatch_counter threshold, 200
  CruiseMismatchLimit,    \* int(6. / DT_CTRL), 600
  InitTimeout,            \* 6. / DT_CTRL, 600
  SafetyGrace             \* 10. / DT_CTRL, 1000

SafetyModel == {"car", "elm327", "noOutput", "silent"}
IGNORED_SAFETY_MODES == {"silent", "noOutput"}

PandaState == [safetyModel : SafetyModel, controlsAllowed : BOOLEAN,
               safetyRxChecksInvalid : BOOLEAN]

CarState == [canValid : BOOLEAN, cruiseEnabled : BOOLEAN, buttonEnable : BOOLEAN,
             cancel : BOOLEAN, brakePressed : BOOLEAN, standstill : BOOLEAN,
             gasPressed : BOOLEAN, doorOpen : BOOLEAN]

SubMaster == [pandaStates : [Pandas -> PandaState], allChecks : BOOLEAN,
              notRunning : BOOLEAN, excessive : BOOLEAN]

\* Definitions whose name ends in Bug are mutated forms of the next definition,
\* used only to show that a property can fail; the specification never uses them.

ASSUME InputsAssumption ==
  /\ Configured \subseteq Pandas
  /\ CarStates \subseteq CarState
  /\ SubMasters \subseteq SubMaster

ASSUME LimitsAssumption ==
  /\ SoftDisableSteps \in Nat \ {0} /\ MismatchLimit \in Nat \ {0}
  /\ CruiseMismatchLimit \in Nat /\ InitTimeout \in Nat /\ SafetyGrace \in Nat

VARIABLES
  pcmCruise,                        \* CP.pcmCruise
  disengageOnAccelerator,           \* the DisengageOnAccelerator param
  initialized, enabled, active,
  state, softDisableTimer,          \* self.state_machine
  mismatchCounter, cruiseMismatchCounter,
  excessiveActuation,               \* the latch
  excessiveParam,                   \* Offroad_ExcessiveActuation is set
  CSPrev,                           \* self.CS_prev
  sm,                               \* self.sm as of the last step
  events,                           \* self.events as of the last step
  frame                             \* self.sm.frame, saturating at FrameBound

settings == <<pcmCruise, disengageOnAccelerator>>
vars == <<settings, initialized, enabled, active, state, softDisableTimer, mismatchCounter,
          cruiseMismatchCounter, excessiveActuation, excessiveParam, CSPrev, sm,
          events, frame>>

-----------------------------------------------------------------------------
(* The event types of each event (EVENTS in events.py).                    *)

EventTypes ==
  [selfdriveInitializing |-> {"NO_ENTRY"},
   pcmEnable             |-> {"ENABLE"},
   buttonEnable          |-> {"ENABLE"},
   pcmDisable            |-> {"USER_DISABLE"},
   buttonCancel          |-> {"USER_DISABLE", "NO_ENTRY"},
   pedalPressed          |-> {"USER_DISABLE", "NO_ENTRY"},
   preEnableStandstill   |-> {"PRE_ENABLE"},
   gasPressedOverride    |-> {"OVERRIDE_LONGITUDINAL"},
   doorOpen              |-> {"SOFT_DISABLE", "NO_ENTRY"},
   excessiveActuation    |-> {"SOFT_DISABLE", "NO_ENTRY"},
   processNotRunning     |-> {"SOFT_DISABLE", "NO_ENTRY"},
   commIssue             |-> {"SOFT_DISABLE", "NO_ENTRY"},
   controlsMismatch      |-> {"IMMEDIATE_DISABLE", "NO_ENTRY"},
   canError              |-> {"IMMEDIATE_DISABLE", "PERMANENT", "NO_ENTRY"},
   cruiseMismatch        |-> {"PERMANENT"}]

EventName == DOMAIN EventTypes
Contains(evs, et) == \E e \in evs : et \in EventTypes[e]

-----------------------------------------------------------------------------
(* StateMachine.update (state.py).                                         *)

States == {"disabled", "preEnabled", "enabled", "softDisabling", "overriding"}
ACTIVE_STATES == {"enabled", "softDisabling", "overriding"}
ENABLED_STATES == {"preEnabled"} \cup ACTIVE_STATES

Ticked(timer) == IF timer > 0 THEN timer - 1 ELSE 0

FromDisabledBug(evs) ==  \* NO_ENTRY looked at after PRE_ENABLE
  IF ~Contains(evs, "ENABLE") THEN "disabled"
  ELSE IF Contains(evs, "PRE_ENABLE") THEN "preEnabled"
  ELSE IF Contains(evs, "NO_ENTRY") THEN "disabled" ELSE "enabled"

FromDisabled(evs) ==
  IF ~Contains(evs, "ENABLE") \/ Contains(evs, "NO_ENTRY") THEN "disabled"
  ELSE IF Contains(evs, "PRE_ENABLE") THEN "preEnabled"
  ELSE IF Contains(evs, "OVERRIDE_LONGITUDINAL") THEN "overriding"
  ELSE "enabled"

PreEnableFirstBug(s, timer, evs) ==  \* the disables looked at after PRE_ENABLE
  IF s = "preEnabled" /\ Contains(evs, "PRE_ENABLE") THEN "preEnabled"
  ELSE IF Contains(evs, "USER_DISABLE") \/ Contains(evs, "IMMEDIATE_DISABLE") THEN "disabled"
  ELSE "enabled"

FromEngaged(s, timer, evs) ==
  IF Contains(evs, "USER_DISABLE") \/ Contains(evs, "IMMEDIATE_DISABLE") THEN "disabled"
  ELSE IF s = "preEnabled" THEN (IF Contains(evs, "PRE_ENABLE") THEN "preEnabled" ELSE "enabled")
  ELSE IF Contains(evs, "SOFT_DISABLE")
       THEN (IF s = "softDisabling" /\ Ticked(timer) = 0 THEN "disabled" ELSE "softDisabling")
  ELSE IF s # "softDisabling" /\ Contains(evs, "OVERRIDE_LONGITUDINAL") THEN "overriding"
  ELSE "enabled"

NextState(s, timer, evs) ==
  IF s = "disabled" THEN FromDisabled(evs) ELSE FromEngaged(s, timer, evs)

NextTimerBug(s, timer, evs) ==  \* armed again on every soft disabling step
  IF NextState(s, timer, evs) = "softDisabling" THEN SoftDisableSteps ELSE Ticked(timer)

\* The timer is armed on entry to softDisabling and counts down otherwise.
NextTimer(s, timer, evs) ==
  IF s \in {"enabled", "overriding"} /\ NextState(s, timer, evs) = "softDisabling"
  THEN SoftDisableSteps ELSE Ticked(timer)

StateMachineUpdate(evs) ==
  /\ state' = NextState(state, softDisableTimer, evs)
  /\ softDisableTimer' = NextTimer(state, softDisableTimer, evs)
  /\ enabled' = (state' \in ENABLED_STATES)
  /\ active' = (state' \in ACTIVE_STATES)

-----------------------------------------------------------------------------
(* data_sample: the panda mismatch count and initialization.               *)

FrameBound == 1 + (IF InitTimeout > SafetyGrace THEN InitTimeout ELSE SafetyGrace)

PandaDisagrees(pss) ==
  \E p \in Pandas : /\ pss[p].safetyModel \notin IGNORED_SAFETY_MODES
                    /\ ~pss[p].controlsAllowed

CountMismatch(pss) ==
  IF ~enabled THEN 0
  ELSE IF PandaDisagrees(pss) THEN mismatchCounter + 1 ELSE mismatchCounter

Initializes(CS, smNew, fr) ==
  initialized \/ (CS.canValid /\ smNew.allChecks) \/ fr > InitTimeout

-----------------------------------------------------------------------------
(* update_events.                                                          *)

TooManyMismatches(mismatches) == mismatches >= MismatchLimit

SafetyMismatch(p, ps) ==
  IF p \in Configured THEN ps.safetyModel # "car"
  ELSE ps.safetyModel \notin IGNORED_SAFETY_MODES

Named(condition, name) == IF condition THEN {name} ELSE {}

\* CarSpecificEvents.create_common_events.
CarEvents(CS) ==
  Named(CS.doorOpen, "doorOpen")
  \cup Named(CS.brakePressed /\ CS.standstill, "preEnableStandstill")
  \cup Named(CS.gasPressed, "gasPressedOverride")
  \cup Named(CS.buttonEnable, "buttonEnable")
  \cup Named(CS.cancel, "buttonCancel")
  \cup Named(pcmCruise /\ CS.cruiseEnabled /\ ~CSPrev.cruiseEnabled, "pcmEnable")
  \cup Named(pcmCruise /\ ~CS.cruiseEnabled, "pcmDisable")

PedalPressedBug(CS) ==  \* the brake on its rising edge only
  \/ CS.gasPressed /\ ~CSPrev.gasPressed /\ disengageOnAccelerator
  \/ CS.brakePressed /\ ~CSPrev.brakePressed

PedalPressed(CS) ==
  \/ CS.gasPressed /\ ~CSPrev.gasPressed /\ disengageOnAccelerator
  \/ CS.brakePressed /\ (~CSPrev.brakePressed \/ ~CS.standstill)

\* Everything added before the system checks.
DriverEvents(CS, pss, fr, mismatches, excessive) ==
  (IF CS.canValid THEN CarEvents(CS) \cup Named(PedalPressed(CS), "pedalPressed") ELSE {})
  \cup Named(excessive, "excessiveActuation")
  \cup Named(\E p \in Pandas : \/ SafetyMismatch(p, pss[p]) /\ fr > SafetyGrace
                               \/ pss[p].safetyRxChecksInvalid
                               \/ TooManyMismatches(mismatches), "controlsMismatch")

SystemEvents(CS, smNew) ==
  Named(smNew.notRunning, "processNotRunning") \cup Named(~CS.canValid, "canError")

HasDisableEvents(evs) ==
  /\ Contains(evs, "NO_ENTRY")
  /\ Contains(evs, "SOFT_DISABLE") \/ Contains(evs, "IMMEDIATE_DISABLE")

NoSystemErrorsBug(before, system) == ~Contains(before \cup system, "NO_ENTRY")
NoSystemErrors(before, system) == ~HasDisableEvents(before \cup system) \/ system = {}

\* The catch-all: commIssue when nothing more specific explains the failure.
WithCommIssue(before, system, smNew) ==
  before \cup system \cup Named(~smNew.allChecks /\ NoSystemErrors(before, system), "commIssue")

CountCruiseMismatch(CS) ==
  IF CS.cruiseEnabled /\ (~enabled \/ ~pcmCruise)
  THEN IF cruiseMismatchCounter > CruiseMismatchLimit  \* saturates above the limit
       THEN cruiseMismatchCounter ELSE cruiseMismatchCounter + 1
  ELSE 0

UpdateEvents(CS, smNew, fr, mismatches, excessive) ==
  WithCommIssue(DriverEvents(CS, smNew.pandaStates, fr, mismatches, excessive),
                SystemEvents(CS, smNew), smNew)
  \cup Named(CountCruiseMismatch(CS) > CruiseMismatchLimit, "cruiseMismatch")

-----------------------------------------------------------------------------
NoCar == [canValid |-> FALSE, cruiseEnabled |-> FALSE, buttonEnable |-> FALSE,
          cancel |-> FALSE, brakePressed |-> FALSE, standstill |-> FALSE,
          gasPressed |-> FALSE, doorOpen |-> FALSE]

NoMessages == [pandaStates |-> [p \in Pandas |-> [safetyModel |-> "silent",
                                 controlsAllowed |-> FALSE, safetyRxChecksInvalid |-> FALSE]],
               allChecks |-> FALSE, notRunning |-> FALSE, excessive |-> FALSE]

Init ==
  /\ pcmCruise \in BOOLEAN /\ disengageOnAccelerator \in BOOLEAN
  /\ initialized = FALSE /\ enabled = FALSE /\ active = FALSE
  /\ state = "disabled" /\ softDisableTimer = 0
  /\ mismatchCounter = 0 /\ cruiseMismatchCounter = 0
  /\ excessiveParam \in BOOLEAN /\ excessiveActuation = excessiveParam
  /\ CSPrev = NoCar /\ sm = NoMessages /\ events = {} /\ frame = 0

LatchedBug(ready, smNew) == ready /\ smNew.excessive
Latched(ready, smNew) == excessiveActuation \/ (ready /\ smNew.excessive)

PersistedBug(ready, smNew) == excessiveParam  \* the param never written
\* The param is written when the latch is first set.
Persisted(ready, smNew) ==
  excessiveParam \/ (~excessiveActuation /\ ready /\ smNew.excessive)

\* One turn of the loop on the carState CS and the SubMaster contents smNew.
StepOn(CS, smNew) ==
  LET fr == IF frame < FrameBound THEN frame + 1 ELSE frame
      ready == Initializes(CS, smNew, fr)
      latched == Latched(ready, smNew)
  IN  /\ frame' = fr /\ sm' = smNew /\ CSPrev' = CS
      /\ initialized' = ready
      /\ mismatchCounter' = CountMismatch(smNew.pandaStates)
      /\ excessiveActuation' = latched
      /\ excessiveParam' = Persisted(ready, smNew)
      /\ IF ready
         THEN /\ events' = UpdateEvents(CS, smNew, fr, mismatchCounter', latched)
              /\ cruiseMismatchCounter' = CountCruiseMismatch(CS)
              /\ StateMachineUpdate(events')
         ELSE /\ events' = {"selfdriveInitializing"}
              /\ UNCHANGED <<cruiseMismatchCounter, state, softDisableTimer, enabled, active>>

\* A carState arrived, or recv_one timed out and the previous one is used again.  A car
\* only reports an enable button when openpilot handles the buttons.
Step ==
  /\ \E CS \in CarStates \cup {CSPrev}, smNew \in SubMasters :
       (CS.buttonEnable => ~pcmCruise) /\ StepOn(CS, smNew)
  /\ UNCHANGED settings

\* The process ends; __init__ runs again on what the params still hold.  The
\* user may have dismissed the excessive actuation alert and changed the settings.
Restart ==
  /\ pcmCruise' \in BOOLEAN /\ disengageOnAccelerator' \in BOOLEAN
  /\ initialized' = FALSE /\ enabled' = FALSE /\ active' = FALSE
  /\ state' = "disabled" /\ softDisableTimer' = 0
  /\ mismatchCounter' = 0 /\ cruiseMismatchCounter' = 0
  /\ excessiveParam' \in {excessiveParam, FALSE} /\ excessiveActuation' = excessiveParam'
  /\ CSPrev' = NoCar /\ sm' = NoMessages /\ events' = {} /\ frame' = 0

Next == Step \/ Restart

Spec == Init /\ [][Next]_vars
FairSpec == Spec /\ WF_vars(Step)

-----------------------------------------------------------------------------
(* Properties.                                                             *)

\* Every variable keeps its type; both counters stay within their limits.
TypeOK ==
  /\ pcmCruise \in BOOLEAN /\ disengageOnAccelerator \in BOOLEAN
  /\ initialized \in BOOLEAN /\ enabled \in BOOLEAN /\ active \in BOOLEAN
  /\ state \in States /\ softDisableTimer \in 0..SoftDisableSteps
  /\ mismatchCounter \in 0..MismatchLimit
  /\ cruiseMismatchCounter \in 0..(CruiseMismatchLimit + 1)
  /\ excessiveActuation \in BOOLEAN /\ excessiveParam \in BOOLEAN
  /\ CSPrev \in CarState /\ sm \in SubMaster
  /\ events \subseteq EventName /\ frame \in 0..FrameBound

\* Control is never active on a carState that shows the brake pressed: the rising
\* edge rule needs CS_prev, and a brake held from before engagement must park
\* the state machine in preEnabled (selfdrived.py pedalPressed, state.py).
NeverActiveWhileBraking == active => ~CSPrev.brakePressed

\* On a pcm cruise car openpilot is engaged only while the car's own cruise is,
\* although pcmDisable carries no NO_ENTRY and is not computed when CAN is invalid.
EnabledOnlyWithCruise == enabled /\ pcmCruise => CSPrev.cruiseEnabled

\* openpilot never stays engaged on MismatchLimit samples in which some panda
\* refused control (data_sample and the controlsMismatch event).
MismatchEndsEngagement == enabled => mismatchCounter < MismatchLimit

\* A failing SubMaster check is never masked: whatever else is on the list, the
\* events of an initialized step then refuse entry and disable (the catch-all).
CommFailureDisables ==
  initialized /\ ~sm.allChecks =>
    /\ Contains(events, "NO_ENTRY")
    /\ Contains(events, "SOFT_DISABLE") \/ Contains(events, "IMMEDIATE_DISABLE")

\* openpilot never engages on a step whose events also ask for a disengagement of
\* any kind, although state.py looks only at NO_ENTRY when it is disabled.
EngagesOnlyWhenClear ==
  [][~enabled /\ enabled' =>
       \A et \in {"USER_DISABLE", "IMMEDIATE_DISABLE", "SOFT_DISABLE"} :
         ~Contains(events', et)]_vars

\* The excessive actuation latch bars every engagement and outlives the process: it is in the
\* param, which __init__ reads, as long as it is set, and only a restart that no longer finds
\* it there, since the user has dismissed the alert, forgets it.
ExcessiveActuationBarsEntry ==
  [][/\ excessiveActuation' => excessiveParam'
     /\ excessiveActuation /\ ~excessiveActuation' => excessiveParam /\ ~excessiveParam'
     /\ excessiveActuation' /\ ~enabled => ~enabled']_vars

\* A soft disable condition or an excessive actuation latch that stays ends control for
\* good: preEnabled, which ignores the condition, is no way around it, and neither are
\* overriding, the timer or restarts of the process on the persisted latch.
LastingReasonsEndControl ==
  <>[](excessiveActuation \/ Contains(events, "SOFT_DISABLE")) => <>[](~active)

\* What Engagement shows of the loop: the flags, what the events ask for, and the steps a
\* soft disabling reason has left, of which the timer counts all but the first.
Shown == INSTANCE Engagement WITH
  Grace <- SoftDisableSteps + 1,
  ready <- initialized,
  asks <- {et \in {"USER_DISABLE", "IMMEDIATE_DISABLE", "SOFT_DISABLE", "NO_ENTRY"} :
             Contains(events, et)},
  left <- IF state = "softDisabling" THEN softDisableTimer ELSE SoftDisableSteps + 1

\* The loop keeps the promises of Engagement: it engages only when clear of every reason to
\* leave, never lets go without a reason, and ends control in time when a soft disabling
\* condition lasts, also if that began in preEnabled, where state.py does not look at it.
ImplementsEngagement == Shown!ESpec

=============================================================================
