----------------------------- MODULE CruiseSpeed -----------------------------
(***************************************************************************)
(* The set speed of a car whose cruise buttons openpilot handles: card     *)
(* keeps it (VCruiseHelper, selfdrive/car/cruise.py), selfdrived engages   *)
(* on card's carState, controlsd passes that on in carControl, which card  *)
(* reads in a later frame.  Card may be a frame ahead of the other two.    *)
(*                                                                         *)
(* Abstractions: speeds are whole units of the display, a frame carries at *)
(* most one button event, and every reason to disengage or to refuse entry *)
(* other than the main switch and resumeBlocked is a choice of selfdrived. *)
(* The car interface, which is not in the tree, raises buttonEnable on the *)
(* press or on the release of a button.  carControl stays alive, and       *)
(* no plugin hooks car.cruise_initialized.                                 *)
(*                                                                         *)
(* Two assumptions about the driver: the main switch, once off, stays off  *)
(* until all three have seen that, and (SwitchedAlone) no cruise button is *)
(* held meanwhile, since card then looks at no button: the timer of one    *)
(* that is released goes on running.                                       *)
(*                                                                         *)
(* Names that other components have too carry a prefix, since Drive_proofs *)
(* extends several of them.                                                *)
(***************************************************************************)
EXTENDS Integers, Sequences

CONSTANTS
  V_CRUISE_MIN, V_CRUISE_MAX, V_CRUISE_UNSET,
  Initials,       \* V_CRUISE_INITIAL, with and without experimental mode
  LongStep,       \* the interval of a long press, 5
  LongPress,      \* CRUISE_LONG_PRESS, in frames
  Speeds,         \* vEgo, in display units
  EnableEdges,    \* the edges that may raise buttonEnable: TRUE the press, FALSE the release
  MaxLag,         \* frames that card may be ahead
  SwitchedAlone   \* no cruise button is held while the main switch is off

ASSUME SpeedsAssumption ==
  /\ {V_CRUISE_MIN, V_CRUISE_MAX, V_CRUISE_UNSET, LongStep, LongPress, MaxLag} \subseteq Nat
  /\ 0 < V_CRUISE_MIN /\ V_CRUISE_MIN < V_CRUISE_MAX /\ V_CRUISE_MAX < V_CRUISE_UNSET
  /\ Initials \subseteq V_CRUISE_MIN..V_CRUISE_MAX /\ Speeds \subseteq Nat
  /\ 0 < LongStep /\ 1 < LongPress /\ EnableEdges \subseteq BOOLEAN

VARIABLES
  enableEdge,   \* when the car interface raises buttonEnable
  held,         \* the buttons the driver holds
  available,    \* cruiseState.available of the last frame
  v,            \* v_cruise_kph
  timers,       \* button_timers
  changed,      \* button_change_states
  CSPrev,       \* what card uses of CS_prev
  CCPrev,       \* CC_prev.enabled
  carStates,    \* carState messages selfdrived has not read
  enabled,      \* selfdriveState.enabled
  carControl,   \* carControl.enabled
  lastSet,      \* history: the set speed when openpilot was last engaged, if still known
  resuming,     \* history: selfdrived engaged on a resume button
  late          \* history: and card did not see it in its next frame

card == <<v, timers, changed, CSPrev, CCPrev, lastSet>>
driverVars == <<held, available>>
cruiseVars == <<enableEdge, driverVars, card, carStates, enabled, carControl, resuming, late>>

\* Definitions whose name ends in Bug are mutated forms of the next definition.

TimedButtons == {"accelCruise", "decelCruise"}
Buttons == TimedButtons \cup {"resumeCruise"}
NoEvent == [type |-> "none", pressed |-> FALSE]
Events == {NoEvent} \cup [type : Buttons, pressed : BOOLEAN]
Timed(event) == event.type \in TimedButtons
CarStates == [event : Events, available : BOOLEAN, standstill : BOOLEAN, gas : BOOLEAN, vEgo : Speeds]

Larger(a, b) == IF a > b THEN a ELSE b
Clip(x, low) == IF x < low THEN low ELSE IF x > V_CRUISE_MAX THEN V_CRUISE_MAX ELSE x

-----------------------------------------------------------------------------
(* VCruiseHelper._update_v_cruise_non_pcm.                                 *)

Released(CS) == Timed(CS.event) /\ ~CS.event.pressed
Repeating == {b \in TimedButtons : timers[b] > 0 /\ timers[b] % LongPress = 0}

\* The button that acts in this frame: one released after a short press, or one held
\* for another LongPress frames, accel looked at last.
Acting(CS) ==
  IF Released(CS) THEN (IF timers[CS.event.type] > LongPress THEN {} ELSE {CS.event.type})
  ELSE IF "decelCruise" \in Repeating THEN {"decelCruise"} ELSE Repeating

AdjustsBug(b, CS) == ~(b = "accelCruise" /\ (changed[b].standstill \/ CS.standstill))
\* Not to leave standstill, and not if openpilot engaged since the button was pressed.
Adjusts(b, CS) ==
  /\ ~(b = "accelCruise" /\ (changed[b].standstill \/ CS.standstill))
  /\ changed[b].enabled

Interval(b, long) ==
  IF long /\ v % LongStep # 0
  THEN IF b = "accelCruise" THEN (v \div LongStep + 1) * LongStep ELSE (v \div LongStep) * LongStep
  ELSE v + (IF long THEN LongStep ELSE 1) * (IF b = "accelCruise" THEN 1 ELSE -1)

\* Set while overriding takes the speed of the car as the least.
Adjusted(b, CS) ==
  LET next == Interval(b, ~Released(CS))
  IN  Clip(IF CS.gas /\ b = "decelCruise" THEN Larger(next, CS.vEgo) ELSE next, V_CRUISE_MIN)

NonPcm(CS) ==
  IF carControl /\ \E b \in Acting(CS) : Adjusts(b, CS)
  THEN Adjusted(CHOOSE b \in Acting(CS) : TRUE, CS) ELSE v

\* update_v_cruise: without the main switch nothing is set, and no button looked at.
Update(CS) == IF CS.available THEN NonPcm(CS) ELSE V_CRUISE_UNSET

\* update_button_timers.  Above LongPress only the remainder is told apart.
Aged(t) == IF t = 0 THEN 0 ELSE IF t = 2 * LongPress THEN LongPress + 1 ELSE t + 1
UpdateTimers(CS) ==
  IF CS.available
  THEN /\ timers' = [b \in TimedButtons |-> IF b = CS.event.type
                       THEN (IF CS.event.pressed THEN 1 ELSE 0) ELSE Aged(timers[b])]
       /\ changed' = [b \in TimedButtons |-> IF b = CS.event.type
                       THEN [standstill |-> CS.standstill, enabled |-> carControl] ELSE changed[b]]
  ELSE UNCHANGED <<timers, changed>>

\* initialize_v_cruise, on the speed after and the speed before update_v_cruise.
Resumes(CS) == CS.event.type \in {"accelCruise", "resumeCruise"}
InitializeBug(updated, last, initial) ==  \* v_cruise_kph in place of v_cruise_kph_last
  IF Resumes(CSPrev) /\ updated # V_CRUISE_UNSET THEN updated ELSE Clip(CSPrev.vEgo, initial)
Initialize(updated, last, initial) ==
  IF Resumes(CSPrev) /\ updated # V_CRUISE_UNSET THEN last ELSE Clip(CSPrev.vEgo, initial)

-----------------------------------------------------------------------------
(* card.                                                                   *)

SetSpeed(CS) ==
  IF carControl /\ ~CCPrev
  THEN \E initial \in Initials : v' = Initialize(Update(CS), v, initial)
  ELSE v' = Update(CS)

\* The buttons a driver can press and release.
Press(event) ==
  IF ~Timed(event) THEN UNCHANGED held
  ELSE IF event.pressed THEN event.type \notin held /\ held' = held \cup {event.type}
  ELSE event.type \in held /\ held' = held \ {event.type}

\* Frames of card that carControl does not answer yet.
Behind == Len(carStates) + (IF carControl # enabled THEN 1 ELSE 0)

\* The main switch, once off, stays off until all have seen that.
MainSwitch(CS) ==
  /\ available' = CS.available
  /\ CS.available /\ ~available => Behind = 0 /\ ~carControl /\ ~CCPrev
  /\ SwitchedAlone /\ ~CS.available => held = {} /\ ~Timed(CS.event)

CardFrame(CS) ==
  /\ Behind <= MaxLag /\ MainSwitch(CS) /\ Press(CS.event)
  /\ SetSpeed(CS) /\ UpdateTimers(CS)
  /\ CSPrev' = [event |-> CS.event, vEgo |-> CS.vEgo] /\ CCPrev' = carControl
  /\ lastSet' = IF ~CS.available THEN V_CRUISE_UNSET ELSE IF carControl THEN v' ELSE lastSet
  /\ carStates' = Append(carStates, [event |-> CS.event, available |-> CS.available,
                                      unset |-> v' = V_CRUISE_UNSET])
  /\ late' = (enabled /\ ~carControl)
  /\ UNCHANGED <<enableEdge, enabled, carControl, resuming>>

-----------------------------------------------------------------------------
(* selfdrived and controlsd.                                               *)

ButtonEnable(CS) == CS.event # NoEvent /\ CS.event.pressed = enableEdge

Engageable(m) ==
  m.available /\ ButtonEnable(m) /\ ~(m.unset /\ Resumes(m))

\* Engaged for one more step: neither the main switch nor anything else disengages.
Selfdrived ==
  /\ carStates # <<>> /\ carControl = enabled
  /\ carStates' = <<>>
  /\ LET CS == carStates[Len(carStates)]
     IN  /\ \/ enabled' = FALSE
            \/ enabled /\ CS.available /\ enabled' = TRUE
            \/ ~enabled /\ Engageable(CS) /\ enabled' = TRUE
         /\ resuming' = IF enabled THEN resuming ELSE Resumes(CS)
  /\ late' = (late /\ enabled)
  /\ UNCHANGED <<enableEdge, driverVars, card, carControl>>

Controlsd ==
  /\ carControl # enabled /\ carControl' = enabled
  /\ UNCHANGED <<enableEdge, driverVars, card, carStates, enabled, resuming, late>>

CruiseInit ==
  /\ enableEdge \in EnableEdges /\ held = {} /\ available = FALSE
  /\ v = V_CRUISE_UNSET /\ timers = [b \in TimedButtons |-> 0]
  /\ changed = [b \in TimedButtons |-> [standstill |-> FALSE, enabled |-> FALSE]]
  /\ CSPrev \in [event : {NoEvent}, vEgo : Speeds]
  /\ CCPrev = FALSE /\ carStates = <<>> /\ enabled = FALSE /\ carControl = FALSE
  /\ lastSet = V_CRUISE_UNSET /\ resuming = FALSE /\ late = FALSE

CruiseNext == (\E CS \in CarStates : CardFrame(CS)) \/ Selfdrived \/ Controlsd

CruiseSpec == CruiseInit /\ [][CruiseNext]_cruiseVars

-----------------------------------------------------------------------------
(* Properties.                                                             *)

\* Types and bounds of the variables.
SetSpeeds == V_CRUISE_MIN..V_CRUISE_MAX
CruiseTypeOK ==
  /\ enableEdge \in BOOLEAN /\ held \subseteq TimedButtons /\ available \in BOOLEAN
  /\ {v, lastSet} \subseteq SetSpeeds \cup {V_CRUISE_UNSET}
  /\ timers \in [TimedButtons -> 0..(2 * LongPress)]
  /\ changed \in [TimedButtons -> [standstill : BOOLEAN, enabled : BOOLEAN]]
  /\ CSPrev \in [event : Events, vEgo : Speeds] /\ {CCPrev, enabled, carControl} \subseteq BOOLEAN
  /\ resuming \in BOOLEAN /\ late \in BOOLEAN
  /\ carStates \in Seq([event : Events, available : BOOLEAN, unset : BOOLEAN])
  /\ Len(carStates) <= MaxLag + 1

\* openpilot never controls to V_CRUISE_UNSET, 255 km/h: from the frame in which card sees
\* that it is engaged, with the main switch on, the set speed is a real one, however late
\* carControl came and whichever buttons were pressed, if SwitchedAlone: none is held while
\* the main switch is off.
EngagedSpeedIsSet == CCPrev /\ available => v # V_CRUISE_UNSET

\* Unless the main switch was off since, an engagement by resume brings back the set speed
\* of the last engagement, and one by set takes the speed of the car, whatever was pressed in
\* between: if card sees it in the frame after the one selfdrived engaged on, whose buttons
\* it then looks at.  If late it looks at another frame's, and the speed is either of the two
\* (card.py:191, "Use CarState w/ buttons from the step selfdrived enables on").
OwnSpeeds == {Clip(CSPrev.vEgo, initial) : initial \in Initials}
ResumeRestores ==
  [][~CCPrev /\ CCPrev' /\ available' /\ lastSet # V_CRUISE_UNSET
     => v' \in IF late THEN OwnSpeeds \cup {lastSet}
               ELSE IF resuming THEN {lastSet} ELSE OwnSpeeds]_cruiseVars
=============================================================================
