-------------------------- MODULE DriverMonitoring --------------------------
(***************************************************************************)
(* selfdrive/monitoring: how long the driver has not been attentive, and   *)
(* what is said and refused because of it.  Awareness falls while the      *)
(* driver looks away; it is timed by the camera (active mode) or, without  *)
(* a usable face, by the wheel (passive mode), each with an awareness and  *)
(* thresholds of its own.  Too many red alerts lock openpilot out until    *)
(* the next ignition.                                                      *)
(*                                                                         *)
(* dmonitoringd and selfdrived know each other from messages only.         *)
(* dmonitoringd decides on the last selfdriveState it received, however    *)
(* old; selfdrived on the last driverMonitoringState, and the one bound on *)
(* lag is that its loop (100 Hz) reads a packet before the next (20 Hz).   *)
(*                                                                         *)
(* Awareness is counted in units of the passive step, and the filter of    *)
(* the distraction in units of 1 / FilterUnit, rounded down.  What the     *)
(* camera makes of the driver (pose, eyes, phone, their calibration, which *)
(* side the wheel is on) is an input.                                      *)
(***************************************************************************)
EXTENDS Integers

CONSTANTS
  Full,            \* awareness 1.0
  ActiveStep,      \* the step of active mode, in passive steps
  PRE, PROMPT,     \* active thresholds
  PASSIVE_PRE, PASSIVE_PROMPT,
  FilterGain,      \* 1 / alpha of the first order filter: 6
  FilterUnit,      \* its value 1.0
  AttentiveBelow, DistractedAbove,  \* 0.37 and 0.63
  HiStdFallback,   \* _HI_STD_FALLBACK_TIME
  MaxTerminalAlerts, MaxTerminalDuration

ASSUME AwarenessAssumption ==
  /\ {Full, ActiveStep, HiStdFallback, MaxTerminalAlerts, MaxTerminalDuration} \subseteq Nat \ {0}
  /\ {PRE, PROMPT, PASSIVE_PRE, PASSIVE_PROMPT} \subseteq Nat
  /\ {FilterGain, FilterUnit} \subseteq Nat \ {0} /\ {AttentiveBelow, DistractedAbove} \subseteq Nat
  /\ PROMPT < PRE /\ PRE < Full /\ PASSIVE_PROMPT < PASSIVE_PRE /\ PASSIVE_PRE < Full

VARIABLES
  awareness, awarenessActive, awarenessPassive,
  activeMode,       \* active_monitoring_mode
  stepChange,
  driver,           \* the last camera frame
  filter,           \* driver_distraction_filter
  hiStds,
  terminalAlertCnt, terminalTime,
  tooDistracted,
  events,           \* current_events
  alwaysOn,
  valid,            \* the last packet is valid
  param,            \* DriverTooDistracted
  engaged,          \* enabled of selfdrived
  heard,            \* enabled of the last selfdriveState dmonitoringd received
  toRead,           \* selfdrived has not read the last packet
  entry             \* the packet selfdrived read lets it engage

awarenessVars == <<awareness, awarenessActive, awarenessPassive, activeMode, stepChange>>
cameraVars == <<driver, filter, hiStds>>
lockoutVars == <<terminalAlertCnt, terminalTime, tooDistracted, param>>
packetVars == <<events, valid>>
linkVars == <<engaged, heard, entry>>
vars == <<awarenessVars, cameraVars, lockoutVars, packetVars, linkVars, toRead, alwaysOn>>

\* Definitions whose name ends in Bug are mutated forms of the next definition.

\* No face; a face whose pose is uncertain; an attentive and a distracted face.
Drivers == {"away", "uncertain", "attentive", "distracted"}
FaceDetected(d) == d # "away"
LowStd(d) == d # "uncertain"
Cars == {"moving", "slow", "standstill"}
\* Nothing of the driver is read from an incomplete packet.
Inputs == {in \in [driver : Drivers, complete : BOOLEAN, driverEngaged : BOOLEAN,
                   car : Cars, wrongGear : BOOLEAN] : in.complete \/ in.driver = "away"}

AtMost(a, b) == IF a < b THEN a ELSE b
AtLeast(a, b) == IF a > b THEN a ELSE b
\* Bounds of two counters: nothing is told apart above them.
HiStdBound == HiStdFallback + 1
AlertBound == MaxTerminalAlerts + 2

-----------------------------------------------------------------------------
(* _set_timers, on the awareness values w = [now, active, passive, mode,   *)
(* step].                                                                  *)

Timers == [now |-> awareness, active |-> awarenessActive, passive |-> awarenessPassive,
           mode |-> activeMode, step |-> stepChange]
Reset(w) == [w EXCEPT !.now = Full, !.active = Full, !.passive = Full]
Prompt(mode) == IF mode THEN PROMPT ELSE PASSIVE_PROMPT
Pre(mode) == IF mode THEN PRE ELSE PASSIVE_PRE

ToActiveBug(w) ==
  [w EXCEPT !.now = IF w.mode THEN @ ELSE w.active, !.mode = TRUE, !.step = ActiveStep]
\* Each mode keeps its own awareness while the other is on.
ToActive(w) ==
  [w EXCEPT !.passive = IF w.mode THEN @ ELSE w.now,
            !.now = IF w.mode THEN @ ELSE w.active,
            !.mode = TRUE, !.step = ActiveStep]
ToPassive(w) ==
  [w EXCEPT !.active = IF w.mode THEN w.now ELSE @,
            !.now = IF w.mode THEN w.passive ELSE @,
            !.mode = FALSE, !.step = 1]

\* After the orange alert of active mode the camera cannot be dodged, and after a red
\* one no mode changes.
SetTimers(w, active) ==
  IF w.mode /\ w.now <= PROMPT THEN [w EXCEPT !.step = IF active THEN ActiveStep ELSE 0]
  ELSE IF w.now <= 0 THEN w
  ELSE IF active THEN ToActive(w) ELSE ToPassive(w)

\* _update_states: an incomplete packet of the model leaves everything as it was.
\* One distracted frame leaves a low filter low.
UpdateFilter(d) ==
  ((FilterGain - 1) * filter + (IF d = "distracted" THEN FilterUnit ELSE 0)) \div FilterGain
UpdateHiStds(d) ==
  IF ~FaceDetected(d) THEN hiStds ELSE IF LowStd(d) THEN 0 ELSE AtMost(hiStds + 1, HiStdBound)
UpdateStates(in) ==
  IF in.complete
  THEN SetTimers(Timers, FaceDetected(in.driver) /\ hiStds <= HiStdFallback)
  ELSE Timers

-----------------------------------------------------------------------------
(* _update_events, on w after _update_states, with the camera variables    *)
(* of this frame.                                                          *)

LockoutBug == terminalAlertCnt > MaxTerminalAlerts \/ terminalTime >= MaxTerminalDuration
Lockout == terminalAlertCnt >= MaxTerminalAlerts \/ terminalTime >= MaxTerminalDuration

AlwaysOnValid(in) == alwaysOn /\ ~in.wrongGear

ResetsAtOnceBug(w, in) ==
  \/ in.driverEngaged /\ ~w.mode
  \/ ~AlwaysOnValid(in) /\ ~heard
  \/ AlwaysOnValid(in) /\ ~heard /\ w.now <= 0
\* A touch of the wheel in passive mode; a disengagement, on red only when always on.
ResetsAtOnce(w, in) ==
  \/ in.driverEngaged /\ w.now > 0 /\ ~w.mode
  \/ ~AlwaysOnValid(in) /\ ~heard
  \/ AlwaysOnValid(in) /\ ~heard /\ w.now <= 0

Attentive(d, f) == f < AttentiveBelow /\ FaceDetected(d) /\ LowStd(d)
PaysAttention(w, d, f) == Attentive(d, f) /\ w.now > 0

\* _RECOVERY_FACTOR_MAX 5 at no awareness, _RECOVERY_FACTOR_MIN at full awareness.
Recovery(a) == 1 + (4 * (Full - a)) \div Full
Recover(w) ==
  LET now == AtMost(w.now + Recovery(w.now) * w.step, Full)
  IN  [w EXCEPT !.now = now,
                !.passive = IF now = Full THEN AtMost(@ + w.step, Full) ELSE @]

NoticedBug(d, f, h) == (f > DistractedAbove /\ d = "distracted") \/ h > HiStdFallback
\* certainly_distracted or maybe_distracted.
Noticed(d, f, h) ==
  \/ (f > DistractedAbove /\ d = "distracted")
  \/ h > HiStdFallback \/ ~FaceDetected(d)

\* At a standstill, or slow and not engaged, awareness stops short of the orange alert;
\* not engaged it stops short of the red one.
Exempt(w, in) ==
  \/ in.car = "standstill" /\ w.now - w.step <= Prompt(w.mode)
  \/ AlwaysOnValid(in) /\ ~heard /\ w.now - w.step <= 0
  \/ AlwaysOnValid(in) /\ ~heard /\ in.car # "moving" /\ w.now - w.step <= Prompt(w.mode)

Count(w, in, d, f, h) ==
  IF Noticed(d, f, h) /\ ~Exempt(w, in)
  THEN [w EXCEPT !.now = AtLeast(w.now - w.step, -1)] ELSE w

Alert(w, in) ==
  IF w.now <= 0 THEN {IF w.mode THEN "driverDistracted" ELSE "driverUnresponsive"}
  ELSE IF w.now <= Prompt(w.mode)
  THEN {IF w.mode THEN "promptDriverDistracted" ELSE "promptDriverUnresponsive"}
  ELSE IF w.now <= Pre(w.mode) /\ ~(AlwaysOnValid(in) /\ ~heard /\ in.car # "moving")
  THEN {IF w.mode THEN "preDriverDistracted" ELSE "preDriverUnresponsive"}
  ELSE {}

Publish(w) ==
  /\ awareness' = w.now /\ awarenessActive' = w.active /\ awarenessPassive' = w.passive
  /\ activeMode' = w.mode /\ stepChange' = w.step

Quiet(w, tooMuch) ==
  /\ Publish(w) /\ events' = tooMuch
  /\ UNCHANGED <<terminalAlertCnt, terminalTime>>

\* A red alert counts once, and for as long as it lasts.
Counted(w, before, in, tooMuch) ==
  /\ Publish(w) /\ events' = tooMuch \cup Alert(w, in)
  /\ terminalAlertCnt' =
       IF w.now <= 0 /\ before > 0 THEN AtMost(terminalAlertCnt + 1, AlertBound)
       ELSE terminalAlertCnt
  /\ terminalTime' =
       IF w.now <= 0 THEN AtMost(terminalTime + 1, MaxTerminalDuration) ELSE terminalTime

UpdateEvents(w, in, d, f, h) ==
  LET tooMuch == IF tooDistracted' \/ (alwaysOn /\ w.now <= Prompt(w.mode))
                 THEN {"tooDistracted"} ELSE {}
      r == IF PaysAttention(w, d, f) THEN Recover(w) ELSE w
  IN  IF ResetsAtOnce(w, in) \/ (PaysAttention(w, d, f) /\ in.driverEngaged)
      THEN Quiet(Reset(w), tooMuch)
      ELSE IF PaysAttention(w, d, f) /\ r.now > Prompt(r.mode)
      THEN Quiet(r, tooMuch)
      ELSE Counted(Count(r, in, d, f, h), w.now, in, tooMuch)

SetLockoutBug ==
  /\ tooDistracted' = (tooDistracted \/ Lockout)
  /\ UNCHANGED param
\* The param is for the next run of dmonitoringd; ~Params waits for its write.
SetLockout ==
  /\ tooDistracted' = (tooDistracted \/ Lockout)
  /\ param' = (param \/ (Lockout /\ ~tooDistracted))

\* run_step on a frame whose messages are all good.
Frame(in) ==
  /\ ~toRead
  /\ valid' = TRUE /\ toRead' = TRUE /\ UNCHANGED <<alwaysOn, linkVars>>
  /\ driver' = IF in.complete THEN in.driver ELSE driver
  /\ filter' = IF in.complete THEN UpdateFilter(in.driver) ELSE filter
  /\ hiStds' = IF in.complete THEN UpdateHiStds(in.driver) ELSE hiStds
  /\ SetLockout
  /\ UpdateEvents(UpdateStates(in), in, driver', filter', hiStds')

\* The packet of a frame whose checks failed repeats the state, as invalid.
InvalidFrame ==
  /\ ~toRead
  /\ valid' = FALSE /\ toRead' = TRUE
  /\ UNCHANGED <<awarenessVars, cameraVars, lockoutVars, events, alwaysOn, linkVars>>

\* AlwaysOnDM is read again every two seconds.
ToggleAlwaysOn ==
  /\ alwaysOn' = ~alwaysOn
  /\ UNCHANGED <<awarenessVars, cameraVars, lockoutVars, packetVars, linkVars, toRead>>

\* selfdriveState reaches dmonitoringd.
HearState ==
  /\ heard' = engaged
  /\ UNCHANGED <<awarenessVars, cameraVars, lockoutVars, packetVars, alwaysOn, engaged, toRead, entry>>

-----------------------------------------------------------------------------
(* selfdrived: tooDistracted and an invalid packet refuse entry; nothing   *)
(* here ends an engagement.                                                *)

ReadPacket ==
  /\ toRead /\ toRead' = FALSE
  /\ entry' = (valid /\ "tooDistracted" \notin events)
  /\ UNCHANGED <<awarenessVars, cameraVars, lockoutVars, packetVars, alwaysOn, engaged, heard>>

Engage ==
  /\ ~engaged /\ entry
  /\ engaged' = TRUE
  /\ UNCHANGED <<awarenessVars, cameraVars, lockoutVars, packetVars, alwaysOn, heard, toRead, entry>>

Disengage ==
  /\ engaged
  /\ engaged' = FALSE
  /\ UNCHANGED <<awarenessVars, cameraVars, lockoutVars, packetVars, alwaysOn, heard, toRead, entry>>

-----------------------------------------------------------------------------
(* The constructor, at the start of every drive.                           *)

Fresh ==
  /\ awareness' = Full /\ awarenessActive' = Full /\ awarenessPassive' = Full
  /\ activeMode' = TRUE /\ stepChange' = ActiveStep
  /\ driver' = "away" /\ filter' = 0 /\ hiStds' = 0
  /\ terminalAlertCnt' = 0 /\ terminalTime' = 0 /\ tooDistracted' = param'
  /\ events' = {} /\ valid' = FALSE /\ toRead' = FALSE
  /\ engaged' = FALSE /\ heard' = FALSE /\ entry' = FALSE
  /\ UNCHANGED alwaysOn

\* The next drive without a new ignition (an onroad cycle, a hot device).
Restart == param' = param /\ Fresh
\* CLEAR_ON_IGNITION_ON; the driver camera view of the mici, offroad, does the same.
Ignition == param' = FALSE /\ Fresh

Init ==
  /\ awareness = Full /\ awarenessActive = Full /\ awarenessPassive = Full
  /\ activeMode = TRUE /\ stepChange = ActiveStep
  /\ driver = "away" /\ filter = 0 /\ hiStds = 0
  /\ terminalAlertCnt = 0 /\ terminalTime = 0 /\ tooDistracted = FALSE /\ param = FALSE
  /\ events = {} /\ valid = FALSE /\ toRead = FALSE
  /\ engaged = FALSE /\ heard = FALSE /\ entry = FALSE
  /\ alwaysOn \in BOOLEAN

NextFrame == \E in \in Inputs : Frame(in)
Next ==
  \/ NextFrame \/ InvalidFrame \/ ToggleAlwaysOn \/ HearState
  \/ ReadPacket \/ Engage \/ Disengage
  \/ Restart \/ Ignition

Spec == Init /\ [][Next]_vars
\* What tells a Frame, whatever its input, from every other step.
FrameSent == ~toRead /\ toRead' = TRUE /\ valid' = TRUE
\* The model of the driver camera keeps producing frames at 20 Hz, and messages arrive.
FairSpec == Spec /\ WF_toRead(FrameSent) /\ WF_vars(HearState) /\ WF_vars(ReadPacket)

-----------------------------------------------------------------------------
(* Properties.                                                             *)

EventNames == {"tooDistracted", "preDriverDistracted", "promptDriverDistracted",
  "driverDistracted", "preDriverUnresponsive", "promptDriverUnresponsive", "driverUnresponsive"}
TypeOK ==
  /\ awareness \in -1..Full /\ awarenessActive \in 0..Full /\ awarenessPassive \in 0..Full
  /\ activeMode \in BOOLEAN /\ stepChange \in {0, 1, ActiveStep}
  /\ driver \in Drivers /\ filter \in 0..FilterUnit /\ hiStds \in 0..HiStdBound
  /\ terminalAlertCnt \in 0..AlertBound /\ terminalTime \in 0..MaxTerminalDuration
  /\ tooDistracted \in BOOLEAN /\ param \in BOOLEAN /\ events \subseteq EventNames
  /\ alwaysOn \in BOOLEAN /\ valid \in BOOLEAN /\ toRead \in BOOLEAN
  /\ engaged \in BOOLEAN /\ heard \in BOOLEAN /\ entry \in BOOLEAN

\* A drive has at most one red alert more than _MAX_TERMINAL_ALERTS ("not allowed to engage
\* after 3 terminal alerts").  The lockout is decided in the frame after the last one; whoever
\* disengages and engages again before selfdrived has read that frame's packet has one more
\* engagement, and in it one more red alert, however late selfdriveState arrives.
TerminalAlertsBounded == terminalAlertCnt <= MaxTerminalAlerts + 1

\* Only a disengagement that dmonitoringd heard of clears a red alert: no face, no touch of
\* the wheel and no change of mode does (test_last_second_responder, test_biggest_comma_fan).
RedUntilDisengaged ==
  [][heard /\ heard' /\ awareness <= 0 => awareness' <= 0]_vars

\* Awareness rises only in a frame with a usable face and a low filter: without a touch of
\* the wheel no order of dodging the camera, of uncertain poses and of glances gives any back,
\* and watching the road in one mode gives none of the other, but passive awareness once the
\* active one is full (_set_timers, "no exploit after orange alert").
ActiveAwareness == IF activeMode THEN awareness ELSE awarenessActive
PassiveAwareness == IF activeMode THEN awarenessPassive ELSE awareness
Untouched == {in \in Inputs : ~in.driverEngaged /\ ~in.wrongGear}
EarnedBack ==
  /\ ActiveAwareness' > ActiveAwareness => Attentive(driver, filter)' /\ activeMode'
  /\ PassiveAwareness' > PassiveAwareness
     => Attentive(driver, filter)' /\ (activeMode' => ActiveAwareness' = Full)
NothingGivenBack ==
  [][heard /\ ~EarnedBack => ~\E in \in Untouched : Frame(in)]_vars

\* Once selfdrived is off and knows of the lockout, openpilot is not engaged before an
\* ignition has cleared the param, whatever restarts in between (DriverTooDistracted): what
\* dmonitoringd forgets at a restart the param knows.
LockedOutUntilIgnition ==
  [][tooDistracted /\ ~engaged /\ ~entry /\ ~(param /\ ~param')
     => tooDistracted' /\ ~engaged' /\ ~entry']_vars

\* A driver of a moving, engaged car who from now on looks away or dodges the camera, in
\* whatever order, and touches nothing, is in the end told so for good: unless he shows his
\* face so rarely that one distracted frame on a low filter passes for attention.
Inattentive ==
  {in \in Inputs : in.driver \in {"away", "distracted"} /\ in.complete
                   /\ ~in.driverEngaged /\ in.car = "moving" /\ ~in.wrongGear}
Urged == events \cap {"promptDriverDistracted", "promptDriverUnresponsive",
                      "driverDistracted", "driverUnresponsive"} # {}
NotAttending ==
  \/ HearState \/ ReadPacket
  \/ ~Attentive(driver, filter)' /\ \E in \in Inattentive : Frame(in)
InattentiveIsUrged ==
  <>[](engaged) /\ <>[][NotAttending]_vars => <>[]Urged

=============================================================================
