----------------------------- MODULE Drive_proofs -----------------------------
(***************************************************************************)
(* Three components of a drive that share no state: driver monitoring      *)
(* (the red alerts and the lockout, for any thresholds, steps and limits), *)
(* hardware_thread (when a drive starts and ends and the device powers     *)
(* down, for any temperatures and periods) and the set speed (for any      *)
(* speeds, intervals and lag).  Each has an inductive invariant of its     *)
(* own: IInv, HardwareInv and CruiseInv.                                   *)
(***************************************************************************)
EXTENDS DriverMonitoring, Hardwared, CruiseSpeed, TLAPS

\* The awareness kept for the mode that is off is never red.
KeptOK == awarenessActive > 0 /\ awarenessPassive > 0

\* The lockout is in the param, every valid packet says so, and selfdrived knows it once it
\* has read what there is to read.
LockoutOK ==
  /\ tooDistracted => param
  /\ tooDistracted /\ valid => "tooDistracted" \in events
  /\ tooDistracted /\ entry => toRead

\* At the limit awareness comes back only with the lockout, and one above it openpilot is
\* refused and no disengagement that is heard of can be followed by an engagement.
LimitOK ==
  /\ TerminalAlertsBounded
  /\ terminalAlertCnt = MaxTerminalAlerts /\ awareness > 0 => tooDistracted
  /\ terminalAlertCnt = MaxTerminalAlerts + 1
     => /\ tooDistracted /\ ~entry
        /\ ~heard => ~engaged
        /\ awareness > 0 => ~heard

IInv == TypeOK /\ KeptOK /\ LockoutOK /\ LimitOK
-----------------------------------------------------------------------------
(* The operators on the timers.                                            *)

TimersType == [now : -1..Full, active : 1..Full, passive : 1..Full, mode : BOOLEAN,
               step : {0, 1, ActiveStep}]

LEMMA Bounds ==
  /\ Full \in Nat \ {0} /\ ActiveStep \in Nat \ {0} /\ HiStdFallback \in Nat \ {0}
  /\ MaxTerminalAlerts \in Nat \ {0} /\ MaxTerminalDuration \in Nat \ {0}
  /\ PRE \in Nat /\ PROMPT \in Nat /\ PASSIVE_PRE \in Nat /\ PASSIVE_PROMPT \in Nat
  /\ FilterGain \in Nat \ {0} /\ FilterUnit \in Nat \ {0}
BY AwarenessAssumption

\* The provers take records one field at a time.
LEMMA OneField ==
  ASSUME NEW w \in TimersType, NEW n \in -1..Full, NEW k \in 1..Full, NEW m \in BOOLEAN,
         NEW s \in {0, 1, ActiveStep}
  PROVE  /\ [w EXCEPT !.now = n] \in TimersType /\ [w EXCEPT !.active = k] \in TimersType
         /\ [w EXCEPT !.passive = k] \in TimersType /\ [w EXCEPT !.mode = m] \in TimersType
         /\ [w EXCEPT !.step = s] \in TimersType
BY DEF TimersType

LEMMA NowPassive ==
  ASSUME NEW w \in TimersType, NEW n \in -1..Full, NEW p \in 1..Full
  PROVE  [w EXCEPT !.now = n, !.passive = p] \in TimersType
<1> DEFINE w1 == [w EXCEPT !.now = n]
           w2 == [w1 EXCEPT !.passive = p]
<1>1. w1 \in TimersType
  BY OneField
<1>2. w2 \in TimersType
  <2> HIDE DEF w1
  <2> QED
    BY <1>1, OneField
<1> QED
  BY <1>2

LEMMA NowActivePassive ==
  ASSUME NEW w \in TimersType, NEW n \in -1..Full, NEW a \in 1..Full, NEW p \in 1..Full
  PROVE  [w EXCEPT !.now = n, !.active = a, !.passive = p] \in TimersType
<1> DEFINE w1 == [w EXCEPT !.now = n]
           w2 == [w1 EXCEPT !.active = a]
           w3 == [w2 EXCEPT !.passive = p]
<1>1. w1 \in TimersType
  BY OneField
<1>2. w2 \in TimersType
  <2> HIDE DEF w1
  <2> QED
    BY <1>1, OneField
<1>3. w3 \in TimersType
  <2> HIDE DEF w2
  <2> QED
    BY <1>2, OneField
<1> QED
  BY <1>3

LEMMA PassiveNowModeStep ==
  ASSUME NEW w \in TimersType, NEW p \in 1..Full, NEW n \in -1..Full,
         NEW m \in BOOLEAN, NEW s \in {0, 1, ActiveStep}
  PROVE  [w EXCEPT !.passive = p, !.now = n, !.mode = m, !.step = s] \in TimersType
<1> DEFINE w1 == [w EXCEPT !.passive = p]
           w2 == [w1 EXCEPT !.now = n]
           w3 == [w2 EXCEPT !.mode = m]
           w4 == [w3 EXCEPT !.step = s]
<1>1. w1 \in TimersType
  BY OneField
<1>2. w2 \in TimersType
  <2> HIDE DEF w1
  <2> QED
    BY <1>1, OneField
<1>3. w3 \in TimersType
  <2> HIDE DEF w2
  <2> QED
    BY <1>2, OneField
<1>4. w4 \in TimersType
  <2> HIDE DEF w3
  <2> QED
    BY <1>3, OneField
<1> QED
  BY <1>4

LEMMA ActiveNowModeStep ==
  ASSUME NEW w \in TimersType, NEW a \in 1..Full, NEW n \in -1..Full,
         NEW m \in BOOLEAN, NEW s \in {0, 1, ActiveStep}
  PROVE  [w EXCEPT !.active = a, !.now = n, !.mode = m, !.step = s] \in TimersType
<1> DEFINE w1 == [w EXCEPT !.active = a]
           w2 == [w1 EXCEPT !.now = n]
           w3 == [w2 EXCEPT !.mode = m]
           w4 == [w3 EXCEPT !.step = s]
<1>1. w1 \in TimersType
  BY OneField
<1>2. w2 \in TimersType
  <2> HIDE DEF w1
  <2> QED
    BY <1>1, OneField
<1>3. w3 \in TimersType
  <2> HIDE DEF w2
  <2> QED
    BY <1>2, OneField
<1>4. w4 \in TimersType
  <2> HIDE DEF w3
  <2> QED
    BY <1>3, OneField
<1> QED
  BY <1>4

LEMMA TimersTypes == IInv => Timers \in TimersType
BY Bounds DEF IInv, TypeOK, KeptOK, Timers, TimersType

\* A red alert stays red, whatever the camera sees.
LEMMA StatesTypes ==
  ASSUME IInv, NEW in \in Inputs
  PROVE  /\ UpdateStates(in) \in TimersType
         /\ awareness <= 0 => UpdateStates(in).now <= 0
<1>1. Timers \in TimersType /\ Timers.now = awareness
  BY TimersTypes DEF Timers
<1>2. ASSUME NEW a \in BOOLEAN
      PROVE  /\ SetTimers(Timers, a) \in TimersType
             /\ Timers.now <= 0 => SetTimers(Timers, a).now <= 0
  <2> DEFINE w == Timers
  <2>1. w \in TimersType
    BY <1>1
  <2> HIDE DEF w
  <2>2. CASE w.mode /\ w.now <= PROMPT
    <3> DEFINE s == IF a THEN ActiveStep ELSE 0
    <3>1. SetTimers(w, a) = [w EXCEPT !.step = s] /\ s \in {0, 1, ActiveStep}
      BY <2>2 DEF SetTimers
    <3>2. [w EXCEPT !.step = s] \in TimersType /\ [w EXCEPT !.step = s].now = w.now
      <4> HIDE DEF s
      <4> QED
        BY <2>1, <3>1, OneField DEF TimersType
    <3> QED
      BY <3>1, <3>2 DEF w
  <2>3. CASE ~(w.mode /\ w.now <= PROMPT) /\ w.now <= 0
    BY <2>1, <2>3 DEF SetTimers, w
  <2>4. CASE ~(w.mode /\ w.now <= PROMPT) /\ ~(w.now <= 0)
    <3>1. w.now \in 1..Full /\ w.active \in 1..Full /\ w.passive \in 1..Full /\ w.mode \in BOOLEAN
      BY <2>1, <2>4, Bounds DEF TimersType
    <3>2. ToActive(w) \in TimersType
      <4> DEFINE p == IF w.mode THEN w.passive ELSE w.now
                 n == IF w.mode THEN w.now ELSE w.active
      <4>1. p \in 1..Full /\ n \in -1..Full
        BY <3>1, Bounds
      <4> DEFINE m == TRUE
                 s == ActiveStep
      <4>2. ToActive(w) = [w EXCEPT !.passive = p, !.now = n, !.mode = m, !.step = s]
        BY DEF ToActive
      <4>3. m \in BOOLEAN /\ s \in {0, 1, ActiveStep}
        OBVIOUS
      <4> HIDE DEF p, n, m, s
      <4>4. [w EXCEPT !.passive = p, !.now = n, !.mode = m, !.step = s] \in TimersType
        BY <2>1, <4>1, <4>3, PassiveNowModeStep, Zenon
      <4> QED
        BY <4>2, <4>4, Zenon
    <3>3. ToPassive(w) \in TimersType
      <4> DEFINE k == IF w.mode THEN w.now ELSE w.active
                 n == IF w.mode THEN w.passive ELSE w.now
      <4>1. k \in 1..Full /\ n \in -1..Full
        BY <3>1, Bounds
      <4> DEFINE m == FALSE
                 s == 1
      <4>2. ToPassive(w) = [w EXCEPT !.active = k, !.now = n, !.mode = m, !.step = s]
        BY DEF ToPassive
      <4>3. m \in BOOLEAN /\ s \in {0, 1, ActiveStep}
        OBVIOUS
      <4> HIDE DEF k, n, m, s
      <4>4. [w EXCEPT !.active = k, !.now = n, !.mode = m, !.step = s] \in TimersType
        BY <2>1, <4>1, <4>3, ActiveNowModeStep, Zenon
      <4> QED
        BY <4>2, <4>4, Zenon
    <3> QED
      BY <2>4, <3>2, <3>3 DEF SetTimers, w
  <2> QED
    BY <2>2, <2>3, <2>4 DEF w
<1> QED
  BY <1>1, <1>2, Bounds DEF UpdateStates

\* Each mode finds its awareness again.
LEMMA StatesKeep ==
  ASSUME IInv, NEW in \in Inputs
  PROVE  LET w == UpdateStates(in)
         IN  /\ (IF w.mode THEN w.now ELSE w.active) = ActiveAwareness
             /\ (IF w.mode THEN w.passive ELSE w.now) = PassiveAwareness
<1>1. activeMode \in BOOLEAN
  BY DEF IInv, TypeOK
<1>2. ASSUME NEW a \in BOOLEAN
      PROVE  LET w == SetTimers(Timers, a)
             IN  /\ (IF w.mode THEN w.now ELSE w.active) = ActiveAwareness
                 /\ (IF w.mode THEN w.passive ELSE w.now) = PassiveAwareness
  <2>1. /\ Timers.now = awareness /\ Timers.active = awarenessActive
        /\ Timers.passive = awarenessPassive /\ Timers.mode = activeMode
    BY DEF Timers
  <2> QED
    BY <1>1, <2>1, TimersTypes
    DEF SetTimers, ToActive, ToPassive, ActiveAwareness, PassiveAwareness, TimersType
<1> QED
  BY <1>1, <1>2 DEF UpdateStates, Timers, ActiveAwareness, PassiveAwareness

LEMMA RecoveryNat == \A a \in 0..Full : Recovery(a) \in Nat
<1> SUFFICES ASSUME NEW a \in 0..Full PROVE Recovery(a) \in Nat
  OBVIOUS
<1> DEFINE n == 4 * (Full - a)
<1>1. n \in Nat
  BY Bounds
<1>2. n \div Full \in Nat
  <2> HIDE DEF n
  <2> QED
    BY <1>1, Bounds
<1> QED
  BY <1>2 DEF Recovery

LEMMA RecoverTypes ==
  ASSUME NEW w \in TimersType, w.now > 0
  PROVE  Recover(w) \in TimersType /\ Recover(w).now > 0
<1> DEFINE gain == Recovery(w.now) * w.step
<1>1. Recovery(w.now) \in Nat
  BY RecoveryNat, Bounds DEF TimersType
<1>2. gain \in Nat
  <2>1. w.step \in Nat
    BY Bounds DEF TimersType
  <2> HIDE DEF Recovery
  <2> QED
    BY <1>1, <2>1
<1>3. AtMost(w.now + gain, Full) \in 1..Full
  <2> HIDE DEF gain
  <2> QED
    BY <1>2, Bounds DEF AtMost, TimersType
<1>4. AtMost(w.passive + w.step, Full) \in 1..Full
  BY Bounds DEF AtMost, TimersType
<1> QED
  <2> DEFINE n == AtMost(w.now + gain, Full)
             p == IF n = Full THEN AtMost(w.passive + w.step, Full) ELSE w.passive
  <2>1. n \in 1..Full /\ n \in -1..Full /\ p \in 1..Full
    BY <1>3, <1>4, Bounds DEF TimersType
  <2>2. Recover(w) = [w EXCEPT !.now = n, !.passive = p]
    BY DEF Recover
  <2> HIDE DEF n, p
  <2>3. [w EXCEPT !.now = n, !.passive = p] \in TimersType
    BY <2>1, NowPassive
  <2>4. [w EXCEPT !.now = n, !.passive = p].now = n
    BY DEF TimersType
  <2> QED
    BY <2>1, <2>2, <2>3, <2>4, Bounds

\* Awareness of a driver who is not engaged stops short of red.
LEMMA CountTypes ==
  ASSUME NEW w \in TimersType, NEW in, NEW d, NEW f, NEW h
  PROVE  /\ Count(w, in, d, f, h) \in TimersType
         /\ w.now <= 0 => Count(w, in, d, f, h).now <= 0
         /\ w.now > 0 /\ AlwaysOnValid(in) /\ ~heard => Count(w, in, d, f, h).now > 0
<1>1. AtLeast(w.now - w.step, -1) \in -1..Full
  BY Bounds DEF AtLeast, TimersType
<1>2. w.now <= 0 => AtLeast(w.now - w.step, -1) <= 0
  BY Bounds DEF AtLeast, TimersType
<1>3. AlwaysOnValid(in) /\ ~heard /\ ~Exempt(w, in) => AtLeast(w.now - w.step, -1) > 0
  BY Bounds DEF AtLeast, TimersType, Exempt
<1> QED
  BY <1>1, <1>2, <1>3, Bounds DEF Count, TimersType

\* A first order filter stays between its inputs.
LEMMA FilterTypes ==
  ASSUME filter \in 0..FilterUnit, NEW d
  PROVE  UpdateFilter(d) \in 0..FilterUnit
<1> DEFINE k == FilterGain - 1
           u == IF d = "distracted" THEN FilterUnit ELSE 0
           n == k * filter + u
<1>1. k \in Nat /\ u \in 0..FilterUnit /\ filter \in Nat /\ FilterUnit \in Nat
  BY Bounds
<1>2. k * filter \in Nat /\ k * filter <= k * FilterUnit /\ k * FilterUnit \in Nat
  <2> HIDE DEF k, u
  <2>1. filter <= FilterUnit
    OBVIOUS
  <2>2. k * FilterUnit = k * filter + k * (FilterUnit - filter) /\ k * (FilterUnit - filter) \in Nat
    BY <1>1, <2>1
  <2> QED
    BY <1>1, <2>1, <2>2
<1>3. FilterGain * FilterUnit = k * FilterUnit + FilterUnit
  BY Bounds
<1>4. n \in Nat /\ n <= FilterGain * FilterUnit
  <2> HIDE DEF k, u
  <2> QED
    BY <1>1, <1>2, <1>3, Bounds
<1>5. n \div FilterGain \in 0..FilterUnit
  <2> HIDE DEF n
  <2> DEFINE q == n \div FilterGain
  <2>1. q \in Nat /\ FilterGain * q <= n
    BY <1>4, Bounds
  <2>2. FilterGain * q <= FilterGain * FilterUnit
    BY <1>4, <2>1, Bounds
  <2>3. q <= FilterUnit
    <3> HIDE DEF q
    <3> SUFFICES ASSUME q > FilterUnit PROVE FALSE
      BY <2>1, Bounds
    <3>1. q - FilterUnit >= 1 /\ q - FilterUnit \in Nat
      BY <2>1, Bounds
    <3>2. FilterGain * q = FilterGain * FilterUnit + FilterGain * (q - FilterUnit)
      BY <2>1, Bounds
    <3>3. FilterGain * (q - FilterUnit) >= 1
      BY <3>1, Bounds
    <3> QED
      BY <2>1, <2>2, <3>2, <3>3, Bounds
  <2> QED
    BY <2>1, <2>3, Bounds
<1> QED
  BY <1>5 DEF UpdateFilter

LEMMA AlertNames == \A w, in : Alert(w, in) \subseteq EventNames
BY DEF Alert, EventNames

-----------------------------------------------------------------------------
(* The steps.                                                              *)

LEMMA InitIInv == Init => IInv
<1> SUFFICES ASSUME Init PROVE IInv
  OBVIOUS
<1>1. TypeOK
  <2>1. awareness \in -1..Full /\ awarenessActive \in 0..Full /\ awarenessPassive \in 0..Full
        /\ hiStds \in 0..HiStdBound /\ terminalAlertCnt \in 0..AlertBound
        /\ terminalTime \in 0..MaxTerminalDuration /\ filter \in 0..FilterUnit
    BY Bounds DEF Init, HiStdBound, AlertBound
  <2> QED
    BY <2>1 DEF Init, TypeOK, Drivers
<1>2. KeptOK /\ LockoutOK /\ LimitOK
  BY Bounds DEF Init, KeptOK, LockoutOK, LimitOK, TerminalAlertsBounded
<1> QED
  BY <1>1, <1>2 DEF IInv

\* What a frame makes of the alerts and the timers.
LEMMA FrameAwareness ==
  ASSUME IInv, NEW in \in Inputs, Frame(in)
  PROVE  /\ awareness' \in -1..Full /\ awarenessActive' \in 1..Full /\ awarenessPassive' \in 1..Full
         /\ activeMode' \in BOOLEAN /\ stepChange' \in {0, 1, ActiveStep}
         /\ events' \subseteq EventNames /\ (tooDistracted' => "tooDistracted" \in events')
         /\ heard /\ awareness <= 0 => awareness' <= 0
         /\ \/ UNCHANGED terminalAlertCnt
            \/ /\ terminalAlertCnt' = AtMost(terminalAlertCnt + 1, AlertBound)
               /\ awareness > 0 /\ heard /\ awareness' <= 0
         /\ terminalTime' \in 0..MaxTerminalDuration
<1> DEFINE w == UpdateStates(in)
           r == IF PaysAttention(w, driver', filter') THEN Recover(w) ELSE w
           c == Count(r, in, driver', filter', hiStds')
           tooMuch == IF tooDistracted' \/ (alwaysOn /\ w.now <= Prompt(w.mode))
                      THEN {"tooDistracted"} ELSE {}
<1>1. w \in TimersType /\ (awareness <= 0 => w.now <= 0)
  BY StatesTypes
<1>2. r \in TimersType /\ (w.now <= 0 => r = w) /\ (w.now > 0 => r.now > 0)
  <2>1. w.now \in -1..Full
    BY <1>1 DEF TimersType
  <2> HIDE DEF w
  <2> QED
    BY <1>1, <2>1, RecoverTypes, Bounds DEF PaysAttention
<1>3. /\ c \in TimersType /\ (r.now <= 0 => c.now <= 0)
      /\ r.now > 0 /\ AlwaysOnValid(in) /\ ~heard => c.now > 0
  <2> HIDE DEF r
  <2> QED
    BY <1>2, CountTypes
<1>4. tooMuch \subseteq EventNames /\ (tooDistracted' => "tooDistracted" \in tooMuch)
  BY DEF EventNames
<1>5. UpdateEvents(w, in, driver', filter', hiStds')
  BY DEF Frame
<1>6. Reset(w) \in TimersType
  <2> DEFINE full == Full
  <2>1. full \in -1..Full /\ full \in 1..Full
    BY Bounds
  <2>2. Reset(w) = [w EXCEPT !.now = full, !.active = full, !.passive = full]
    BY DEF Reset
  <2> HIDE DEF w, full
  <2>3. [w EXCEPT !.now = full, !.active = full, !.passive = full] \in TimersType
    BY <1>1, <2>1, NowActivePassive, Zenon
  <2> QED
    BY <2>2, <2>3, Zenon
<1>7. terminalTime \in 0..MaxTerminalDuration /\ awareness \in -1..Full
  BY DEF IInv, TypeOK
<1>8. CASE Quiet(Reset(w), tooMuch) /\ (ResetsAtOnce(w, in) \/ PaysAttention(w, driver', filter'))
  <2>1. w.now <= 0 => ~heard
    <3> HIDE DEF w
    <3> QED
      BY <1>1, <1>8, Bounds DEF ResetsAtOnce, PaysAttention, TimersType
  <2> HIDE DEF w, tooMuch
  <2> QED
    BY <1>1, <1>4, <1>6, <1>7, <1>8, <2>1 DEF Quiet, Publish, TimersType
<1>9. CASE Quiet(r, tooMuch) /\ PaysAttention(w, driver', filter')
  <2>1. w.now > 0
    BY <1>9 DEF PaysAttention
  <2> HIDE DEF w, r, tooMuch
  <2> QED
    BY <1>1, <1>2, <1>4, <1>7, <1>9, <2>1 DEF Quiet, Publish, TimersType
<1>10. CASE Counted(c, w.now, in, tooMuch) /\ ~ResetsAtOnce(w, in)
  <2>1. heard \/ AlwaysOnValid(in)
    BY <1>10 DEF ResetsAtOnce
  <2>2. Alert(c, in) \subseteq EventNames
    BY AlertNames
  <2>3. c.now <= 0 /\ w.now > 0 => awareness > 0 /\ heard
    <3>1. w.now \in -1..Full /\ r.now \in -1..Full /\ c.now \in -1..Full
      BY <1>1, <1>2, <1>3 DEF TimersType
    <3> HIDE DEF w, r, c
    <3> QED
      BY <1>1, <1>2, <1>3, <1>7, <2>1, <3>1, Bounds
  <2>4. w.now <= 0 => c.now <= 0
    <3> HIDE DEF w, r, c
    <3> QED
      BY <1>2, <1>3
  <2>5. awareness' = c.now /\ awarenessActive' = c.active /\ awarenessPassive' = c.passive
        /\ activeMode' = c.mode /\ stepChange' = c.step
    BY <1>10 DEF Counted, Publish
  <2>6. terminalTime' \in 0..MaxTerminalDuration
    <3>1. terminalTime' \in {AtMost(terminalTime + 1, MaxTerminalDuration), terminalTime}
      BY <1>10 DEF Counted
    <3> QED
      BY <3>1, <1>7, Bounds DEF AtMost
  <2>7. \/ UNCHANGED terminalAlertCnt
        \/ /\ terminalAlertCnt' = AtMost(terminalAlertCnt + 1, AlertBound)
           /\ c.now <= 0 /\ w.now > 0
    BY <1>10 DEF Counted
  <2>8. events' = tooMuch \cup Alert(c, in)
    BY <1>10 DEF Counted
  <2> HIDE DEF w, r, c, tooMuch
  <2> QED
    BY <1>1, <1>3, <1>4, <2>2, <2>3, <2>4, <2>5, <2>6, <2>7, <2>8 DEF TimersType
<1> QED
  <2> HIDE DEF w
  <2> QED
    BY <1>5, <1>8, <1>9, <1>10 DEF UpdateEvents

LEMMA FrameStep ==
  ASSUME IInv, NEW in \in Inputs, Frame(in)
  PROVE  IInv'
<1>1. /\ tooDistracted' = (tooDistracted \/ Lockout)
      /\ param' = (param \/ (Lockout /\ ~tooDistracted))
  BY DEF Frame, SetLockout
<1>2. /\ ~toRead /\ toRead' = TRUE /\ valid' = TRUE
      /\ UNCHANGED <<alwaysOn, engaged, heard, entry>>
  BY DEF Frame, linkVars
<1>3. driver' \in Drivers /\ filter' \in 0..FilterUnit /\ hiStds' \in 0..HiStdBound
  <2>1. filter' \in 0..FilterUnit
    BY FilterTypes DEF Frame, IInv, TypeOK
  <2> QED
    BY <2>1, Bounds DEF Frame, Inputs, UpdateHiStds, AtMost, HiStdBound, IInv, TypeOK
<1>4. terminalAlertCnt' \in 0..AlertBound
  BY FrameAwareness, Bounds DEF AtMost, AlertBound, IInv, TypeOK
<1>5. TypeOK'
  BY <1>1, <1>2, <1>3, <1>4, FrameAwareness, Bounds DEF TypeOK, IInv, Lockout
<1>6. KeptOK' /\ LockoutOK'
  BY <1>1, <1>2, FrameAwareness, Bounds DEF KeptOK, LockoutOK, IInv
<1>7. LimitOK'
  <2>1. terminalAlertCnt = MaxTerminalAlerts => tooDistracted'
    <3>1. terminalAlertCnt = MaxTerminalAlerts => Lockout
      BY Bounds DEF Lockout
    <3> QED
      BY <1>1, <3>1
  <2>2. terminalAlertCnt \in Nat /\ terminalAlertCnt <= MaxTerminalAlerts + 1
        /\ awareness \in -1..Full /\ awareness' \in -1..Full
    BY FrameAwareness DEF IInv, TypeOK, LimitOK, TerminalAlertsBounded
  <2>3. CASE UNCHANGED terminalAlertCnt
    <3>1. heard /\ awareness <= 0 => awareness' <= 0
      BY FrameAwareness
    <3>2. terminalAlertCnt = MaxTerminalAlerts + 1
          => /\ tooDistracted' /\ ~entry'
             /\ ~heard' => ~engaged'
             /\ awareness' > 0 => ~heard'
      <4> SUFFICES ASSUME terminalAlertCnt = MaxTerminalAlerts + 1
                   PROVE  /\ tooDistracted' /\ ~entry'
                          /\ ~heard' => ~engaged'
                          /\ awareness' > 0 => ~heard'
        OBVIOUS
      <4>1. tooDistracted /\ ~entry /\ (~heard => ~engaged) /\ (awareness > 0 => ~heard)
        BY DEF IInv, LimitOK
      <4>2. awareness' > 0 => ~heard
        BY <2>2, <3>1, <4>1, Bounds
      <4> QED
        BY <1>1, <1>2, <4>1, <4>2
    <3> QED
      BY <2>1, <2>2, <2>3, <3>2, Bounds DEF LimitOK, TerminalAlertsBounded
  <2>4. CASE /\ terminalAlertCnt' = AtMost(terminalAlertCnt + 1, AlertBound)
             /\ awareness > 0 /\ heard /\ awareness' <= 0
    <3>1. terminalAlertCnt <= MaxTerminalAlerts
      BY <2>2, <2>4, Bounds DEF IInv, LimitOK
    <3>2. terminalAlertCnt' = terminalAlertCnt + 1
      BY <2>2, <2>4, <3>1, Bounds DEF AtMost, AlertBound
    <3>3. terminalAlertCnt = MaxTerminalAlerts => tooDistracted /\ ~entry
      BY <1>2, <2>4 DEF IInv, LimitOK, LockoutOK
    <3> QED
      <4>1. awareness' <= 0 /\ ~(awareness' > 0) /\ heard'
        BY <1>2, <2>2, <2>4, Bounds
      <4>2. terminalAlertCnt = MaxTerminalAlerts => tooDistracted' /\ ~entry'
        BY <1>1, <1>2, <3>3
      <4>3. terminalAlertCnt' <= MaxTerminalAlerts + 1
            /\ (terminalAlertCnt' = MaxTerminalAlerts + 1 => terminalAlertCnt = MaxTerminalAlerts)
        BY <2>2, <3>1, <3>2, Bounds
      <4> QED
        BY <4>1, <4>2, <4>3 DEF LimitOK, TerminalAlertsBounded
  <2> QED
    BY <2>3, <2>4, FrameAwareness
<1> QED
  BY <1>5, <1>6, <1>7 DEF IInv

LEMMA FreshStep ==
  ASSUME param' \in BOOLEAN, Fresh, alwaysOn \in BOOLEAN
  PROVE  IInv'
<1>1. TypeOK'
  <2>1. awareness' \in -1..Full /\ awarenessActive' \in 0..Full /\ awarenessPassive' \in 0..Full
        /\ hiStds' \in 0..HiStdBound /\ terminalAlertCnt' \in 0..AlertBound
        /\ terminalTime' \in 0..MaxTerminalDuration /\ filter' \in 0..FilterUnit
    BY Bounds DEF Fresh, HiStdBound, AlertBound
  <2> QED
    BY <2>1 DEF Fresh, TypeOK, Drivers
<1>2. KeptOK' /\ LockoutOK' /\ LimitOK'
  BY Bounds DEF Fresh, KeptOK, LockoutOK, LimitOK, TerminalAlertsBounded
<1> QED
  BY <1>1, <1>2 DEF IInv

LEMMA StepIInv == IInv /\ [Next]_vars => IInv'
<1> SUFFICES ASSUME IInv, [Next]_vars PROVE IInv'
  OBVIOUS
<1> USE DEF awarenessVars, cameraVars, lockoutVars, packetVars, linkVars
<1>1. CASE NextFrame
  BY <1>1, FrameStep DEF NextFrame
<1>2. CASE InvalidFrame
  BY <1>2 DEF InvalidFrame, IInv, TypeOK, KeptOK, LockoutOK, LimitOK, TerminalAlertsBounded
<1>3. CASE ToggleAlwaysOn
  BY <1>3 DEF ToggleAlwaysOn, IInv, TypeOK, KeptOK, LockoutOK, LimitOK, TerminalAlertsBounded
<1>4. CASE HearState
  BY <1>4 DEF HearState, IInv, TypeOK, KeptOK, LockoutOK, LimitOK, TerminalAlertsBounded
<1>5. CASE ReadPacket
  BY <1>5 DEF ReadPacket, IInv, TypeOK, KeptOK, LockoutOK, LimitOK, TerminalAlertsBounded
<1>6. CASE Engage
  BY <1>6 DEF Engage, IInv, TypeOK, KeptOK, LockoutOK, LimitOK, TerminalAlertsBounded
<1>7. CASE Disengage
  BY <1>7 DEF Disengage, IInv, TypeOK, KeptOK, LockoutOK, LimitOK, TerminalAlertsBounded
<1>8. CASE Restart \/ Ignition
  <2>1. param' \in BOOLEAN /\ Fresh /\ alwaysOn \in BOOLEAN
    BY <1>8 DEF Restart, Ignition, IInv, TypeOK
  <2> QED
    BY <2>1, FreshStep
<1>9. CASE UNCHANGED vars
  BY <1>9 DEF vars, IInv, TypeOK, KeptOK, LockoutOK, LimitOK, TerminalAlertsBounded
<1> QED
  BY <1>1, <1>2, <1>3, <1>4, <1>5, <1>6, <1>7, <1>8, <1>9 DEF Next

THEOREM Inductive == Spec => []IInv
BY InitIInv, StepIInv, PTL DEF Spec

\* Types and bounds of the driver monitoring.
THEOREM MonitoringTypes == Spec => []TypeOK
<1>1. IInv => TypeOK BY DEF IInv
<1> QED BY Inductive, <1>1, PTL

\* No drive has more than one red alert above the limit.
THEOREM AlertsSafety == Spec => []TerminalAlertsBounded
<1>1. IInv => TerminalAlertsBounded BY DEF IInv, LimitOK
<1> QED BY Inductive, <1>1, PTL

\* Only a disengagement that dmonitoringd heard of clears a red alert.
THEOREM RedSafety == Spec => RedUntilDisengaged
<1>1. IInv /\ [Next]_vars => [heard /\ heard' /\ awareness <= 0 => awareness' <= 0]_vars
  <2> SUFFICES ASSUME IInv, [Next]_vars, heard, heard', awareness <= 0 PROVE awareness' <= 0
    OBVIOUS
  <2>1. CASE NextFrame
    BY <2>1, FrameAwareness DEF NextFrame
  <2>2. CASE ~NextFrame
    BY <2>2 DEF Next, InvalidFrame, ToggleAlwaysOn, HearState, ReadPacket, Engage, Disengage,
       Restart, Ignition, Fresh, vars, awarenessVars
  <2> QED
    BY <2>1, <2>2
<1> QED
  BY Inductive, <1>1, PTL DEF Spec, RedUntilDisengaged

\* After the lockout only an ignition lets openpilot engage again.
THEOREM LockoutSafety == Spec => LockedOutUntilIgnition
<1>1. IInv /\ [Next]_vars
      => [tooDistracted /\ ~engaged /\ ~entry /\ ~(param /\ ~param')
          => tooDistracted' /\ ~engaged' /\ ~entry']_vars
  <2> SUFFICES ASSUME IInv, [Next]_vars, tooDistracted, ~engaged, ~entry, ~(param /\ ~param')
               PROVE  tooDistracted' /\ ~engaged' /\ ~entry'
    OBVIOUS
  <2> USE DEF lockoutVars, linkVars
  <2>1. param /\ (valid => "tooDistracted" \in events)
    BY DEF IInv, LockoutOK
  <2>2. CASE NextFrame
    <3>1. tooDistracted' = (tooDistracted \/ Lockout) /\ engaged' = engaged /\ entry' = entry
      BY <2>2 DEF NextFrame, Frame, SetLockout
    <3> QED
      BY <3>1
  <2>3. CASE Restart \/ Ignition
    BY <2>1, <2>3 DEF Restart, Ignition, Fresh
  <2>4. CASE ReadPacket
    BY <2>1, <2>4 DEF ReadPacket
  <2>5. ~Engage
    BY DEF Engage
  <2>6. CASE InvalidFrame
    BY <2>6 DEF InvalidFrame
  <2>7. CASE HearState
    BY <2>7 DEF HearState
  <2>8. CASE Disengage
    BY <2>8 DEF Disengage
  <2>9. CASE ToggleAlwaysOn
    BY <2>9 DEF ToggleAlwaysOn
  <2>10. CASE UNCHANGED vars
    BY <2>10 DEF vars
  <2> QED
    BY <2>2, <2>3, <2>4, <2>5, <2>6, <2>7, <2>8, <2>9, <2>10 DEF Next
<1> QED
  BY Inductive, <1>1, PTL DEF Spec, LockedOutUntilIgnition

\* What attention gives back, before this frame is counted.
LEMMA RecoverKeeps ==
  ASSUME NEW w \in TimersType
  PROVE  /\ Recover(w).active = w.active /\ Recover(w).mode = w.mode
         /\ Recover(w).now # Full => Recover(w).passive = w.passive
BY DEF Recover, TimersType

LEMMA CountKeeps ==
  ASSUME NEW w \in TimersType, NEW in, NEW d, NEW f, NEW h
  PROVE  LET c == Count(w, in, d, f, h)
         IN  c.now <= w.now /\ c.active = w.active /\ c.passive = w.passive /\ c.mode = w.mode
<1>1. AtLeast(w.now - w.step, -1) <= w.now
  BY Bounds DEF AtLeast, TimersType
<1> QED
  BY <1>1, Bounds DEF Count, TimersType

\* An untouched frame gives back only what EarnedBack allows.
LEMMA FrameKeeps ==
  ASSUME IInv, heard, NEW in \in Untouched, Frame(in)
  PROVE  EarnedBack
<1> DEFINE w == UpdateStates(in)
           pays == PaysAttention(w, driver', filter')
           r == IF pays THEN Recover(w) ELSE w
           c == Count(r, in, driver', filter', hiStds')
           ended == pays /\ r.now > Prompt(r.mode)
           new == IF ended THEN r ELSE c
<1>1. in \in Inputs /\ ~in.driverEngaged
  BY DEF Untouched
<1>2. w \in TimersType
  BY <1>1, StatesTypes
<1>3. /\ r \in TimersType /\ r.active = w.active /\ r.mode = w.mode
      /\ r.passive # w.passive => pays /\ r.now = Full
      /\ ~pays => r = w
  <2> HIDE DEF w
  <2>1. CASE pays
    BY <1>2, <2>1, RecoverTypes, RecoverKeeps DEF PaysAttention
  <2> QED
    BY <1>2, <2>1
<1>4. ~ResetsAtOnce(w, in)
  BY <1>1 DEF ResetsAtOnce
<1>5. awareness' = new.now /\ awarenessActive' = new.active /\ awarenessPassive' = new.passive
      /\ activeMode' = new.mode
  <2>1. UpdateEvents(w, in, driver', filter', hiStds')
    BY DEF Frame
  <2> HIDE DEF w
  <2> QED
    BY <1>1, <1>4, <2>1 DEF UpdateEvents, Quiet, Counted, Publish
<1>6. c.now <= r.now /\ c.active = r.active /\ c.passive = r.passive /\ c.mode = r.mode
      /\ c \in TimersType
  <2> HIDE DEF r
  <2> QED
    BY <1>3, CountKeeps, CountTypes
<1>7. /\ (IF w.mode THEN w.now ELSE w.active) = ActiveAwareness
      /\ (IF w.mode THEN w.passive ELSE w.now) = PassiveAwareness
  BY <1>1, StatesKeep
<1>8. pays => Attentive(driver', filter')
  BY DEF PaysAttention
<1>9. Prompt(TRUE) < Full /\ Prompt(TRUE) \in Nat
  BY AwarenessAssumption DEF Prompt
<1>10. /\ new.active = w.active /\ new.mode = w.mode
       /\ ~pays => new.now <= w.now /\ new.passive = w.passive
       /\ w.mode /\ new.passive # w.passive => pays /\ new.now = Full
  <2> HIDE DEF w, r, c, pays
  <2>1. CASE ended
    BY <1>3, <2>1
  <2>2. CASE ~ended
    <3>1. new = c
      BY <2>2
    <3>2. w.mode /\ r.passive # w.passive => ended
      <4> SUFFICES ASSUME w.mode, r.passive # w.passive PROVE ended
        OBVIOUS
      <4>1. r.mode = TRUE
        BY <1>2, <1>3 DEF TimersType
      <4> QED
        BY <1>3, <1>9, <4>1
    <3> QED
      BY <1>2, <1>3, <1>6, <2>2, <3>1, <3>2 DEF TimersType
  <2> QED
    BY <2>1, <2>2
<1>11. new \in TimersType
  BY <1>3, <1>6
<1> HIDE DEF w, new, pays
<1> QED
  BY <1>2, <1>5, <1>7, <1>8, <1>10, <1>11, Bounds
  DEF EarnedBack, ActiveAwareness, PassiveAwareness, TimersType

\* No order of dodging the camera, uncertain poses and glances gives awareness back, but a
\* low filter with a usable face.
THEOREM AwarenessSafety == Spec => NothingGivenBack
<1>1. IInv => [heard /\ ~EarnedBack => ~\E in \in Untouched : Frame(in)]_vars
  BY FrameKeeps
<1> QED
  BY Inductive, <1>1, PTL DEF Spec, NothingGivenBack
-----------------------------------------------------------------------------
(* hardwared: when a drive ends and starts, and when the device is told to *)
(* power down.                                                             *)

\* A device that drives is not offroad.
NotParked == started => offroad = 0

\* The manager reads often enough: turns since the cycle are fewer than turns since its
\* last read.
CycleRuns == cycleUnseen => ~started /\ 0 <= sinceCycle /\ sinceCycle < unread

HardwareInv == HardwareTypeOK /\ DriveEndsAtOnce /\ NotParked /\ CycleRuns

\* The thermal bands are crossed one at a time, and the outer ones end.
LEMMA ThermalRange ==
  ASSUME HardwareTypeOK, NEW t \in Temps, NEW hot \in BOOLEAN
  PROVE  ThermalStep(t, hot) \in 1..Danger
<1>1. t \in 0..1000 /\ thermalStatus \in 1..4
  BY HardwaredAssumption DEF HardwareTypeOK, Danger
<1>2. /\ ThermalBands[1].min = -1 /\ ThermalBands[4].max = 1000
      /\ \A k \in 1..4 : ThermalBands[k].min \in Int /\ ThermalBands[k].max \in Int
  BY DEF ThermalBands
<1>3. t < ThermalBands[thermalStatus].min => thermalStatus # 1 BY <1>1, <1>2
<1>4. t > ThermalBands[thermalStatus].max => thermalStatus # 4 BY <1>1, <1>2
<1> QED BY <1>1, <1>3, <1>4 DEF ThermalStep, Danger

LEMMA InitHardware == HardwareInit => HardwareInv
<1> SUFFICES ASSUME HardwareInit PROVE HardwareInv
  OBVIOUS
<1>1. HardwareTypeOK
  <2>1. /\ 0 \in 0..MaxRequests /\ BodyFrames - 1 \in 0..(BodyFrames - 1)
        /\ -1 \in -1..CycleFrames /\ 0 \in 0..SilentFrames /\ 0 \in 0..ManagerFrames
        /\ 2 \in 1..Danger /\ 0 \in Spans
    BY HardwaredAssumption DEF Danger, Spans
  <2> QED BY <2>1 DEF HardwareInit, HardwareTypeOK
<1>2. DriveEndsAtOnce /\ NotParked /\ CycleRuns
  BY DEF HardwareInit, DriveEndsAtOnce, NotParked, CycleRuns
<1> QED BY <1>1, <1>2 DEF HardwareInv

\* What a turn makes of the panda and of a requested cycle, before its Body.
LEMMA Sampled ==
  ASSUME HardwareInv, Turn
  PROVE  /\ cycleRequested' \in BOOLEAN /\ requests' = requests /\ powerParam' = powerParam
         /\ phase' \in 0..(BodyFrames - 1) /\ silent' \in 0..SilentFrames
         /\ ignition' \in BOOLEAN /\ inCar' \in BOOLEAN
         /\ ignition' => silent' < SilentFrames
         /\ sinceCycle' \in -1..CycleFrames
         /\ cycleRequested => sinceCycle' = 0
         /\ ~cycleRequested => sinceCycle' >= sinceCycle /\ sinceCycle' <= sinceCycle + 1
         /\ unread' = unread + 1 /\ unread' <= ManagerFrames /\ managerStarted' = managerStarted
         /\ ~doShutdown
<1>0. CountCycle /\ ~doShutdown /\ unread < ManagerFrames /\ unread' = unread + 1
  BY DEF Turn
<1>1. /\ cycleRequested' \in BOOLEAN /\ requests' = requests /\ powerParam' = powerParam
      /\ sinceCycle' \in -1..CycleFrames
      /\ cycleRequested => sinceCycle' = 0
      /\ ~cycleRequested => sinceCycle' >= sinceCycle /\ sinceCycle' <= sinceCycle + 1
  <2>1. cycleRequested \in BOOLEAN /\ sinceCycle \in -1..CycleFrames
    BY DEF HardwareInv, HardwareTypeOK
  <2>2. CycleFrames \in Nat \ {0} BY HardwaredAssumption
  <2>3. cycleRequested' \in BOOLEAN /\ requests' = requests /\ powerParam' = powerParam
    BY <1>0 DEF CountCycle
  <2>4. cycleRequested => sinceCycle' = 0 BY <1>0, Zenon DEF CountCycle
  <2>5. ~cycleRequested =>
          sinceCycle' = (IF sinceCycle < CycleFrames THEN sinceCycle + 1 ELSE sinceCycle)
    BY <1>0, Zenon DEF CountCycle
  <2>6. ~cycleRequested =>
          sinceCycle' >= sinceCycle /\ sinceCycle' <= sinceCycle + 1 /\ sinceCycle' <= CycleFrames
    BY <2>1, <2>2, <2>5
  <2>7. sinceCycle' \in -1..CycleFrames
    <3>1. CASE cycleRequested BY <2>2, <2>4, <3>1
    <3>2. CASE ~cycleRequested BY <2>1, <2>2, <2>5, <3>2
    <3> QED BY <3>1, <3>2
  <2> QED BY <2>3, <2>4, <2>6, <2>7
<1> USE HardwaredAssumption DEF HardwareInv, HardwareTypeOK, Turn
<1>2. phase' \in 0..(BodyFrames - 1) BY SMT
<1>3. PICK panda \in {"none", "ignition", "off", "noHarness"} : SampleIgnition(panda)
  OBVIOUS
<1>4. /\ silent' \in 0..SilentFrames /\ ignition' \in BOOLEAN /\ inCar' \in BOOLEAN
      /\ ignition' => silent' < SilentFrames
  <2>1. CASE panda # "none" BY <1>3, <2>1 DEF SampleIgnition
  <2>2. CASE panda = "none" BY <1>3, <2>2 DEF SampleIgnition
  <2> QED BY <2>1, <2>2
<1> QED BY <1>0, <1>1, <1>2, <1>4

\* A turn whose Body runs.
LEMMA BodyInv ==
  ASSUME HardwareInv, Turn, NEW t \in Temps, NEW ok \in BOOLEAN, NEW hot \in BOOLEAN,
         NEW out \in BOOLEAN, Body(t, ok, hot, out)
  PROVE  HardwareInv'
<1>0. HardwareTypeOK BY DEF HardwareInv
<1>1. thermalStatus' \in 1..Danger BY <1>0, ThermalRange DEF Body
<1>2. /\ temp' \in Temps /\ startupOK' \in BOOLEAN /\ longUp' = longUp
      /\ started' \in BOOLEAN /\ startedSeen' \in BOOLEAN /\ offroad' \in Spans
      /\ started' => offroad' = 0
      /\ started' => ignition' /\ NotOnroadCycle' /\ thermalStatus' < Danger
  <2>1. started' \in BOOLEAN /\ (started' => ShouldStart(thermalStatus'))
    <3>1. ShouldStart(thermalStatus') \in BOOLEAN BY <1>0, Sampled DEF ShouldStart, OnroadConditions
    <3>2. started' = ShouldStart(thermalStatus') BY DEF Body
    <3> QED BY <3>1, <3>2
  <2>2. started' => ignition' /\ NotOnroadCycle' /\ thermalStatus' < Danger
    BY <2>1 DEF ShouldStart, OnroadConditions
  <2>3. startedSeen' \in BOOLEAN BY <1>0, <2>1 DEF Body, HardwareTypeOK
  <2>4. offroad' \in Spans /\ (started' => offroad' = 0)
    BY <1>0, <2>1 DEF Body, HardwareTypeOK, Spans
  <2>5. temp' \in Temps /\ startupOK' \in BOOLEAN /\ longUp' = longUp BY DEF Body
  <2> QED BY <2>1, <2>2, <2>3, <2>4, <2>5
<1>3. doShutdown' \in BOOLEAN /\ cycleUnseen' \in BOOLEAN
  BY <1>0 DEF Body, ShouldShutdown, HardwareTypeOK
<1>4. HardwareTypeOK'
  BY <1>0, <1>1, <1>2, <1>3, Sampled, HardwaredAssumption DEF HardwareTypeOK
<1>5. DriveEndsAtOnce' BY <1>2, Sampled DEF DriveEndsAtOnce
<1>6. NotParked' BY <1>2 DEF NotParked
<1>7. CycleRuns'
  <2>1. ASSUME cycleUnseen PROVE 0 <= sinceCycle' /\ sinceCycle' < unread'
    BY <1>0, <2>1, Sampled DEF HardwareInv, CycleRuns, HardwareTypeOK
  <2>2. ASSUME started, ~NotOnroadCycle' PROVE 0 <= sinceCycle' /\ sinceCycle' < unread'
    <3>1. sinceCycle = CycleFrames
      BY <1>0, <2>2, HardwaredAssumption
      DEF HardwareInv, DriveEndsAtOnce, NotOnroadCycle, HardwareTypeOK
    <3>2. sinceCycle' < CycleFrames
      BY <1>0, <2>2, Sampled, HardwaredAssumption DEF NotOnroadCycle
    <3>3. sinceCycle' = 0
      BY <1>0, <3>1, <3>2, Sampled, HardwaredAssumption DEF HardwareTypeOK
    <3> QED BY <1>0, <3>3, Sampled, HardwaredAssumption DEF HardwareTypeOK
  <2>3. cycleUnseen' => cycleUnseen \/ (started /\ ~NotOnroadCycle') BY DEF Body
  <2>4. cycleUnseen' => 0 <= sinceCycle' /\ sinceCycle' < unread' BY <2>1, <2>2, <2>3
  <2>5. cycleUnseen' => ~NotOnroadCycle'
    BY <1>0, <2>4, Sampled, HardwaredAssumption DEF NotOnroadCycle, HardwareTypeOK
  <2> QED BY <1>2, <2>4, <2>5 DEF CycleRuns
<1> QED BY <1>4, <1>5, <1>6, <1>7 DEF HardwareInv

\* A turn without Body: nothing disagrees with started.
LEMMA ShortTurnInv ==
  ASSUME HardwareInv, Turn, ~ConditionsEdge,
         UNCHANGED <<bodyVars, timeVars, doShutdown, cycleUnseen>>
  PROVE  HardwareInv'
<1>0. HardwareTypeOK BY DEF HardwareInv
<1>1. UNCHANGED <<temp, startupOK, thermalStatus, started, startedSeen, offroad, longUp>>
  BY DEF bodyVars, timeVars
<1>2. HardwareTypeOK'
  BY <1>0, <1>1, Sampled, HardwaredAssumption DEF HardwareTypeOK
<1>3. started => ignition' /\ NotOnroadCycle' /\ thermalStatus < Danger
  BY <1>0 DEF ConditionsEdge, OnroadConditions
<1>4. DriveEndsAtOnce' BY <1>1, <1>3, Sampled DEF DriveEndsAtOnce
<1>5. NotParked' BY <1>1 DEF HardwareInv, NotParked
<1>6. CycleRuns'
  BY <1>0, <1>1, Sampled, HardwaredAssumption DEF HardwareInv, CycleRuns, HardwareTypeOK
<1> QED BY <1>2, <1>4, <1>5, <1>6 DEF HardwareInv

LEMMA NextHardware == HardwareInv /\ [HardwareNext]_hardwareVars => HardwareInv'
<1> SUFFICES ASSUME HardwareInv, [HardwareNext]_hardwareVars PROVE HardwareInv'
  OBVIOUS
<1>1. CASE Turn
  <2>1. CASE phase' = 0 \/ ConditionsEdge BY <1>1, <2>1, BodyInv DEF Turn
  <2>2. CASE ~(phase' = 0 \/ ConditionsEdge) BY <1>1, <2>2, ShortTurnInv DEF Turn
  <2> QED BY <2>1, <2>2
<1> USE HardwaredAssumption DEF HardwareInv, HardwareTypeOK, DriveEndsAtOnce, NotParked, CycleRuns,
        NotOnroadCycle, worldVars, loopVars, bodyVars, timeVars, managerVars, Spans
<1>2. CASE ManagerReads BY <1>2 DEF ManagerReads
<1>3. CASE OffroadTime BY <1>3 DEF OffroadTime, ClockOnly, Delay
<1>4. CASE Uptime BY <1>4 DEF Uptime, ClockOnly
<1>5. CASE RequestCycle BY <1>5 DEF RequestCycle
<1>6. CASE UNCHANGED hardwareVars BY <1>6 DEF hardwareVars
<1> QED BY <1>1, <1>2, <1>3, <1>4, <1>5, <1>6 DEF HardwareNext

THEOREM HardwareInvariant == HardwareSpec => []HardwareInv
BY InitHardware, NextHardware, PTL DEF HardwareSpec

\* Types and bounds of hardware_thread and its clocks.
THEOREM HardwareTypes == HardwareSpec => []HardwareTypeOK
<1>1. HardwareInv => HardwareTypeOK BY DEF HardwareInv
<1> QED BY <1>1, HardwareInvariant, PTL

\* A drive ends in the turn in which a condition of it is lost.
THEOREM DriveEndSafety == HardwareSpec => []DriveEndsAtOnce
<1>1. HardwareInv => DriveEndsAtOnce BY DEF HardwareInv
<1> QED BY <1>1, HardwareInvariant, PTL

\* The manager sees the end of the drive that an onroad cycle ends.
THEOREM CycleSafety == HardwareSpec => []CycleIsSeen
<1>1. HardwareInv => CycleIsSeen BY DEF HardwareInv, CycleRuns, CycleIsSeen
<1> QED BY <1>1, HardwareInvariant, PTL

\* The device is told to power down only when it is parked.
THEOREM ShutdownSafety == HardwareSpec => ShutdownOnlyParked
<1>1. ASSUME HardwareInv, [HardwareNext]_hardwareVars
      PROVE  [~doShutdown /\ doShutdown' =>
                /\ ~started'
                /\ \/ powerParam = "ForcePowerDown"
                   \/ ~ignition' /\ ~started /\ offroad >= Delay]_hardwareVars
  <2> SUFFICES ASSUME HardwareNext, ~doShutdown, doShutdown'
               PROVE  /\ ~started'
                      /\ \/ powerParam = "ForcePowerDown"
                         \/ ~ignition' /\ ~started /\ offroad >= Delay
    BY <1>1
  <2>1. Turn
    BY DEF HardwareNext, ManagerReads, OffroadTime, Uptime, ClockOnly, RequestCycle
  <2>2. PICK t \in Temps, ok, hot, out \in BOOLEAN : Body(t, ok, hot, out)
    BY <2>1 DEF Turn
  <2>3. powerParam' = powerParam BY <1>1, <2>1, Sampled
  <2>4. /\ offroad' # 0
        /\ \/ ~ignition' /\ offroad' >= Delay
           \/ powerParam' = "ForcePowerDown"
    BY <2>2, <2>3 DEF Body, ShouldShutdown
  <2>5. ~started' BY <2>2, <2>4 DEF Body
  <2>6. offroad' >= Delay => offroad >= Delay /\ offroad # 0
    BY <1>1, <2>2, <2>5 DEF Body, Delay, HardwareInv, HardwareTypeOK, Spans
  <2>7. offroad # 0 => ~started BY <1>1 DEF HardwareInv, NotParked
  <2> QED BY <2>3, <2>4, <2>5, <2>6, <2>7
<1> QED BY <1>1, HardwareInvariant, PTL DEF HardwareSpec, ShutdownOnlyParked
-----------------------------------------------------------------------------
(* card: the set speed.                                                    *)

\* The timer of a button runs while the driver holds it.
TimersFollow == \A b \in TimedButtons : b \in held <=> timers[b] > 0

\* While no speed is set, no button has been pressed since an engagement.
UnsetUntouched == v = V_CRUISE_UNSET => \A b \in held : ~changed[b].enabled

\* The speed of the last engagement is kept until the next.
LastSetKept == lastSet # V_CRUISE_UNSET => v = lastSet

\* The carState selfdrived reads is the last of card, and until card's next frame it is the
\* one selfdrived engaged on.
ResumingKept ==
  /\ carStates # <<>> => carStates[Len(carStates)].event = CSPrev.event
  /\ enabled /\ ~carControl /\ ~late => resuming = Resumes(CSPrev)
  /\ carControl /\ ~CCPrev /\ ~late => resuming = Resumes(CSPrev)

CruiseInv == CruiseTypeOK /\ LastSetKept /\ ResumingKept

\* What keeps the speed set, of a driver who holds no button while the switch is off.
SwitchInv ==
  TimersFollow /\ UnsetUntouched /\ EngagedSpeedIsSet /\ (~available => held = {})

LEMMA SpeedFacts ==
  /\ V_CRUISE_MIN \in Nat /\ V_CRUISE_MAX \in Nat /\ V_CRUISE_UNSET \in Nat
  /\ LongStep \in Nat \ {0} /\ LongPress \in Nat /\ LongPress > 1 /\ MaxLag \in Nat
  /\ 0 < V_CRUISE_MIN /\ V_CRUISE_MIN < V_CRUISE_MAX /\ V_CRUISE_MAX < V_CRUISE_UNSET
  /\ \A i \in Initials : i \in SetSpeeds
  /\ Speeds \subseteq Nat /\ V_CRUISE_UNSET \notin SetSpeeds
BY SpeedsAssumption DEF SetSpeeds

LEMMA MaxAge == 0 \in 0..(2 * LongPress) /\ 1 \in 0..(2 * LongPress)
<1>1. PICK n \in Nat : n = 2 * LongPress /\ n > 1 BY SpeedFacts
<1>2. 0 \in 0..n /\ 1 \in 0..n BY <1>1
<1> QED BY <1>1, <1>2, Zenon

\* A clipped speed is a real one.
LEMMA ClipRange ==
  ASSUME NEW x \in Int, NEW low \in SetSpeeds PROVE Clip(x, low) \in SetSpeeds
BY SpeedFacts DEF Clip, SetSpeeds

\* What a button makes of any set speed is a real one.
LEMMA AdjustedRange ==
  ASSUME CruiseTypeOK, NEW CS \in CarStates, NEW b \in TimedButtons
  PROVE  Adjusted(b, CS) \in SetSpeeds
<1>1. v \in Int BY SpeedFacts DEF CruiseTypeOK, SetSpeeds
<1>2. v \div LongStep \in Int BY <1>1, SpeedFacts
<1>3. \A q \in Int : q * LongStep \in Int BY SpeedFacts
<1>4. ASSUME NEW long \in BOOLEAN PROVE Interval(b, long) \in Int
  <2>1. PICK up, down \in Int : /\ up = (v \div LongStep + 1) * LongStep
                                /\ down = (v \div LongStep) * LongStep
    BY <1>2, <1>3
  <2>2. PICK next \in Int :
          next = v + (IF long THEN LongStep ELSE 1) * (IF b = "accelCruise" THEN 1 ELSE -1)
    BY <1>1, SpeedFacts
  <2>3. Interval(b, long) = up \/ Interval(b, long) = down \/ Interval(b, long) = next
    BY <2>1, <2>2, Zenon DEF Interval
  <2> QED BY <2>3
<1>5. CS.vEgo \in Int
  <2>1. CS.vEgo \in Speeds BY DEF CarStates
  <2>2. Speeds \subseteq Int BY SpeedFacts
  <2> QED BY <2>1, <2>2, Zenon
<1>6. Interval(b, ~Released(CS)) \in Int BY <1>4
<1>7. \A x, y \in Int : Larger(x, y) \in Int BY DEF Larger
<1>8. V_CRUISE_MIN \in SetSpeeds BY SpeedFacts DEF SetSpeeds
<1> QED BY <1>5, <1>6, <1>7, <1>8, ClipRange DEF Adjusted

\* A set speed stays set, and an unset one is only set by a button pressed since an
\* engagement.
LEMMA NonPcmRange ==
  ASSUME CruiseTypeOK, NEW CS \in CarStates
  PROVE  /\ NonPcm(CS) \in SetSpeeds \cup {V_CRUISE_UNSET}
         /\ v # V_CRUISE_UNSET => NonPcm(CS) \in SetSpeeds
         /\ ~carControl => NonPcm(CS) = v
<1>1. v \in SetSpeeds \cup {V_CRUISE_UNSET} BY DEF CruiseTypeOK
<1>2. ASSUME \E b \in Acting(CS) : Adjusts(b, CS)
      PROVE  Adjusted(CHOOSE b \in Acting(CS) : TRUE, CS) \in SetSpeeds
  <2>1. (CHOOSE b \in Acting(CS) : TRUE) \in Acting(CS) BY <1>2
  <2>2. Acting(CS) \subseteq TimedButtons
    BY DEF Acting, Repeating, Released, Timed, TimedButtons
  <2> QED BY <2>1, <2>2, AdjustedRange
<1> QED BY <1>1, <1>2 DEF NonPcm

LEMMA NothingActs ==
  ASSUME TimersFollow, UnsetUntouched, NEW CS \in CarStates, Press(CS.event), v = V_CRUISE_UNSET
  PROVE  NonPcm(CS) = v
<1>1. ASSUME NEW b \in Acting(CS) PROVE b \in held
  <2>1. CASE Released(CS)
    <3>1. b = CS.event.type BY <1>1, <2>1 DEF Acting
    <3> QED BY <2>1, <3>1 DEF Press, Released
  <2>2. CASE ~Released(CS)
    <3>1. b \in TimedButtons /\ timers[b] > 0
      BY <1>1, <2>2 DEF Acting, Repeating, TimedButtons
    <3> QED BY <3>1 DEF TimersFollow
  <2> QED BY <2>1, <2>2
<1>2. \A b \in Acting(CS) : ~Adjusts(b, CS) BY <1>1 DEF UnsetUntouched, Adjusts
<1> QED BY <1>2 DEF NonPcm

LEMMA InitCruise == CruiseInit => CruiseInv /\ SwitchInv
<1> SUFFICES ASSUME CruiseInit PROVE CruiseInv /\ SwitchInv
  OBVIOUS
<1>1. CSPrev \in [event : Events, vEgo : Speeds] BY DEF CruiseInit, Events
<1>2. enableEdge \in BOOLEAN BY SpeedsAssumption DEF CruiseInit
<1>3. <<>> \in Seq([event : Events, available : BOOLEAN, unset : BOOLEAN]) /\ Len(<<>>) = 0
  OBVIOUS
<1>4. timers \in [TimedButtons -> 0..(2 * LongPress)]
  <2>1. 0 \in 0..(2 * LongPress) BY MaxAge
  <2>2. timers = [b \in TimedButtons |-> 0] BY DEF CruiseInit
  <2> QED BY <2>1, <2>2, Zenon
<1>5. Len(carStates) <= MaxLag + 1 BY <1>3, SpeedFacts DEF CruiseInit
<1>6. CruiseTypeOK
  <2>1. /\ held = {} /\ available = FALSE /\ v = V_CRUISE_UNSET /\ lastSet = V_CRUISE_UNSET
        /\ resuming = FALSE /\ late = FALSE
        /\ changed = [b \in TimedButtons |-> [standstill |-> FALSE, enabled |-> FALSE]]
        /\ CCPrev = FALSE /\ enabled = FALSE /\ carControl = FALSE /\ carStates = <<>>
    BY DEF CruiseInit
  <2> QED BY <1>1, <1>2, <1>3, <1>4, <1>5, <2>1 DEF CruiseTypeOK
<1> QED BY <1>6 DEF CruiseInit, CruiseInv, SwitchInv, TimersFollow, LastSetKept, ResumingKept,
           UnsetUntouched, EngagedSpeedIsSet

\* card's frame keeps the set speed among the speeds.
LEMMA SpeedAfterFrame ==
  ASSUME CruiseInv, NEW CS \in CarStates, CardFrame(CS)
  PROVE  /\ v' \in SetSpeeds \cup {V_CRUISE_UNSET}
         /\ CS.available /\ v # V_CRUISE_UNSET => v' \in SetSpeeds
         /\ CS.available /\ ~carControl => v' = v
         /\ CS.available /\ carControl /\ ~CCPrev /\ NonPcm(CS) = v => v' \in SetSpeeds
<1>0. CruiseTypeOK BY DEF CruiseInv
<1>1. CSPrev.vEgo \in Int
  <2>1. CSPrev.vEgo \in Speeds BY <1>0 DEF CruiseTypeOK
  <2>2. Speeds \subseteq Int BY SpeedFacts
  <2> QED BY <2>1, <2>2, Zenon
<1>2. ASSUME NEW initial \in Initials PROVE Clip(CSPrev.vEgo, initial) \in SetSpeeds
  BY <1>1, SpeedFacts, ClipRange
<1>3. v \in SetSpeeds \cup {V_CRUISE_UNSET} BY <1>0 DEF CruiseTypeOK
<1>4. SetSpeed(CS) BY DEF CardFrame
<1>5. CASE carControl /\ ~CCPrev
  <2>1. PICK initial \in Initials : v' = Initialize(Update(CS), v, initial)
    BY <1>4, <1>5 DEF SetSpeed
  <2>2. v' \in SetSpeeds \/ (Resumes(CSPrev) /\ Update(CS) # V_CRUISE_UNSET /\ v' = v)
    BY <1>2, <2>1 DEF Initialize
  <2>3. CS.available => Update(CS) = NonPcm(CS) BY DEF Update
  <2> QED BY <1>3, <1>5, <2>2, <2>3, SpeedFacts
<1>6. CASE ~(carControl /\ ~CCPrev)
  <2>1. v' = Update(CS) BY <1>4, <1>6 DEF SetSpeed
  <2> QED BY <1>0, <1>6, <2>1, NonPcmRange DEF Update
<1> QED BY <1>5, <1>6

\* The buttons and timers after a frame, with a driver who leaves them alone while the
\* switch is off.
LEMMA TimersAfterFrame ==
  ASSUME CruiseInv, NEW CS \in CarStates, CardFrame(CS)
  PROVE  /\ held' \subseteq TimedButtons
         /\ timers' \in [TimedButtons -> 0..(2 * LongPress)]
         /\ changed' \in [TimedButtons -> [standstill : BOOLEAN, enabled : BOOLEAN]]
         /\ SwitchedAlone /\ TimersFollow => TimersFollow'
<1>0. /\ held \subseteq TimedButtons /\ timers \in [TimedButtons -> 0..(2 * LongPress)]
      /\ changed \in [TimedButtons -> [standstill : BOOLEAN, enabled : BOOLEAN]]
      /\ carControl \in BOOLEAN
  BY DEF CruiseInv, CruiseTypeOK
<1>1. Press(CS.event) /\ UpdateTimers(CS) /\ MainSwitch(CS) BY DEF CardFrame
<1>2. held' \subseteq TimedButtons BY <1>0, <1>1 DEF Press, Timed
<1>3. CS.event.pressed \in BOOLEAN /\ CS.standstill \in BOOLEAN
  <2>1. CS.event \in Events /\ CS.standstill \in BOOLEAN BY DEF CarStates
  <2>2. CASE CS.event = NoEvent BY <2>1, <2>2 DEF NoEvent
  <2>3. CASE CS.event \in [type : Buttons, pressed : BOOLEAN] BY <2>1, <2>3
  <2> QED BY <2>1, <2>2, <2>3 DEF Events
<1>4. \A t \in 0..(2 * LongPress) :
        Aged(t) \in 0..(2 * LongPress) /\ (t > 0 <=> Aged(t) > 0)
  BY SpeedFacts DEF Aged
<1>5. CASE CS.available
  <2>1. /\ timers' = [b \in TimedButtons |-> IF b = CS.event.type
                        THEN (IF CS.event.pressed THEN 1 ELSE 0) ELSE Aged(timers[b])]
        /\ changed' = [b \in TimedButtons |-> IF b = CS.event.type
                        THEN [standstill |-> CS.standstill, enabled |-> carControl]
                        ELSE changed[b]]
    BY <1>1, <1>5 DEF UpdateTimers
  <2>2. 0 \in 0..(2 * LongPress) /\ 1 \in 0..(2 * LongPress)
    BY MaxAge
  <2>3. timers' \in [TimedButtons -> 0..(2 * LongPress)]
    <3> DEFINE Ages == 0..(2 * LongPress)
    <3>1. /\ timers \in [TimedButtons -> Ages] /\ 0 \in Ages /\ 1 \in Ages
          /\ \A t \in Ages : Aged(t) \in Ages
      BY <1>0, <1>4, <2>2
    <3> HIDE DEF Ages
    <3>2. timers' \in [TimedButtons -> Ages] BY <2>1, <3>1
    <3> QED BY <3>2 DEF Ages
  <2>4. changed' \in [TimedButtons -> [standstill : BOOLEAN, enabled : BOOLEAN]]
    BY <1>0, <1>3, <2>1
  <2>5. ASSUME TimersFollow, NEW b \in TimedButtons PROVE b \in held' <=> timers'[b] > 0
    <3>1. CASE b = CS.event.type
      <4>1. timers'[b] = (IF CS.event.pressed THEN 1 ELSE 0) BY <2>1, <3>1
      <4>2. b \in held' <=> CS.event.pressed BY <1>1, <1>3, <3>1 DEF Press, Timed
      <4> QED BY <1>3, <4>1, <4>2
    <3>2. CASE b # CS.event.type
      <4>1. timers'[b] = Aged(timers[b]) BY <2>1, <3>2
      <4>2. b \in held' <=> b \in held BY <1>1, <3>2 DEF Press
      <4>3. timers[b] \in 0..(2 * LongPress) BY <1>0, Zenon
      <4>4. timers[b] > 0 <=> Aged(timers[b]) > 0 BY <1>4, <4>3
      <4>5. b \in held <=> timers[b] > 0 BY <2>5 DEF TimersFollow
      <4> QED BY <4>1, <4>2, <4>4, <4>5, Zenon
    <3> QED BY <3>1, <3>2
  <2> QED BY <1>2, <2>3, <2>4, <2>5 DEF TimersFollow
<1>6. CASE ~CS.available
  <2>1. UNCHANGED <<timers, changed>> BY <1>1, <1>6 DEF UpdateTimers
  <2>2. SwitchedAlone => held' = held BY <1>1, <1>6 DEF MainSwitch, Press
  <2> QED BY <1>0, <1>2, <2>1, <2>2 DEF TimersFollow
<1> QED BY <1>5, <1>6

\* A frame of card keeps the types.
LEMMA FrameCruise ==
  ASSUME CruiseInv, NEW CS \in CarStates, CardFrame(CS) PROVE CruiseInv'
<1>0. CruiseTypeOK /\ LastSetKept BY DEF CruiseInv
<1>1. /\ CS.event \in Events /\ CS.available \in BOOLEAN /\ CS.vEgo \in Speeds
  BY DEF CarStates
<1>2. available' \in BOOLEAN BY <1>1 DEF CardFrame, MainSwitch
<1>3. CSPrev' \in [event : Events, vEgo : Speeds] /\ CCPrev' \in BOOLEAN
  BY <1>0, <1>1 DEF CardFrame, CruiseTypeOK
<1>4. v' \in SetSpeeds \cup {V_CRUISE_UNSET} BY SpeedAfterFrame
<1>5. lastSet' = (IF ~CS.available THEN V_CRUISE_UNSET ELSE IF carControl THEN v' ELSE lastSet)
  BY DEF CardFrame
<1>6. lastSet' \in SetSpeeds \cup {V_CRUISE_UNSET}
  BY <1>0, <1>4, <1>5 DEF CruiseTypeOK
<1>7. LastSetKept'
  BY <1>0, <1>5, SpeedAfterFrame DEF LastSetKept
<1> DEFINE Message == [event : Events, available : BOOLEAN, unset : BOOLEAN]
<1>8. carStates' \in Seq(Message) /\ Len(carStates') <= MaxLag + 1
  <2> DEFINE m == [event |-> CS.event, available |-> CS.available, unset |-> v' = V_CRUISE_UNSET]
  <2>1. m \in Message BY <1>1
  <2>2. carStates' = Append(carStates, m) /\ Behind <= MaxLag BY DEF CardFrame
  <2>3. carStates \in Seq(Message) /\ Len(carStates) \in Nat BY <1>0 DEF CruiseTypeOK
  <2>4. Len(carStates) <= MaxLag BY <2>2, <2>3, SpeedFacts DEF Behind
  <2> HIDE DEF m, Message
  <2>5. carStates' \in Seq(Message) /\ Len(carStates') = Len(carStates) + 1
    BY <2>1, <2>2, <2>3
  <2> QED BY <2>3, <2>4, <2>5, SpeedFacts
<1>9. enableEdge' \in BOOLEAN /\ enabled' \in BOOLEAN /\ carControl' \in BOOLEAN
  BY <1>0 DEF CardFrame, CruiseTypeOK
<1>10. late' \in BOOLEAN /\ resuming' \in BOOLEAN
  BY <1>0 DEF CardFrame, CruiseTypeOK
<1>11. CruiseTypeOK'
  BY <1>2, <1>3, <1>4, <1>6, <1>8, <1>9, <1>10, TimersAfterFrame DEF CruiseTypeOK
<1>12. ResumingKept'
  <2> DEFINE m == [event |-> CS.event, available |-> CS.available, unset |-> v' = V_CRUISE_UNSET]
  <2>1. /\ carStates' = Append(carStates, m) /\ CSPrev' = [event |-> CS.event, vEgo |-> CS.vEgo]
        /\ CCPrev' = carControl /\ late' = (enabled /\ ~carControl)
        /\ enabled' = enabled /\ carControl' = carControl
    BY DEF CardFrame
  <2>2. carStates'[Len(carStates')] = m
    <3>1. carStates \in Seq(Message) /\ m \in Message BY <1>0, <1>1 DEF CruiseTypeOK
    <3> HIDE DEF m, Message
    <3> QED BY <2>1, <3>1
  <2>3. m.event = CSPrev'.event BY <2>1
  <2> HIDE DEF m
  <2> QED BY <2>1, <2>2, <2>3 DEF ResumingKept
<1> QED BY <1>7, <1>11, <1>12 DEF CruiseInv

\* selfdrived and controlsd touch no speed.
LEMMA OthersCruise ==
  ASSUME CruiseInv, Selfdrived \/ Controlsd \/ UNCHANGED cruiseVars
  PROVE  /\ CruiseInv' /\ (SwitchInv => SwitchInv')
         /\ UNCHANGED <<available, v, lastSet>>
<1> USE DEF card, driverVars, CruiseInv, CruiseTypeOK, LastSetKept, SwitchInv, TimersFollow,
            UnsetUntouched, EngagedSpeedIsSet
<1>1. CASE Selfdrived
  <2> DEFINE CS == carStates[Len(carStates)]
  <2>1. /\ UNCHANGED <<enableEdge, driverVars, card, carControl>> /\ carStates' = <<>>
        /\ enabled' \in BOOLEAN /\ late' = (late /\ enabled) /\ carStates # <<>>
        /\ resuming' = (IF enabled THEN resuming ELSE Resumes(CS)) /\ carControl = enabled
    BY <1>1 DEF Selfdrived
  <2>2. <<>> \in Seq([event : Events, available : BOOLEAN, unset : BOOLEAN]) /\ Len(<<>>) = 0
    OBVIOUS
  <2>3. Len(carStates') <= MaxLag + 1 BY <2>1, <2>2, SpeedFacts
  <2>4. Resumes(CS) = Resumes(CSPrev) /\ Resumes(CS) \in BOOLEAN
    BY <2>1 DEF ResumingKept, Resumes
  <2>5. CruiseTypeOK' BY <2>1, <2>2, <2>3, <2>4
  <2>6. ResumingKept'
    <3>1. CSPrev' = CSPrev /\ CCPrev' = CCPrev BY <2>1
    <3> HIDE DEF CS
    <3> QED BY <2>1, <2>4, <3>1 DEF ResumingKept, Resumes
  <2> QED BY <2>1, <2>5, <2>6
<1>2. CASE Controlsd BY <1>2 DEF Controlsd, ResumingKept, Resumes
<1>3. CASE UNCHANGED cruiseVars BY <1>3 DEF cruiseVars, ResumingKept, Resumes
<1> QED BY <1>1, <1>2, <1>3

\* A frame of card keeps the speed set while engaged.
LEMMA FrameSwitch ==
  ASSUME SwitchedAlone, CruiseInv, SwitchInv, NEW CS \in CarStates, CardFrame(CS)
  PROVE  SwitchInv'
<1>0. /\ MainSwitch(CS) /\ Press(CS.event) /\ UpdateTimers(CS) /\ CCPrev' = carControl
      /\ available' = CS.available
  BY DEF CardFrame, MainSwitch
<1>1. CCPrev \in BOOLEAN /\ carControl \in BOOLEAN /\ held \subseteq TimedButtons
      /\ v \in SetSpeeds \cup {V_CRUISE_UNSET} /\ CS.available \in BOOLEAN
  BY DEF CruiseInv, CruiseTypeOK, CarStates
<1>2. TimersFollow' BY TimersAfterFrame DEF SwitchInv
<1>3. ~available' => held' = {}
  BY <1>0 DEF MainSwitch, Press
<1>4. CS.available /\ carControl => v' \in SetSpeeds
  <2> SUFFICES ASSUME CS.available, carControl PROVE v' \in SetSpeeds
    OBVIOUS
  <2>1. CASE v # V_CRUISE_UNSET BY <2>1, SpeedAfterFrame
  <2>2. CASE v = V_CRUISE_UNSET
    <3>1. available BY <1>0 DEF MainSwitch
    <3>2. ~CCPrev BY <2>2, <3>1 DEF SwitchInv, EngagedSpeedIsSet
    <3>3. NonPcm(CS) = v BY <1>0, <2>2, NothingActs DEF SwitchInv
    <3> QED BY <3>2, <3>3, SpeedAfterFrame
  <2> QED BY <2>1, <2>2
<1>5. EngagedSpeedIsSet' BY <1>0, <1>4, SpeedFacts DEF EngagedSpeedIsSet
<1>6. UnsetUntouched'
  <2> SUFFICES ASSUME v' = V_CRUISE_UNSET, NEW b \in held' PROVE ~changed'[b].enabled
    BY DEF UnsetUntouched
  <2>1. CS.available BY <1>0, <1>3
  <2>2. ~carControl BY <1>4, <2>1, SpeedFacts
  <2>3. v = V_CRUISE_UNSET BY <1>1, <2>1, <2>2, SpeedAfterFrame
  <2>4. b \in TimedButtons BY TimersAfterFrame
  <2>5. changed'[b] = (IF b = CS.event.type
                       THEN [standstill |-> CS.standstill, enabled |-> carControl] ELSE changed[b])
    BY <1>0, <2>1, <2>4 DEF UpdateTimers
  <2>6. CASE b = CS.event.type BY <2>2, <2>5, <2>6
  <2>7. CASE b # CS.event.type
    <3>1. b \in held BY <1>0, <2>7 DEF Press
    <3> QED BY <2>3, <2>5, <2>7, <3>1 DEF SwitchInv, UnsetUntouched
  <2> QED BY <2>6, <2>7
<1> QED BY <1>2, <1>3, <1>5, <1>6 DEF SwitchInv

LEMMA NextCruise == CruiseInv /\ [CruiseNext]_cruiseVars => CruiseInv'
BY FrameCruise, OthersCruise DEF CruiseNext

\* Types and bounds of the set speed and its buttons.
THEOREM CruiseTypes == CruiseSpec => []CruiseTypeOK
<1>1. CruiseInv => CruiseTypeOK BY DEF CruiseInv
<1> QED BY <1>1, InitCruise, NextCruise, PTL DEF CruiseSpec

\* openpilot never controls to an unset speed, if the driver holds no cruise button while
\* the main switch is off.
THEOREM SpeedSafety == ASSUME SwitchedAlone PROVE CruiseSpec => []EngagedSpeedIsSet
<1>1. CruiseInv /\ SwitchInv /\ [CruiseNext]_cruiseVars => (CruiseInv /\ SwitchInv)'
  BY FrameCruise, FrameSwitch, OthersCruise DEF CruiseNext
<1>2. SwitchInv => EngagedSpeedIsSet BY DEF SwitchInv
<1> QED BY <1>1, <1>2, InitCruise, PTL DEF CruiseSpec

\* An engagement by resume that card sees in time brings back the last set speed, and no
\* engagement any but that one and the speed of the car, whatever the driver holds.
THEOREM ResumeSafety == CruiseSpec => ResumeRestores
<1>1. ASSUME CruiseInv, [CruiseNext]_cruiseVars
      PROVE  [~CCPrev /\ CCPrev' /\ available' /\ lastSet # V_CRUISE_UNSET
              => v' \in IF late THEN OwnSpeeds \cup {lastSet}
                        ELSE IF resuming THEN {lastSet} ELSE OwnSpeeds]_cruiseVars
  <2> SUFFICES ASSUME ~CCPrev, CCPrev', available', lastSet # V_CRUISE_UNSET, CruiseNext
               PROVE  v' \in IF late THEN OwnSpeeds \cup {lastSet}
                             ELSE IF resuming THEN {lastSet} ELSE OwnSpeeds
    BY <1>1
  <2>1. PICK CS \in CarStates : CardFrame(CS)
    BY DEF CruiseNext, Selfdrived, Controlsd, card
  <2>2. carControl /\ CS.available /\ SetSpeed(CS) BY <2>1 DEF CardFrame, MainSwitch
  <2>3. v = lastSet BY <1>1 DEF CruiseInv, LastSetKept
  <2>4. NonPcm(CS) # V_CRUISE_UNSET
    BY <1>1, <2>1, <2>3, NonPcmRange, SpeedFacts DEF CruiseInv
  <2>5. PICK initial \in Initials :
          v' = IF Resumes(CSPrev) THEN lastSet ELSE Clip(CSPrev.vEgo, initial)
    BY <2>2, <2>3, <2>4 DEF SetSpeed, Update, Initialize
  <2>6. v' = lastSet \/ v' \in OwnSpeeds BY <2>5 DEF OwnSpeeds
  <2>7. ASSUME ~late PROVE v' \in IF resuming THEN {lastSet} ELSE OwnSpeeds
    <3>1. resuming = Resumes(CSPrev) BY <1>1, <2>2, <2>7 DEF CruiseInv, ResumingKept
    <3> QED BY <2>5, <3>1 DEF OwnSpeeds
  <2> QED BY <2>6, <2>7
<1> QED BY <1>1, InitCruise, NextCruise, PTL DEF CruiseSpec, ResumeRestores
=============================================================================
