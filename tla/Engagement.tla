----------------------------- MODULE Engagement ------------------------------
(***************************************************************************)
(* What selfdrived promises controlsd, card and the driver by the fields   *)
(* enabled and active it publishes, whatever the events were that day:     *)
(* openpilot engages only when nothing is against it, lets go at once when *)
(* told to stop and otherwise only after a soft disabling reason has       *)
(* lasted, and never lets control last longer than Grace steps into one.   *)
(* Control, once it has begun, is not paused.  Neither the five states of  *)
(* state.py nor its timer appear here: they belong to Selfdrived.          *)
(***************************************************************************)
EXTENDS Integers

CONSTANT Grace   \* the step under a soft disabling reason on which control has ended

VARIABLES
  ready,     \* selfdrived has initialized
  enabled,   \* openpilot is engaged
  active,    \* and in control, not waiting for the car to drive off
  asks,      \* what the events of the last step ask for
  left       \* the steps in which control has to end, if the reason stays

Stops == {"USER_DISABLE", "IMMEDIATE_DISABLE"}
Asks == SUBSET (Stops \cup {"SOFT_DISABLE", "NO_ENTRY"})

Off == ~enabled /\ ~active /\ left = Grace

EInit == Off /\ ready = FALSE /\ asks = {}

\* A step while openpilot is not engaged.
StandBy == ~enabled /\ Off' /\ (ready => ready') /\ asks' \in Asks

\* Engaging, with nothing against it, into control or waiting for it.
Engage ==
  /\ ~enabled /\ enabled' /\ active' \in BOOLEAN
  /\ ready' /\ asks' = {} /\ left' = Grace

\* A step while engaged.  Control that is on stays on, and each step of it under a soft
\* disabling reason leaves fewer; without the reason all of them are back.
Hold ==
  /\ enabled /\ enabled' /\ (active => active') /\ active' \in BOOLEAN
  /\ asks' \in Asks /\ asks' \cap Stops = {}
  /\ left' = (IF active /\ "SOFT_DISABLE" \in asks' THEN left - 1 ELSE Grace) /\ left' > 0
  /\ UNCHANGED ready

\* Letting go: told to, or at the end of the time a soft disabling reason has.
LetGo ==
  /\ enabled /\ Off' /\ asks' \in Asks
  /\ asks' \cap Stops # {} \/ (active /\ "SOFT_DISABLE" \in asks' /\ left = 1)
  /\ UNCHANGED ready

\* The process is started anew.
StartOver == EInit'

ENext == StandBy \/ Engage \/ Hold \/ LetGo \/ StartOver

ESpec == EInit /\ [][ENext]_<<ready, enabled, active, asks, left>>
=============================================================================
