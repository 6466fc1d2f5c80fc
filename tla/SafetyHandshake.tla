--------------------------- MODULE SafetyHandshake ---------------------------
(***************************************************************************)
(* How the pandas get into the car's safety mode at the start of a drive.  *)
(* Three processes cooperate through params only:                          *)
(*   manager  clears the onroad params, writes IsOnroad, starts card;      *)
(*   card     fingerprints the car, asking pandad for OBD multiplexing,    *)
(*            then writes FirmwareQueryDone, CarParams and, once controls  *)
(*            run, ControlsReady (from a writer thread);                   *)
(*   pandad   at 10 Hz closes the relay when it must, serves the OBD       *)
(*            requests and sets the car's safety mode (PandaSafety).       *)
(* Each param access that another process can fall between is a step.      *)
(*                                                                         *)
(* Timing the guards rely on, each named where it is used: pandad turns    *)
(* its 10 Hz loop while the manager, at 2 Hz, is offroad; a card told to   *)
(* stop is gone by the next drive; ignition that went off stays off until  *)
(* the manager has gone offroad.                                           *)
(***************************************************************************)
EXTENDS Naturals

CONSTANTS
  Pandas,       \* the connected pandas
  FirstPanda,   \* pandas_[0], the one that switches to the OBD port
  Configured,   \* those with an entry in safetyConfigs
  Passive,      \* CP.passive: no controller, or openpilot is switched off
  MaxDrives,    \* bound on the drives
  MaxRequests,  \* bound on the OBD requests of one fingerprinting
  MaxRestarts   \* bound on the restarts of pandad

ASSUME HandshakeAssumption ==
  /\ FirstPanda \in Pandas /\ Configured \subseteq Pandas /\ Passive \in BOOLEAN
  /\ MaxDrives \in Nat /\ MaxRequests \in Nat /\ MaxRestarts \in Nat

VARIABLES
  \* the params
  isOnroad, carParams, firmwareQueryDone, controlsReady,
  obdMultiplexingEnabled, obdMultiplexingChanged,
  mgr,          \* where the manager's loop is
  drive,        \* the number of onroad transitions so far
  ignition,
  card,         \* where card is
  requests,     \* OBD requests made in this fingerprinting
  readyQueued,  \* the put of ControlsReady waits in card's writer thread
  tick,         \* where pandad's 10 Hz turn is
  onroadSeen,   \* is_onroad of pandad's turn
  initialized, safetyConfigured, prevObd,  \* PandaSafety
  restarts,
  safetyModel,  \* the mode of each panda
  modeOf        \* the drive whose CarParams each panda was configured with

paramVars == <<isOnroad, carParams, firmwareQueryDone, controlsReady,
               obdMultiplexingEnabled, obdMultiplexingChanged>>
mgrVars == <<mgr, drive, ignition>>
cardVars == <<card, requests, readyQueued>>
pandadVars == <<tick, onroadSeen, initialized, safetyConfigured, prevObd, restarts>>
pandaVars == <<safetyModel, modeOf>>
vars == <<paramVars, mgrVars, cardVars, pandadVars, pandaVars>>

\* Definitions whose name ends in Bug are mutated forms of the next definition.

\* elm327obd is ELM327 with parameter 0, the OBD port; elm327 is parameter 1.
SafetyModels == {"silent", "noOutput", "elm327", "elm327obd", "car"}

Init ==
  /\ isOnroad = FALSE /\ carParams = 0 /\ firmwareQueryDone = FALSE
  /\ controlsReady = FALSE /\ obdMultiplexingEnabled = FALSE /\ obdMultiplexingChanged = FALSE
  /\ mgr = "offroad" /\ drive = 0 /\ ignition = FALSE
  /\ card = "off" /\ requests = 0 /\ readyQueued = FALSE
  /\ tick = "idle" /\ onroadSeen = FALSE
  /\ initialized = FALSE /\ safetyConfigured = FALSE /\ prevObd = FALSE /\ restarts = 0
  /\ safetyModel = [p \in Pandas |-> "silent"] /\ modeOf = [p \in Pandas |-> 0]

-----------------------------------------------------------------------------
(* manager_thread, as far as the handshake sees it.                        *)

\* clear_all(CLEAR_ON_ONROAD_TRANSITION).  Timing: pandad has turned its loop and
\* noticed the offroad (a pandad that was restarting, or its pandas without a
\* heartbeat, have closed the relays), and the last card is gone.
ClearOnroadParams ==
  /\ mgr = "offroad" /\ ignition /\ drive < MaxDrives
  /\ card = "off" /\ ~onroadSeen /\ tick = "idle"
  /\ \A p \in Pandas : safetyModel[p] \in {"silent", "noOutput"}
  /\ mgr' = "cleared" /\ drive' = drive + 1
  /\ carParams' = 0 /\ firmwareQueryDone' = FALSE /\ controlsReady' = FALSE
  /\ obdMultiplexingEnabled' = FALSE /\ obdMultiplexingChanged' = FALSE
  /\ UNCHANGED <<isOnroad, ignition, cardVars, pandadVars, pandaVars>>

\* write_onroad_params(True).
WriteOnroad ==
  /\ mgr = "cleared"
  /\ mgr' = "written" /\ isOnroad' = TRUE
  /\ UNCHANGED <<carParams, firmwareQueryDone, controlsReady, obdMultiplexingEnabled,
                 obdMultiplexingChanged, drive, ignition, cardVars, pandadVars, pandaVars>>

\* ensure_running starts card.
StartCard ==
  /\ mgr = "written"
  /\ mgr' = "onroad" /\ card' = "fingerprint" /\ requests' = 0 /\ readyQueued' = FALSE
  /\ UNCHANGED <<drive, ignition, paramVars, pandadVars, pandaVars>>

\* deviceState is no longer started: write_onroad_params(False).
WriteOffroad ==
  /\ mgr = "onroad"
  /\ mgr' = "stopping" /\ isOnroad' = FALSE
  /\ UNCHANGED <<carParams, firmwareQueryDone, controlsReady, obdMultiplexingEnabled,
                 obdMultiplexingChanged, drive, ignition, cardVars, pandadVars, pandaVars>>

\* ensure_running stops card; its writer thread goes with it.
StopCard ==
  /\ mgr = "stopping"
  /\ mgr' = "offroad" /\ card' = "off" /\ readyQueued' = FALSE
  /\ UNCHANGED <<drive, ignition, requests, paramVars, pandadVars, pandaVars>>

\* Timing: not before the manager has gone offroad.
IgnitionOn ==
  /\ ~ignition /\ mgr = "offroad"
  /\ ignition' = TRUE
  /\ UNCHANGED <<mgr, drive, paramVars, cardVars, pandadVars, pandaVars>>

IgnitionOff ==
  /\ ignition
  /\ ignition' = FALSE
  /\ UNCHANGED <<mgr, drive, paramVars, cardVars, pandadVars, pandaVars>>

-----------------------------------------------------------------------------
(* card: Car.__init__ and controls_update.                                 *)

SetCard(from, to) == card = from /\ card' = to
CardOnly == UNCHANGED <<mgrVars, pandadVars, pandaVars>>

RequestObdBug ==
  /\ SetCard("fingerprint", "removed")
  /\ IF obdMultiplexingEnabled THEN requests' = requests
     ELSE requests < MaxRequests /\ requests' = requests + 1
  /\ UNCHANGED <<readyQueued, paramVars>> /\ CardOnly
\* set_obd_multiplexing with a changed request: forget the old acknowledgement ...
RequestObd ==
  /\ SetCard("fingerprint", "removed")
  /\ IF obdMultiplexingEnabled THEN requests' = requests
     ELSE requests < MaxRequests /\ requests' = requests + 1
  /\ obdMultiplexingChanged' = FALSE
  /\ UNCHANGED <<isOnroad, carParams, firmwareQueryDone, controlsReady,
                 obdMultiplexingEnabled, readyQueued>> /\ CardOnly

\* ... write the request ...
PutObd ==
  /\ SetCard("removed", "waiting")
  /\ obdMultiplexingEnabled' = ~obdMultiplexingEnabled
  /\ UNCHANGED <<isOnroad, carParams, firmwareQueryDone, controlsReady,
                 obdMultiplexingChanged, requests, readyQueued>> /\ CardOnly

\* ... and block until pandad has switched.
ObdAcknowledged ==
  /\ SetCard("waiting", "fingerprint") /\ obdMultiplexingChanged
  /\ UNCHANGED <<requests, readyQueued, paramVars>> /\ CardOnly

\* get_car returned, with multiplexing off again: FirmwareQueryDone, then CarParams.
FingerprintDone ==
  /\ SetCard("fingerprint", "fingerprinted") /\ ~obdMultiplexingEnabled
  /\ firmwareQueryDone' = TRUE
  /\ UNCHANGED <<isOnroad, carParams, controlsReady, obdMultiplexingEnabled,
                 obdMultiplexingChanged, requests, readyQueued>> /\ CardOnly

PutCarParams ==
  /\ SetCard("fingerprinted", "running")
  /\ carParams' = drive
  /\ UNCHANGED <<isOnroad, firmwareQueryDone, controlsReady, obdMultiplexingEnabled,
                 obdMultiplexingChanged, requests, readyQueued>> /\ CardOnly

\* The first controls_update after selfdrived initialized: CI.init, then the put of
\* ControlsReady is queued.  A passive car never gets here.
ControlsInit ==
  /\ SetCard("running", "ready") /\ ~Passive
  /\ readyQueued' = TRUE
  /\ UNCHANGED <<requests, paramVars>> /\ CardOnly

\* The writer thread of card's Params.
WriteControlsReady ==
  /\ readyQueued
  /\ readyQueued' = FALSE /\ controlsReady' = TRUE
  /\ UNCHANGED <<isOnroad, carParams, firmwareQueryDone, obdMultiplexingEnabled,
                 obdMultiplexingChanged, card, requests>> /\ CardOnly

-----------------------------------------------------------------------------
(* pandad: one 10 Hz turn is PandaState, Multiplex (while onroad and not   *)
(* configured), Configure.                                                 *)

PandadOnly == UNCHANGED <<mgrVars, cardVars, restarts>>

\* is_onroad is read; send_panda_states wakes silent pandas and closes the relay.
PandaState ==
  LET closeRelay == ~ignition \/ ~isOnroad
  IN  /\ tick = "idle"
      /\ tick' = "states" /\ onroadSeen' = isOnroad
      /\ safetyModel' = [p \in Pandas |->
           IF closeRelay \/ safetyModel[p] = "silent" THEN "noOutput" ELSE safetyModel[p]]
      /\ UNCHANGED <<initialized, safetyConfigured, prevObd, modeOf, paramVars>> /\ PandadOnly

SkipConfigureBug ==
  /\ tick = "states" /\ (~onroadSeen \/ safetyConfigured)
  /\ tick' = "idle"
  /\ initialized' = (initialized /\ onroadSeen)
  /\ UNCHANGED <<onroadSeen, safetyConfigured, prevObd, paramVars, pandaVars>> /\ PandadOnly
\* configureSafetyMode when offroad or already configured.
SkipConfigure ==
  /\ tick = "states" /\ (~onroadSeen \/ safetyConfigured)
  /\ tick' = "idle"
  /\ initialized' = (initialized /\ onroadSeen)
  /\ safetyConfigured' = (safetyConfigured /\ onroadSeen)
  /\ UNCHANGED <<onroadSeen, prevObd, paramVars, pandaVars>> /\ PandadOnly

PrevObdBug == prevObd
\* prev_obd_multiplexing_, reset when not initialized.
PrevObd == initialized /\ prevObd

ElmModeBug(p) == IF obdMultiplexingEnabled THEN "elm327obd" ELSE "elm327"
ElmMode(p) == IF p = FirstPanda /\ obdMultiplexingEnabled THEN "elm327obd" ELSE "elm327"

\* updateMultiplexingMode: ELM327 first, then a switch when the request changed.
Multiplex ==
  LET switch == obdMultiplexingEnabled # PrevObd
  IN  /\ tick = "states" /\ onroadSeen /\ ~safetyConfigured
      /\ tick' = "multiplexed" /\ initialized' = TRUE /\ prevObd' = obdMultiplexingEnabled
      /\ safetyModel' = IF switch THEN [p \in Pandas |-> ElmMode(p)]
                        ELSE IF ~initialized THEN [p \in Pandas |-> "elm327"]
                        ELSE safetyModel
      /\ obdMultiplexingChanged' = (obdMultiplexingChanged \/ switch)
      /\ UNCHANGED <<isOnroad, carParams, firmwareQueryDone, controlsReady,
                     obdMultiplexingEnabled, onroadSeen, safetyConfigured, modeOf>>
      /\ PandadOnly

FetchReadyBug == firmwareQueryDone /\ carParams # 0
\* fetchCarParams returns something.
FetchReady == firmwareQueryDone /\ controlsReady /\ carParams # 0

Modes == [p \in Pandas |-> IF p \in Configured THEN "car" ELSE "silent"]

\* fetchCarParams and setSafetyMode: pandas beyond safetyConfigs go silent.
Configure ==
  /\ tick = "multiplexed"
  /\ tick' = "idle"
  /\ IF FetchReady
     THEN /\ safetyConfigured' = TRUE
          /\ safetyModel' = Modes
          /\ modeOf' = [p \in Pandas |-> carParams]
     ELSE UNCHANGED <<safetyConfigured, safetyModel, modeOf>>
  /\ UNCHANGED <<onroadSeen, initialized, prevObd, paramVars>> /\ PandadOnly

\* pandad ends (a disconnect, a crash) and pandad.py starts it again.  A loop that
\* ended by itself closes the relays unless engaged.
RestartPandad ==
  /\ restarts < MaxRestarts
  /\ restarts' = restarts + 1
  /\ safetyModel' \in {safetyModel, [p \in Pandas |-> "noOutput"]}
  /\ tick' = "idle" /\ onroadSeen' = FALSE
  /\ initialized' = FALSE /\ safetyConfigured' = FALSE /\ prevObd' = FALSE
  /\ UNCHANGED <<mgrVars, cardVars, paramVars, modeOf>>

-----------------------------------------------------------------------------
Manager == ClearOnroadParams \/ WriteOnroad \/ StartCard \/ WriteOffroad \/ StopCard
Card == RequestObd \/ PutObd \/ ObdAcknowledged \/ FingerprintDone \/ PutCarParams
        \/ ControlsInit \/ WriteControlsReady
Pandad == PandaState \/ SkipConfigure \/ Multiplex \/ Configure
Next == Manager \/ IgnitionOn \/ IgnitionOff \/ Card \/ Pandad \/ RestartPandad

Spec == Init /\ [][Next]_vars

\* pandad's loop turns; card and its writer thread go on; the manager finishes the
\* iteration it is in.
Fairness ==
  /\ WF_vars(Pandad) /\ WF_vars(WriteOnroad) /\ WF_vars(StartCard) /\ WF_vars(StopCard)
  /\ WF_vars(RequestObd /\ obdMultiplexingEnabled) /\ WF_vars(PutObd) /\ WF_vars(ObdAcknowledged) /\ WF_vars(FingerprintDone)
  /\ WF_vars(PutCarParams) /\ WF_vars(ControlsInit) /\ WF_vars(WriteControlsReady)
FairSpec == Spec /\ Fairness

-----------------------------------------------------------------------------
(* Properties.                                                             *)

FlagsOK ==
  /\ {isOnroad, firmwareQueryDone, controlsReady} \subseteq BOOLEAN
  /\ {obdMultiplexingEnabled, obdMultiplexingChanged} \subseteq BOOLEAN
  /\ {ignition, readyQueued, onroadSeen, initialized, safetyConfigured, prevObd}
       \subseteq BOOLEAN
  /\ mgr \in {"offroad", "cleared", "written", "onroad", "stopping"}
  /\ card \in {"off", "fingerprint", "removed", "waiting", "fingerprinted", "running", "ready"}
  /\ tick \in {"idle", "states", "multiplexed"}
CountersOK ==
  /\ carParams \in 0..MaxDrives /\ drive \in 0..MaxDrives
  /\ requests \in 0..MaxRequests /\ restarts \in 0..MaxRestarts
  /\ safetyModel \in [Pandas -> SafetyModels] /\ modeOf \in [Pandas -> 0..MaxDrives]
TypeOK == FlagsOK /\ CountersOK

\* A panda is in the car's safety mode only on the CarParams of the present drive
\* and after its card initialized the car interface: no param left over from an
\* earlier drive, and no request half made, opens the mode early (fetchCarParams,
\* the clear of manager_thread).
CarModeIsThisDrives ==
  \A p \in Pandas : safetyModel[p] = "car" /\ mgr = "onroad" =>
    modeOf[p] = drive /\ card = "ready"

\* What makes it inductive: the onroad params follow card's progress and nothing of an
\* earlier drive survives the clear.
CardOnlyWhileOnroad ==
  /\ mgr \notin {"onroad", "stopping"} => card = "off" /\ ~readyQueued
  /\ readyQueued => card = "ready"
ParamsFollowCard ==
  mgr = "onroad" =>
    /\ carParams # 0 => carParams = drive
    /\ controlsReady => card = "ready"
ParamsCleared ==
  mgr \in {"cleared", "written"} =>
    /\ carParams = 0 /\ ~controlsReady
    /\ \A p \in Pandas : safetyModel[p] # "car"
HandshakeInv ==
  FlagsOK /\ CountersOK /\ CardOnlyWhileOnroad /\ ParamsFollowCard /\ ParamsCleared /\ CarModeIsThisDrives

\* Until pandad restarts, only the first panda is ever switched to the OBD port, and
\* by the time card has its answer to the end of the request it is off it: a
\* fingerprinted car is never left with the port open.
ObdPortOnRequest ==
  \A p \in Pandas : safetyModel[p] = "elm327obd" /\ restarts = 0 =>
    p = FirstPanda /\ (mgr = "onroad" => card \in {"fingerprint", "removed", "waiting"})

\* Until pandad restarts, the acknowledgement card blocks on is that of its own
\* request: no earlier one satisfies it, so the mode asked for is in place.
AcknowledgedMeansSwitched ==
  card = "waiting" /\ obdMultiplexingChanged /\ ignition /\ isOnroad /\ restarts = 0 =>
    initialized /\ prevObd = obdMultiplexingEnabled

\* Both halves of an OBD request, in either direction.
ObdHandshake == ObdPortOnRequest /\ AcknowledgedMeansSwitched

\* Unless pandad restarts, card never waits for ever on an OBD request.
ObdRequestAnswered == card = "waiting" ~> card \in {"fingerprint", "off"} \/ restarts > 0

\* When the drive and the ignition last, the configured pandas of a car that is not
\* passive reach and keep the car's safety mode, unless pandad restarts.
CarModeReached ==
  ~Passive /\ <>[](mgr = "onroad" /\ ignition /\ restarts = 0) =>
    <>[](\A p \in Configured : safetyModel[p] = "car" /\ modeOf[p] = drive)

=============================================================================
