------------------------------ MODULE Hardwared ------------------------------
(***************************************************************************)
(* system/hardware: hardware_thread decides when the device goes onroad    *)
(* and offroad and, with PowerMonitoring, when it powers down.  A Turn is  *)
(* one turn of its loop, at the 10 Hz of pandaStates: it looks at the      *)
(* panda and at a requested onroad cycle every time and does the rest      *)
(* (Body) at 2 Hz or when the onroad conditions disagree with started.     *)
(* The manager reads the last deviceState sent, and may miss one.          *)
(*                                                                         *)
(* Abstractions: the startup conditions other than the temperature are one *)
(* flag; the filtered temperature and "the battery is low or the estimate  *)
(* of its charge used up" are inputs; time offroad is counted in spans.  A *)
(* behaviour is one uptime of the device: what the params kept from the    *)
(* uptime before is a choice of HardwareInit.  Names that other components *)
(* have too carry a prefix, since Drive_proofs extends several of them.    *)
(***************************************************************************)
EXTENDS Integers

CONSTANTS
  Temps,           \* filtered temperatures in degrees
  CycleFrames,     \* ONROAD_CYCLE_TIME * frequency of pandaStates, 10
  BodyFrames,      \* round(frequency * DT_HW), 5
  SilentFrames,    \* turns of the loop in DISCONNECT_TIMEOUT without pandaStates
  ManagerFrames,   \* turns of the loop between two reads of the manager, at most
  MaxRequests      \* bound: onroad cycles requested

ASSUME HardwaredAssumption ==
  /\ Temps \subseteq 0..1000
  /\ CycleFrames \in Nat \ {0} /\ BodyFrames \in Nat \ {0} /\ SilentFrames \in Nat \ {0}
  /\ ManagerFrames \in 1..(CycleFrames - 1)
  /\ MaxRequests \in Nat

VARIABLES
  \* the world: set by the user and by other processes
  cycleRequested, requests, \* the param OnroadCycleRequested, and how often it was set
  powerParam,      \* the one of PowerParams that is set; it does not change
  \* hardware_thread
  phase,           \* sm.frame modulo BodyFrames
  sinceCycle,      \* sm.frame - offroad_cycle_count, saturating
  silent,          \* turns since the last pandaStates, saturating at the timeout
  ignition,        \* onroad_conditions["ignition"]
  inCar,           \* the harness was connected
  temp, startupOK, \* temperature and startup conditions of the last Body
  thermalStatus,   \* index in ThermalBands
  started,         \* started_ts is not None; also should_start_prev and what the last
                   \* deviceState says
  startedSeen,
  offroad,         \* span of off_ts: see Spans
  longUp,          \* the device is on for more than MIN_ON_TIME_S
  doShutdown,      \* the param
  \* the manager
  managerStarted,  \* started in manager_thread
  unread,          \* turns of the loop since the manager read
  cycleUnseen      \* a cycle ended the drive and the manager has not seen it end

worldVars == <<cycleRequested, requests, powerParam>>
loopVars == <<phase, sinceCycle, silent, ignition, inCar>>
bodyVars == <<temp, startupOK, thermalStatus, started, startedSeen>>
timeVars == <<offroad, longUp>>
managerVars == <<managerStarted, unread, cycleUnseen>>
hardwareVars == <<worldVars, loopVars, bodyVars, timeVars, doShutdown, managerVars>>

\* Definitions whose name ends in Bug are mutated forms of the next definition.

\* THERMAL_BANDS: green, yellow, red, danger.
ThermalBands == <<[min |-> -1, max |-> 80], [min |-> 75, max |-> 96],
                  [min |-> 88, max |-> 107], [min |-> 94, max |-> 1000]>>
Red == 3
Danger == 4
OFFROAD_DANGER_TEMP == 75

\* Spans of the time since off_ts: not offroad, up to 300 s, up to 30 h, more.  300 s are
\* DELAY_SHUTDOWN_TIME_S and the five minutes of the thermal override; they are longer
\* than VOLTAGE_SHUTDOWN_MIN_OFFROAD_TIME_S, which therefore changes nothing.
Spans == 0..3
Delay == 2
MaxTimeOffroad == 3

PowerParams == {"none", "DisablePowerDown", "ForcePowerDown"}

\* CLEAR_ON_MANAGER_START has cleared OnroadCycleRequested and DoShutdown.
HardwareInit ==
  /\ cycleRequested = FALSE /\ requests = 0 /\ powerParam \in PowerParams
  /\ phase = BodyFrames - 1 /\ sinceCycle = -1 /\ silent = 0
  /\ ignition = FALSE /\ inCar = FALSE
  /\ temp \in Temps /\ startupOK = FALSE /\ thermalStatus = 2
  /\ started = FALSE /\ startedSeen = FALSE
  /\ offroad = 0 /\ longUp = FALSE /\ doShutdown = FALSE
  /\ managerStarted = FALSE /\ unread = 0 /\ cycleUnseen = FALSE

-----------------------------------------------------------------------------
(* PowerMonitoring.should_shutdown.                                        *)

ShouldShutdownBug(batteryOut) ==  \* DELAY_SHUTDOWN_TIME_S forgotten
  /\ offroad' # 0
  /\ \/ /\ offroad' = MaxTimeOffroad \/ batteryOut
        /\ ~ignition' /\ powerParam # "DisablePowerDown" /\ inCar'
     \/ powerParam = "ForcePowerDown"
  /\ startedSeen' \/ longUp

ShouldShutdownNoMaxBug(batteryOut) ==  \* MAX_TIME_OFFROAD_S forgotten
  /\ offroad' # 0
  /\ \/ /\ batteryOut /\ ~ignition' /\ powerParam # "DisablePowerDown" /\ inCar' /\ offroad' >= Delay
     \/ powerParam = "ForcePowerDown"
  /\ startedSeen' \/ longUp

ShouldShutdown(batteryOut) ==
  /\ offroad' # 0
  /\ \/ /\ offroad' = MaxTimeOffroad \/ batteryOut
        /\ ~ignition' /\ powerParam # "DisablePowerDown" /\ inCar' /\ offroad' >= Delay
     \/ powerParam = "ForcePowerDown"
  /\ startedSeen' \/ longUp

-----------------------------------------------------------------------------
(* hardware_thread.                                                        *)

NotOnroadCycleBug == sinceCycle >= 1  \* ONROAD_CYCLE_TIME taken as a number of frames
NotOnroadCycle == sinceCycle >= CycleFrames

\* OnroadCycleRequested is taken; not_onroad_cycle is false until the time is over.
CountCycle ==
  /\ cycleRequested' = FALSE
  /\ sinceCycle' = (IF cycleRequested THEN 0
                    ELSE IF sinceCycle < CycleFrames THEN sinceCycle + 1 ELSE sinceCycle)
  /\ UNCHANGED <<requests, powerParam>>

\* pandaStates, or none came: panda is "none" or what the pandas report.  After
\* DISCONNECT_TIMEOUT without one the ignition counts as off.
SampleIgnition(panda) ==
  IF panda # "none"
  THEN ignition' = (panda = "ignition") /\ silent' = 0 /\ inCar' = (panda # "noHarness")
  ELSE /\ silent' = (IF silent < SilentFrames THEN silent + 1 ELSE silent)
       /\ ignition' = (ignition /\ silent' < SilentFrames) /\ UNCHANGED inCar

OnroadConditions(status) == ignition' /\ NotOnroadCycle' /\ status < Danger

OffroadFor5Min == ~started /\ (~startedSeen \/ offroad = 0 \/ offroad >= Delay)

ThermalStepStuckBug(t, hotParked) ==  \* OFFROAD_DANGER_TEMP forgotten
  IF OffroadFor5Min THEN Danger
  ELSE IF t < ThermalBands[thermalStatus].min THEN thermalStatus - 1
  ELSE IF t > ThermalBands[thermalStatus].max THEN thermalStatus + 1
  ELSE thermalStatus
ThermalStep(t, hotParked) ==
  IF OffroadFor5Min /\ hotParked THEN Danger
  ELSE IF t < ThermalBands[thermalStatus].min THEN thermalStatus - 1
  ELSE IF t > ThermalBands[thermalStatus].max THEN thermalStatus + 1
  ELSE thermalStatus

ShouldStart(status) ==
  OnroadConditions(status) /\ (started \/ (startupOK' /\ status < Red))

\* From the temperatures to the deviceState message.
Body(t, ok, hotParked, batteryOut) ==
  /\ temp' = t /\ startupOK' = ok
  /\ thermalStatus' = ThermalStep(t, hotParked)
  /\ started' = ShouldStart(thermalStatus') /\ startedSeen' = (startedSeen \/ started')
  /\ offroad' = (IF started' THEN 0 ELSE IF offroad = 0 THEN 1 ELSE offroad)
  /\ doShutdown' = ShouldShutdown(batteryOut)
  /\ cycleUnseen' = (cycleUnseen \/ (started /\ ~started' /\ managerStarted /\ ~NotOnroadCycle'))
  /\ UNCHANGED longUp

ConditionsEdgeBug == started /\ ~OnroadConditions(thermalStatus) /\ phase' = 0  \* 2 Hz only
\* ign_edge.
ConditionsEdge == started # OnroadConditions(thermalStatus)

\* One turn.  A device that is to shut down is not followed further.
Turn ==
  /\ ~doShutdown /\ unread < ManagerFrames
  /\ unread' = unread + 1 /\ UNCHANGED managerStarted
  /\ phase' = (phase + 1) % BodyFrames
  /\ CountCycle
  /\ \E panda \in {"none", "ignition", "off", "noHarness"} : SampleIgnition(panda)
  /\ IF phase' = 0 \/ ConditionsEdge
     THEN \E t \in Temps, ok, hotParked, batteryOut \in BOOLEAN :
            /\ hotParked => t > OFFROAD_DANGER_TEMP
            /\ Body(t, ok, hotParked, batteryOut)
     ELSE UNCHANGED <<bodyVars, timeVars, doShutdown, cycleUnseen>>

-----------------------------------------------------------------------------
(* The manager, the clock and the world.                                   *)

\* manager_thread takes the last deviceState; messages in between are lost.
ManagerReads ==
  /\ managerStarted' = started /\ unread' = 0 /\ cycleUnseen' = (cycleUnseen /\ started)
  /\ UNCHANGED <<worldVars, loopVars, bodyVars, timeVars, doShutdown>>

ClockOnly == UNCHANGED <<worldVars, loopVars, bodyVars, doShutdown, managerVars>>
OffroadTime == offroad \in 1..Delay /\ offroad' = offroad + 1 /\ UNCHANGED longUp /\ ClockOnly
Uptime == ~longUp /\ longUp' = TRUE /\ UNCHANGED offroad /\ ClockOnly

\* The user or a plugin asks for a cycle of the onroad processes.
RequestCycle ==
  /\ requests < MaxRequests /\ requests' = requests + 1 /\ cycleRequested' = TRUE
  /\ UNCHANGED <<powerParam, loopVars, bodyVars, timeVars, doShutdown, managerVars>>

HardwareNext == Turn \/ ManagerReads \/ OffroadTime \/ Uptime \/ RequestCycle

HardwareSpec == HardwareInit /\ [][HardwareNext]_hardwareVars

\* Both loops turn and the time passes; nothing is asked of the world.
HardwareFairSpec ==
  /\ HardwareSpec /\ WF_hardwareVars(Turn) /\ WF_hardwareVars(ManagerReads)
  /\ WF_hardwareVars(OffroadTime) /\ WF_hardwareVars(Uptime)

-----------------------------------------------------------------------------
(* Properties.                                                             *)

HardwareTypeOK ==
  /\ {cycleRequested, startupOK, ignition, inCar, started, startedSeen,
      longUp, doShutdown, managerStarted, cycleUnseen} \subseteq BOOLEAN
  /\ requests \in 0..MaxRequests /\ powerParam \in PowerParams
  /\ phase \in 0..(BodyFrames - 1) /\ sinceCycle \in -1..CycleFrames
  /\ silent \in 0..SilentFrames /\ temp \in Temps /\ thermalStatus \in 1..Danger
  /\ offroad \in Spans /\ unread \in 0..ManagerFrames

\* A drive ends in the very turn of the loop in which the ignition is lost, pandaStates
\* stay out for the timeout, a cycle is requested or the device is in danger, although
\* most of the loop runs only at 2 Hz (ign_edge).
DriveEndsAtOnce ==
  started => ignition /\ silent < SilentFrames /\ NotOnroadCycle /\ thermalStatus < Danger

\* A drive ended for an onroad cycle does not start again before the manager, which sees
\* only some of the messages, has seen it end: the cycle restarts its processes.
CycleIsSeen == ~(cycleUnseen /\ started)

\* The device is told to power down only when no drive is on, and, unless that is forced,
\* only when the ignition is off and DELAY_SHUTDOWN_TIME_S is over since a drive was on,
\* whatever battery, voltage and uptime say.
ShutdownOnlyParked ==
  [][~doShutdown /\ doShutdown' =>
       /\ ~started'
       /\ powerParam = "ForcePowerDown" \/ (~ignition' /\ ~started /\ offroad >= Delay)]_hardwareVars

\* A device in a car with the ignition on starts in the end, once it has cooled below the
\* lowest band: no order of thermal states, cycles and blocked starts keeps it offroad.
StartsWhenCool ==
  <>[](ignition /\ startupOK /\ temp < 75 /\ ~doShutdown) => <>[]started

\* A device left in a car is powered down in the end, with any battery and any history.
ParkedShutsDown ==
  <>[](~ignition /\ inCar /\ powerParam = "none") => <>doShutdown
=============================================================================
