# Verification of catpilot: TLA+ models, TLC runs, TLAPS proofs

catpilot is a driver assistance stack for a comma device: some dozens of processes that
talk over publish/subscribe messages and a file based key-value store, started and
stopped by one manager, driving a car through safety hardware (pandas) that has the last
word. This directory models the control logic of its core: who decides that openpilot is
engaged and at which speed, how the driver is kept attentive, how the safety hardware
gets into the car's mode, when the device starts a drive and powers down, what the
key-value store promises, how processes are started and stopped, how plugins are loaded,
how an update is installed and how files are uploaded.

Paths are relative to the repository (`src/`). Names in the modules are the source's
names wherever TLA+ allows it. A definition whose name ends in `Bug` is a mutated form of
the definition after it; the table of mutants in `PROJECT.json` says which property each
one must break.

## 1. Inventory

### Modelled components

| Component | State | Operations | Talks to |
|---|---|---|---|
| **selfdrived** (`selfdrive/selfdrived/selfdrived.py`, `state.py`, `selfdrive/car/car_specific.py`) | engagement state, soft disable timer, mismatch counters, excessive actuation latch, previous carState, frame | one 100 Hz step: data_sample, update_events, StateMachine.update; restart | reads carState, pandaStates and the SubMaster checks; writes Offroad_ExcessiveActuation |
| **card and cruise speed** (`selfdrive/car/cruise.py`, `card.py`) | set speed, button timers and states, previous frame | update_v_cruise, initialize_v_cruise, card's frame; the frames of selfdrived and controlsd around it | carState to selfdrived, carControl back from controlsd |
| **driver monitoring** (`selfdrive/monitoring/helpers.py`, `dmonitoringd.py`) | awareness of both modes, distraction filter, counters of red alerts, lockout | run_step on each packet of the driver camera, the always-on toggle, restart | reads carState and selfdriveState; writes events and DriverTooDistracted |
| **safety handshake** (`selfdrive/pandad/pandad.cc`, `panda_safety.cc`, `selfdrive/car/card.py`, `system/manager/manager.py`) | six params, safety mode of each panda, pandad's flags, where card and the manager are | onroad transition, OBD multiplexing requests, FirmwareQueryDone / CarParams / ControlsReady, the 10 Hz pandad loop, restart of pandad | manager, card and pandad share params only |
| **hardwared and power monitoring** (`system/hardware/hardwared.py`, `power_monitoring.py`) | ignition, thermal status, started, the time offroad, the cycle counter | one turn of hardware_thread, the onroad cycle, the decision to power down | pandaStates in, deviceState out to the manager, DoShutdown |
| **params** (`common/params.cc`, `params.h`, `queue.h`) | a file per key, temporary files, a lock, what is on disk, the queue of asynchronous writes | put, remove, clearAll, readAll, putNonBlocking, asyncWriteThread, the destructor | used by every process |
| **manager** (`system/manager/manager.py`, `process.py`, `process_config.py`) | handle, shutting_down and life of each process, the running list, the exit requests | ensure_running, start, stop, restart, report, manager_cleanup, SIGTERM | reads deviceState and params; signals its children |
| **plugin registry** (`selfdrive/plugins/registry.py`, `hooks.py`, `manifest.py`, `api.py`) | loaded plugins and hook table of each process, `.disabled` markers | load_enabled, load_plugin, unload_plugin, enable and disable over REST, hooks.run | plugind's poll and REST threads share one registry; other processes have one each |
| **updater** (`system/updated/updated.py`, `launch_chffrplus.sh`) | BASEDIR, the backup, the overlay, the finalized tree and its flag, the AGNOS slots | check, fetch, finalize, init_overlay, the swap at boot | git remote; killed by drives; UpdateAvailable |
| **athena uploads** (`system/athena/athenad.py`) | priority queue, cancelled ids, retry counts, the cached copy | request, cancel, the upload threads with retry and abort, lost connections, restart | RPC threads and upload threads share the queue |

### Behaviours that are hard

* Engagement is decided by the *order* in which event types are looked at, on events some
  of which are edges and some levels, with a catch-all that depends on what is on the
  list already.
* The set speed is initialised by card in a frame later than the one selfdrived engaged
  on, from whatever buttons card has seen by then.
* Driver monitoring swaps two timers whenever the camera loses or finds a face, decides
  the lockout a frame after the alert that causes it, and learns of disengagements, as
  selfdrived does of the lockout, from messages.
* The handshake is a protocol over params: nothing but the order of the writes and the
  clearing at the start of a drive keeps CarParams of the last drive from opening the
  safety mode early.
* hardwared does most of its work in every fifth turn only, and the manager sees only the
  last deviceState.
* Params must survive kills and power losses at any system call, and its writer thread
  races its own caller.
* The manager must never block on a child and never start one twice, and children may
  ignore SIGINT.
* Plugins are loaded by two threads with no lock, in an order that dependencies and
  conflicts depend on, and an import may fail half way.
* An update is copied, marked and swapped in by commands that may be killed or lose power
  at any point, with an operating system in a slot of its own that has to match.
* An upload may be retried, aborted, put back and cancelled by different threads.

The places where this bites are listed with their lines under `hazards` in
`PROJECT.json`, with the properties that cover each or the reason none does.

### Not modelled

| Component | Why not, or when |
|---|---|
| alert manager | decides only which text is shown and for how long; the event types, which decide about control, are in Selfdrived |
| lane change and long control state machines | next in the plan (section 5); the controllers, planners and radar tracks around them compute on real numbers |
| plugind's process manager, update checker, bus and builder | the process manager (pid files, orphans) is in the plan; the rest is I/O |
| params thread of selfdrived | a race on LongitudinalPersonality, listed as a hazard; it changes no engagement |
| messaging, panda firmware, car interfaces | in submodules (msgq, panda, opendbc) that are not in the tree; taken as inputs |
| pandad transport, sensors, cameras, GPS, encoders, logging, statistics | drivers, framing and pure I/O |
| localization, calibration | filters over real numbers, out of TLC's reach |
| driving and monitoring networks, user interface, sounds | no control logic others rely on |

A large part of the repository's lines is user interface, drivers, tools and numerical
code of these kinds.

## 2. The modules

### Selfdrived

One `Step` is one call of `SelfdriveD.step`: it takes a carState (a new one or, after a
receive timeout, the previous one) and the contents of the SubMaster, counts panda
mismatches, computes the events, runs the state machine and publishes. `Restart` is the
process ended and started again, keeping only the param. An event is kept when its set of
event types (`EventTypes`, from `EVENTS`) differs from those already kept or a rule of
the loop mentions it. `FromDisabled` and `FromEngaged` are the two halves of
`StateMachine.update`, in its order of tests; `WithCommIssue` is the catch-all of
`update_events`. Brands with rules of their own, replay and dashcam modes are left out.

The settings of the car and of the user (`pcmCruise`, `disengageOnAccelerator`) are
variables that keep their initial choice. Constants are the inputs (`CarStates`,
`SubMasters`), the pandas and the five limits of the source (300, 200, 600 steps and so
on), so that the proofs hold for the source's values and TLC uses small ones.

`Engagement` is what controlsd, card and the driver may rely on, over the two flags
selfdrived publishes: openpilot engages only with nothing against it, keeps control on
while it is engaged, lets go only when told to or when a soft disabling reason has lasted
`Grace` steps, and never later. It has neither the five states nor the timer. Selfdrived
is checked and proved to implement it (`ImplementsEngagement`), with `left`, the steps
control may still go on under a reason, read off the state and the timer: a reason that is
there when preEnabled ends costs control its first step one step later than one that
arrives in control, and no other order of the states buys more.

### CruiseSpeed

Card, selfdrived and controlsd as one pipeline on a car whose buttons openpilot handles.
`CardFrame` is a frame of card: the helper's update of the set speed, the publication of carState and
the initialisation when carControl says that openpilot has been enabled. A step of
selfdrived reads the newest carState, and card may be `MaxLag` frames ahead of it. Every
reason to engage or disengage that is not about buttons is a free choice of selfdrived.
A frame carries at most one button event, whose press or release raises `buttonEnable`.
`SwitchedAlone` is an assumption about the driver: no cruise button is held while the
main switch is off. Without it `EngagedSpeedIsSet` fails, because card looks at no
buttons then; the hazard at `cruise.py:46` describes it.

`resuming` and `late` are history: whether selfdrived engaged on a resume button, and
whether card did not see that in its next frame. In time, the previous carState of card is
the one selfdrived engaged on, as the comment on `card.py:191` says, and `ResumeRestores`
says what follows. Late, it is another frame's: a resume may then take the speed of the
car and a set the last speed, and the property asks only that it is one of the two.

### DriverMonitoring

One `Frame` is one packet: `_update_states`, `_set_timers`, `_update_events` in the
source's order, then the publication and, when the lockout is reached, the param. The
param is written at once: the source queues the write, but nothing reads the param
before a restart of the process, whose `~Params` waits for its queue. Awareness
is counted in passive steps; the filter is the first order filter of the source in units
of `1 / FilterUnit`, rounded down, with its gain and its two thresholds as constants. What
the camera makes of the driver is an input. `Restart` is a new drive, `Ignition` the clear
of the param.

dmonitoringd and selfdrived know each other from messages. `HearState` brings dmonitoringd
the current `enabled`, after any number of frames decided on an older one (`heard`).
`ReadPacket` brings selfdrived the last packet, which decides whether `Engage` is allowed
(`entry`): tooDistracted and an invalid packet refuse entry. The one bound on lag is that
selfdrived, at 100 Hz, reads a packet before dmonitoringd, at 20 Hz, sends the next.

Two behaviours of the code limit what the properties can say. The lockout is decided in
the frame after the last red alert, so a disengagement and engagement before selfdrived
has read that frame's packet allow one engagement and one red alert more than
`_MAX_TERMINAL_ALERTS`. And one distracted frame adds only 1/6 to the filter, which stays
below 0.37: distracted frames that are rare enough among frames without a face (one in
three or four) count as attentive and raise awareness, so that such a driver is never
urged. `NothingGivenBack` therefore speaks of a low filter and a usable face, and
`InattentiveIsUrged` leaves frames that count as attentive out.

Left out: the uncertain camera alert and the demo mode
of the driver view. The driver view of the small device also clears the param; that is
not an ignition and not modelled.

### SafetyHandshake

Manager, card and pandad as three actors over six params; each access another process
can fall between is a step, so pandad's fetch (`FetchReady`) falls between any two of
card's writes. Its own three reads are one step: within a drive the params it reads only
go from absent to present, so reads made at different times see no more than the last of
them would. `carParams` and `modeOf` hold the number of the
drive they come from, which is all the properties tell apart. The restart of pandad may
or may not close the relays.

Three facts of timing are guards, named in the module's head comment: pandad turns its
10 Hz loop while the manager, at 2 Hz, is offroad; a card told to stop is gone by the
next drive; ignition that went off stays off until the manager has gone offroad. The code
has no other protection where they fail. A pandad that misses the offroad period keeps
what it remembers of the last drive (`panda_safety.cc:16`), and ignition that flickers
faster than the manager's loop closes the relays in a drive that goes on, whose mode is
then not set again (`pandad.cc:258`). Both are described here only: the model excludes
them, and no property is about them.

### Hardwared

A `Turn` is one turn of `hardware_thread` at the rate of pandaStates. Every turn looks
at the panda, the ignition timeout and a requested onroad cycle; `Body`, the rest of the
loop, runs at 2 Hz and whenever the onroad conditions disagree with `started`. The source
compares with the wish, not with the result: while a start is refused by the startup
conditions Body runs in every turn, and `off_ts` is not set anew, and so it does here.
`ManagerReads` is the manager's read of the last deviceState, at most `ManagerFrames`
turns after the one before. Temperatures and "the battery is low or used up" are inputs,
and time offroad is counted in the spans its thresholds cut it into. A behaviour is one
uptime of the device. The battery estimate itself, IsEngaged, the uptime counters, the
fan and the modem thread are left out: no decision modelled here reads them.

### Updater

One action per command of `updated.py` and `launch_chffrplus.sh` between which power can
be lost: a tree is a commit, `Absent` or `Partial` (a copy or removal that was
interrupted). `fin` and `flag` are what the processes see, `dFin` and `dFlag` what the
last `os.sync` made durable; a power loss chooses between the two. `Kill` is a drive, which
ends `updated` at any step; a failed command goes to `Except`. `merged = Partial` is an
overlay whose git lock was left over. The swap of the AGNOS slots is one step, the remote
has one branch, and a request that arrives before the report of the round is dropped, as
`WaitTimeHelper` clears it.

### AthenaUploads

RPC workers accept and cancel uploads; upload threads take the item of highest priority,
check whether it was cancelled or has expired, refuse it on a metered network, upload,
and put it back or drop it after a failure. A step ends where another thread could run
and see the difference; the copy of the queue and its write to the param are one step.
A lost connection sets `endEvent`, on which every thread exits before new ones start on
the same queue. `Crash` is the death of athenad: what is not in the cached copy is
forgotten. `requested`, `finished` and `doomed` are history, read by properties only. The
search for duplicates is left out: every item is asked for once.

### Params and ParamStore

`Params` models each system call of `common/params.cc` another process can fall between:
the synced temporary file, the lock, the rename, the directory sync, the failures of
each. `dir` is what a reader sees, `onDisk` what a power loss may leave of each key:
a rename that is not synced leaves the old and the new file possible, a rename of data
that was not synced leaves `Torn`. The open and the flock of `.lock` are assumed to succeed:
`FileLock` only logs a failure (`params.cc:79-83`) and its caller goes on without the lock,
in which case neither `SnapshotIsConsistent` nor what rests on the order of the changes
holds. A kill drops the lock and the thread; a power loss
drops everything but `onDisk`. The queue and its writer are the process `Owner`'s.

`ParamStore` is what a caller may rely on: whole values, changes visible at once and
durable later. `Params` is both checked and proved to implement it with `store <- dir,
durable <- onDisk` (`ImplementsStore`).

### Manager

A step is the visit of one process in one phase of `ensure_running` or
`manager_cleanup`, or the end of a join. The children crash, exit on SIGINT or ignore it
whenever they like; `deviceState.started` and `IsDriverViewEnabled` change at any time;
an exit param or SIGTERM may come in. `instances` counts live processes whether the
manager has a handle on them or not, which is what makes `OneInstance` more than a typing
statement. `unwanted` counts successive iterations in which a process was not to run.

### PluginRegistry

Registries are plugind's and one for each `Lazy` process, filled by its first hook call.
A step is one decision of `load_enabled` or the registration of one hook, so that a REST
request meets the poll loop in the middle of a load, and an import fails between two
registrations. `hooks.run` calls the chain one callback at a time, any of which may
raise. `steady` holds the plugins that have been disabled since the poll in progress
began: it is history, read by properties only.

### Composition

The components meet in params and messages. SafetyHandshake composes the manager, card
and pandad where they interact; CruiseSpeed composes card, selfdrived and controlsd;
Hardwared has the manager's reading of deviceState in it, which closes the way from the
pandas' ignition to the manager's `started`, an input of Manager; DriverMonitoring has
the answers of selfdrived in it, over messages. Params says what each param access of
those protocols may be taken to be (atomic and visible at once, by `ImplementsStore`);
the asynchronous write of ControlsReady is modelled in SafetyHandshake by a writer step
of its own, as `Params!putNonBlocking` would have it.

## 3. What the runs check

| Run | States | Properties and what they say |
|---|---|---|
| `selfdrived` | 18,756 | `EnabledOnlyWithCruise`: on a pcm cruise car engagement never outlives the car's cruise, although pcmDisable does not bar entry and is not computed on bad CAN; `NeverActiveWhileBraking`; `CommFailureDisables`: no order of events masks a failed check; `ImplementsEngagement`: never engaged against a reason, never let go without one, never in control too long under one; `ExcessiveActuationBarsEntry`: the latch is in the param as long as it is set, so that a restart keeps it, and bars entry until dismissed; `LastingReasonsEndControl`: a lasting soft disable condition or latch ends control for good |
| `cruise_speed` | 359,430 | `EngagedSpeedIsSet`: openpilot never controls to an unset speed; `ResumeRestores`: resume brings back the last speed and set takes the speed of the car, if card sees the engagement in time, and one of the two if not |
| `monitoring` | 325,356 | `TerminalAlertsBounded`: at most one red alert beyond the limit, however late the messages; `RedUntilDisengaged`; `NothingGivenBack`: no order of dodging the camera gives awareness back; `LockedOutUntilIgnition`, once selfdrived has read of it; `InattentiveIsUrged`: a driver who stays inattentive is told so for good |
| `handshake` | 12,192 | `CarModeIsThisDrives`, also when pandad restarts; until it does, `ObdHandshake` (the port is switched for a request only, and acknowledged only when it is switched), `ObdRequestAnswered`, `CarModeReached` |
| `hardwared` | 222,700 | `DriveEndsAtOnce`, in the very turn; `CycleIsSeen` by the manager; `ShutdownOnlyParked`; `StartsWhenCool`; `ParkedShutsDown` |
| `params` | 566,456 | `AckedIsDurable`, `SnapshotIsConsistent`, `LastQueuedWins`, `ImplementsStore` under kills and a power loss |
| `manager` | 208,817 | `OneInstance`, `WantedIsRunningOrReported`, `NoneLeftOver` (what is not wanted, or left at the end, is dead), `ExitCarriedOut`, `CrashedComesBack` |
| `plugins` | 406,155 | `DisabledIsUnloaded`, `EnabledIsLoaded`, `DefaultOrWholeChain` |
| `updater` | 190,458 | `NeverHalfInstalled`, `OSIsReady`: the tree in BASEDIR finds its AGNOS; `UpdateReadyInTheEnd`: an update is ready again in the end, also after installs |
| `athena_uploads` | 298,660 | `OneOwner`: an accepted upload is in the queue or with one thread, never lost and never twice; `CancelledNotUploaded`; `AllFinished` |

Two runs end in a counterexample, each a disagreement between the code and what the
repository says of it:

* `params_destructor`: `assert(queue.empty())` (`params.cc:103`) fails when a write is
  pushed after the writer's last empty `try_pop` and before its future is ready. The
  write is never made.
* `plugins_unload`: "Unload a plugin and unregister its hooks" (`registry.py:186`) leaves
  the hooks of a plugin whose import failed half way.

Other places where the model shows a behaviour a reader may not expect, and the
repository promises nothing else, are hazards with a note: an update that is offered but
not installed after a failed check (`updated.py:253`), conflicting plugins that load
together (`manifest.py:121`), uploads that are in flight when athenad dies
(`athenad.py:162`), and pandad restarting in the middle of an OBD request
(`panda_safety.cc:36`).

### Bounds, and why they are enough

* Selfdrived: a configured panda and a spare one; fourteen carStates (every pedal, door
  and button, alone and in the pairs the rules combine, and bad CAN with the cruise lost
  and with a pressed brake); six SubMaster
  contents (all well, and each kind of failure); both kinds of car and either accelerator
  setting. Timers of two and three steps are long enough to be armed, to run down part of
  the way and be abandoned, and to run out. Counters saturate or are reset, so nothing
  cuts the state space.
* CruiseSpeed: set speeds 2 to 8 with steps of 1 and 3, so that both limits and the
  rounding of a long step are met; a long press of two frames; card one frame ahead, which
  is enough to see an engagement late.
* DriverMonitoring: five units of passive awareness, two to an active step, with every
  threshold between them; a filter in sixths that gains a third of a distracted frame, so
  that one such frame leaves it low and two do not; two red alerts or three frames of red
  until the lockout; selfdriveState late by any number of frames.
* SafetyHandshake: two drives (a stale param needs an earlier one), two requests (enable
  and disable), two pandas of which one is switched to the OBD port, one restart.
* Hardwared: a temperature in three bands, of which one lies in an overlap; cycles of three
  turns with a body in every second, so that a cycle may begin and end off the body; one
  requested cycle; a manager that may miss every second deviceState.
* Params: two processes, two keys and two values (an overwrite with another value), three
  operations, a queue of two, one kill and one power loss; keys and values are symmetric,
  which is sound since no liveness is checked.
* Manager: one process of each of three kinds (always and restarted, onroad, driver
  view), two crashes, three changes of the inputs. No process's visit reads another's
  state, so three show every neighbourhood: before, at and after the visited one.
* PluginRegistry: a plugin that needs another, discovered before it, so that both passes
  matter; two requests (a change and its reversal); one failed import; a second hook to
  fail between. Longer chains are described by a hazard.
* Updater: three commits of which the second needs another AGNOS and the third the first
  one again, so that a flashed slot may be for the wrong commit; one failed command, one
  drive, one request and two reboots or power losses, the second within what the first
  left.
* AthenaUploads: two items of different priority, one of them allowed on a metered
  network; two upload threads and one RPC thread; one retry; one death of athenad; any
  number of lost connections.

### Fairness, and why the code justifies it

* Selfdrived: weak fairness of `Step`. The Ratekeeper turns the loop; `data_sample`'s
  receive has a timeout. Nothing is assumed of the inputs.
* DriverMonitoring: packets keep coming (`FrameSent`, the mark of a `Frame` among the
  steps); what they say is free. Messages
  arrive: `HearState` and `ReadPacket` are what both loops do with the last message in
  every turn. `InattentiveIsUrged` is about an engaged, moving car whose driver looks away
  or is distracted and touches nothing, and none of whose frames counts as attentive. Its conclusion is any alert from orange on: a driver
  who hides the face after the orange alert freezes the timer, so red need not come.
* SafetyHandshake: pandad's loop turns, the manager finishes an iteration it has begun,
  card goes on. That fingerprinting asks for the port to be *released* again is the
  call at the end of `Car.__init__`, so it is owed (`RequestObd /\ obdMultiplexingEnabled`);
  further requests are not. Ignition owes nothing. `ObdHandshake`, `ObdRequestAnswered`
  and `CarModeReached` are stated for a pandad that has not restarted, and do not hold
  otherwise: a hazard at `panda_safety.cc:36` describes the two interleavings.
* Hardwared: the loop turns, the manager reads, time passes. Temperatures, ignition and
  pandas owe nothing; the liveness properties name what has to last.
* Manager: the manager's own steps. Nothing is asked of a child: `JoinTimeout` is the
  manager's step, so exits are carried out although children ignore SIGINT.
* PluginRegistry: plugind's poll and what its two threads have begun. Requests and hook
  calls are never owed.
* Updater: updated goes on when it runs, a boot ends, a drive kills updated and ends in
  the end. No request is owed, and failures and power losses are bounded: a device whose
  every fetch fails has no update.
* AthenaUploads: each upload thread and each operation of a worker goes on, threads exit
  on `endEvent` and athenad connects again. Nothing is asked of the network: retries are
  counted, and dropping an item is finishing it.
* Params, CruiseSpeed: safety only, no fairness.

`CHECK_DEADLOCK FALSE` appears where a bound on drives, operations or requests ends the
behaviour, or where the manager or the device is done.

## 4. What is proved

All theorems are `Spec => []...` (or an action property, or the refinement) for every
value of the constants that satisfies the module's assumptions.

| Module | Theorems | Inductive invariant, and why the property alone is not inductive |
|---|---|---|
| `Selfdrived_proofs` | `TypeCorrect`, `BrakeSafety`, `CruiseSafety`, `MismatchSafety`, `CommSafety`, `EntrySafety`, `LatchSafety`, `EngagementRefined` | `IInv`: `enabled` and `active` agree with the state (`FlagsOK`); an uninitialized loop is disabled; the latch is in the param as long as it is set; the timer runs while softDisabling (`TimerRuns`). The brake property needs the flags, since a step that is not initialized leaves them alone, and CS_prev, since only an edge disengages at standstill. Lemmas on the event table, the state machine (`DisableWins`, `EntryNeeds`, `PreEnableHolds`) and the catch-all (`CatchAll`) carry the argument: every disabling event but pcmDisable also refuses entry, and pcmDisable excludes every event that could engage. The refinement maps each step to one action of `Engagement`; `EngagedMachine` says of one call of the state machine what `Hold` and `LetGo` ask. |
| `SafetyHandshake_proofs` | `HandshakeTypes`, `CarModeSafety`, `ObdSafety` | `HandshakeInv`: card and its queued write exist only onroad, CarParams and ControlsReady follow card's progress, and after the clear nothing of the last drive is left, neither param nor mode. `ObdInv` on top of it, for the OBD requests: pandad forgets what it did as soon as it has seen the device offroad, and sees it before the next drive (`LoopOK`, which needs the first timing guard); card and pandad agree on the request except while card waits, when the acknowledgement is there just if they agree (`RequestOK`); and the port is open only where pandad has served a request (`PortOK`). |
| `Params_proofs` | `ParamsTypes`, `AckedSafety`, `SnapshotSafety`, `QueueSafety`, `Refinement` | `Inv`: one thread holds the lock (`Mutex`), and at each step of put what the steps before have established (`PutOrder`): synced data before the rename, the new value in place until the directory is synced. `QueueOrder` for the queue: the value queued last for a key is the last of it in the queue, else what the writer is about to rename, else in the file. |
| `Manager_proofs` | `ManagerTypes`, `InstanceSafety`, `WantedSafety`, `LeftOverSafety` | `Inv`: for each phase, what the visits up to `i` have established: `Listed` and `Wanted` for the running list and the second loop, `Unwanted` for the first, `Cleaned` for both loops of manager_cleanup. |
| `PluginRegistry_proofs` | `DisabledSafety`, `ChainSafety` | `Inv`: what the unload loop has passed is unloaded (`Passed`, `Picked`), what the poll loads was not disabled at its visit (`PollLoadsUnsteady`), and what the REST thread loads has no marker until its next request (`RestLoadsEnabled`), so neither thread brings back what the loop has unloaded. `ChainInv` for the hooks: the lists of each process that runs hooks are sorted (`ChainsSorted`), it loads once and before its first call (`LoadsOnce`), so that the list does not change under a call, whose value is the part of the list it has been through (`CallFollows`). `RegisterSorted` proves that an insertion keeps a sorted list sorted, with a least position that exists by the well-foundedness of the naturals (`BehindExists`). |
| `Updater_proofs` | `UpdaterTypes`, `InstallSafety`, `OSSafety`, `AvailableSafety` | `IInv`: the flag is on, or durable, only beside a complete and durable tree whose AGNOS is there (`FlagOK`); BASEDIR is empty only between the two moves, with both trees beside it (`BaseOK`); and while a copy is made it is not marked, and is a copy of what was checked out and flashed for (`StagingOK`). What a power loss leaves is decided long before it, so the properties alone know too little. |
| `AthenaUploads_proofs` | `UploadTypes`, `OwnerSafety`, `CancelSafety` | `IInv`: which threads hold an item, place by place (`PlacesOK`); `OneOwner` item by item (`OwnersOK`); an upload cancelled while queued stays on the list until it is dropped (`DoomedOK`), whoever puts it back. |
| `Drive_proofs`, DriverMonitoring | `MonitoringTypes`, `AlertsSafety`, `RedSafety`, `LockoutSafety`, `AwarenessSafety` | `IInv`: the awareness kept for the mode that is off is never red (`KeptOK`); the lockout is in the param and in every valid packet, and bars entry once selfdrived has read what there is to read (`LockoutOK`); at the limit awareness comes back only with the lockout, and one above it openpilot is refused and no disengagement that is heard of can be followed by an engagement (`LimitOK`), which bridges the messages between the alert and the lockout. Lemmas on the operators (`StatesKeep`, `RecoverKeeps`, `CountKeeps`) carry the rest. |
| `Drive_proofs`, Hardwared | `HardwareTypes`, `DriveEndSafety`, `CycleSafety`, `ShutdownSafety` | `HardwareInv`: `DriveEndsAtOnce` itself; a device that drives is not offroad (`NotParked`), which bars the shutdown; a cycle the manager has not seen began after its last read and is still on (`CycleRuns`), which needs `ManagerFrames < CycleFrames`: the manager reads at least once in a cycle. |
| `Drive_proofs`, CruiseSpeed | `CruiseTypes`, `SpeedSafety`, `ResumeSafety` | `CruiseInv`: the speed of the last engagement is kept until the next one, and until card sees an engagement in time its previous carState has the button selfdrived engaged on (`ResumingKept`). `SwitchInv`: a button timer runs only for a button that is held (`TimersFollow`), and while no speed is set no button is held that was pressed during an engagement (`UnsetUntouched`), the one case in which update_v_cruise would start from the unset speed. |

Assumptions: each module's `ASSUME` (types of the constants, distinct special values,
finite bounds as naturals, inputs drawn from the message types). For Selfdrived one is a
fact about the car: an interface that reports button presses as `buttonEnable` is not a
pcm cruise car (`pcm_enable` is `CP.pcmCruise`).

`SpeedSafety` has the hypothesis `SwitchedAlone`, the assumption about the driver stated
in section 2: without it the property is false, and the hazard at `cruise.py:46` says how.
`ResumeSafety` does without it. `ObdHandshake` is stated for a pandad that has not
restarted; the theorem, like the run, says nothing after a restart.

Every safety invariant and action property the passing runs check is stated by a theorem.
Type invariants are theorems rather than properties of runs, except that of
PluginRegistry: `SelectSeq`, by which a plugin's hooks are taken off the lists, computes by
recursion, about which nothing can be proved here. The types its proofs need are in `Inv`
and `ChainInv`.

Only model-checked: every liveness property (`LastingReasonsEndControl`,
`InattentiveIsUrged`, `ObdRequestAnswered`, `CarModeReached`, `StartsWhenCool`,
`ParkedShutsDown`, `ExitCarriedOut`, `CrashedComesBack`, `EnabledIsLoaded`,
`UpdateReadyInTheEnd`, `AllFinished`: the prover has no `ENABLED` and no fairness), and the
two violations. `MismatchSafety`, `AvailableSafety` and `EntrySafety` prove properties that
no run checks: `MismatchEndsEngagement`, `AvailableIsReal`, and `EngagesOnlyWhenClear`,
which `ImplementsEngagement` contains.

The prover has no theorem with an operator as a parameter, so an induction over positions
is written as a least counterexample (`WFMin` of the library) where one is needed. One
proof module serves the three components of a drive that share no state (`Drive_proofs`);
their definitions carry distinct names for it.

## 5. Plan

What is left, most important first:

1. Proofs: an abstract **Install** (the tree and the AGNOS that boot are one of the
   commits, and change together) that Updater implements; what `ObdHandshake` still
   promises after a restart of pandad; the plugin lists of plugind.
2. The small state machines: **DesireHelper** (lane changes, with the blinkers and the
   blind spot) and **LongControl**, with what controlsd sends when engagement ends.
3. The race on LongitudinalPersonality in selfdrived, DaemonProcess in Manager, plugind's
   process manager.
4. **Drive**, composing Hardwared, Manager's transitions and SafetyHandshake: discharges
   the third timing assumption of SafetyHandshake or shows where it fails.
5. Segment rotation, the uploader and the deleter of loggerd.

## 6. Running

    tlc -workers 2 -config MCManager.cfg MCManager     # one run
    tlapm Manager_proofs.tla                           # one proof module

The list of runs with their modules and configurations is in `PROJECT.json`. The longest
run takes about two minutes (`monitoring`, `hardwared`).
