------------------------------- MODULE Updater -------------------------------
(***************************************************************************)
(* system/updated/updated.py prepares an update in an overlay beside the   *)
(* running tree and marks the finished copy with .overlay_consistent;      *)
(* launch_chffrplus.sh swaps a marked copy in at the next boot, and the    *)
(* AGNOS it needs is flashed into the other slot before.  updated is       *)
(* killed by every drive, its commands fail, and power is lost between any *)
(* two steps; what was written after the last os.sync may then be lost.    *)
(*                                                                         *)
(* Abstractions: one branch, a tree is the number of its commit; renames   *)
(* and .overlay_init are journalled at once; BASEDIR is not modified by    *)
(* hand; the swap of the slots (agnos.py --verify) is one step.            *)
(***************************************************************************)
EXTENDS Integers

CONSTANTS
  MaxVersion,    \* bound: commits of the remote branch
  OSOf,          \* AGNOS_VERSION of each commit
  MaxSkips,      \* checks on a metered connection in three days
  MaxRequests, MaxFails, MaxDrives, MaxPowerOffs  \* bounds on the world

Versions == 1..MaxVersion
Absent == 0
Partial == -1
Trees == Versions \cup {Absent, Partial}

ASSUME UpdaterAssumption ==
  /\ MaxVersion \in Nat \ {0} /\ OSOf \in [Versions -> Nat \ {0}]
  /\ {MaxSkips, MaxRequests, MaxFails, MaxDrives, MaxPowerOffs} \subseteq Nat

VARIABLES
  remote,          \* the head of the remote branch
  base, backup,    \* BASEDIR and old_openpilot
  fin, flag,       \* FINALIZED and its .overlay_consistent, as the processes see them
  dFin, dFlag,     \* the same as of the last os.sync
  overlayInit,     \* .overlay_init is in BASEDIR
  merged,          \* the head of the overlay; Absent: not mounted; Partial: a command in
                   \* it was interrupted and left its lock there
  os, slot,        \* AGNOS that runs, and what is in the other slot
  pc,              \* where updated is, or the boot
  known,           \* branches: the head of the last check
  first,           \* first_run
  updateAvailable, \* the param
  request,         \* user_request
  skips,           \* checks since UpdaterLastFetchTime
  onroad,
  faults           \* how often what went wrong

disk == <<base, backup, fin, flag, dFin, dFlag>>
overlay == <<overlayInit, merged>>
slots == <<os, slot>>
memory == <<known, first, request>>
world == <<remote, onroad, faults>>
vars == <<disk, overlay, slots, memory, world, pc, updateAvailable, skips>>

\* Definitions whose name ends in Bug are mutated forms of the next definition.

Init ==
  /\ remote \in Versions
  /\ base = 1 /\ backup = Absent /\ fin = Absent /\ flag = FALSE /\ dFin = Absent /\ dFlag = FALSE
  /\ overlayInit = FALSE /\ merged = Absent
  /\ os = OSOf[1] /\ slot = Partial
  /\ pc = "off" /\ known = Absent /\ first = TRUE /\ request = "NONE"
  /\ updateAvailable = FALSE /\ skips = 0 /\ onroad = FALSE
  /\ faults = [request |-> 0, fail |-> 0, drive |-> 0, power |-> 0]

Count(kind, max) == faults[kind] < max /\ faults' = [faults EXCEPT ![kind] = @ + 1]
Goto(from, to) == pc = from /\ pc' = to

-----------------------------------------------------------------------------
(* The consistent flag.                                                    *)

Sync == dFin' = fin' /\ dFlag' = flag'

ClearFlagBug == flag' = flag  \* set_consistent_flag(True) in place of False
\* set_consistent_flag(False), with the os.sync around it.
ClearFlag == flag' = FALSE

-----------------------------------------------------------------------------
(* updated: the loop.                                                      *)

\* main: the lock is taken and an old finalized update made invalid.
Start ==
  /\ ~onroad /\ Goto("off", "init")
  /\ ClearFlag /\ UNCHANGED fin /\ Sync
  /\ UNCHANGED <<base, backup, overlay, slots, memory, world, updateAvailable, skips>>

\* init_overlay keeps a mounted overlay, or removes the whole staging area ...
InitOverlay ==
  /\ UNCHANGED <<base, slots, memory, world, skips, overlayInit>>
  /\ IF overlayInit /\ merged # Absent
     THEN Goto("init", "params") /\ UNCHANGED <<disk, merged, updateAvailable>>
     ELSE /\ Goto("init", "mount") /\ updateAvailable' = FALSE
          /\ ClearFlag /\ merged' = Absent
          /\ fin' = (IF fin = Absent THEN Absent ELSE Partial)
          /\ backup' = (IF backup = Absent THEN Absent ELSE Partial)
          /\ dFlag' = flag' /\ dFin' = fin  \* the os.sync comes before the removal

\* ... and mounts a new one over BASEDIR.
MountOverlay ==
  /\ Goto("mount", "params")
  /\ fin' = Absent /\ backup' = Absent /\ merged' = base /\ overlayInit' = TRUE
  /\ UNCHANGED flag /\ Sync
  /\ UNCHANGED <<base, slots, memory, world, updateAvailable, skips>>

UpdateReady == flag /\ base # known

\* set_params at the top of the loop; the first time updated then waits.
FirstParams ==
  /\ pc = "params" /\ pc' = (IF first THEN "wait" ELSE "check") /\ first' = FALSE
  /\ updateAvailable' = UpdateReady
  /\ UNCHANGED <<disk, overlay, slots, known, request, world, skips>>

\* Three days since UpdaterLastFetchTime.
TimedOut == skips >= MaxSkips

\* check_for_update; a metered connection or a user who only wants the check ends it there.
Check ==
  /\ pc = "check" /\ known' = remote
  /\ \/ request = "CHECK" /\ pc' = "report" /\ UNCHANGED skips
     \/ request # "FETCH" /\ ~TimedOut /\ pc' = "report" /\ skips' = skips + 1
     \/ request # "CHECK" /\ pc' = "fetch" /\ UNCHANGED skips
  /\ UNCHANGED <<disk, overlay, slots, first, request, world, updateAvailable>>

\* The set_params at the end; a request that came meanwhile is dropped.
Report ==
  /\ Goto("report", "wait") /\ updateAvailable' = UpdateReady /\ request' = "NONE"
  /\ UNCHANGED <<disk, overlay, slots, known, first, world, skips>>

\* The time is over or the user asked for something.
Wake ==
  /\ Goto("wait", "init")
  /\ UNCHANGED <<disk, overlay, slots, memory, world, updateAvailable, skips>>

\* Both except branches of main.
ExceptBug == pc' = "report" /\ UNCHANGED overlay  \* OVERLAY_INIT.unlink forgotten
Except == pc' = "report" /\ overlayInit' = FALSE /\ UNCHANGED merged

\* A git command, the copy or the download of AGNOS fails.
Fail ==
  /\ pc \in {"mount", "check", "fetch", "checkout", "reset", "flash", "copied"} /\ Except
  /\ Count("fail", MaxFails)
  /\ UNCHANGED <<disk, slots, memory, remote, onroad, updateAvailable, skips>>

-----------------------------------------------------------------------------
(* updated: fetch_update.                                                  *)

Fetch ==
  /\ Goto("fetch", "checkout") /\ updateAvailable' = FALSE
  /\ ClearFlag /\ UNCHANGED fin /\ Sync
  /\ UNCHANGED <<base, backup, overlay, slots, memory, world, skips>>

\* git fetch and checkout: an interrupted command left its lock.
Checkout ==
  /\ pc = "checkout"
  /\ IF merged = Partial THEN Except
     ELSE pc' = "reset" /\ merged' = Partial /\ UNCHANGED overlayInit
  /\ UNCHANGED <<disk, slots, memory, world, updateAvailable, skips>>

Reset ==
  /\ Goto("reset", "agnos") /\ merged' = remote /\ UNCHANGED overlayInit
  /\ UNCHANGED <<disk, slots, memory, world, updateAvailable, skips>>

AgnosNeededBug == slot = Partial  \* the other slot is taken for the right one
AgnosNeeded == OSOf[merged] # os

\* handle_agnos_update: the slot is made unbootable and flashed.
HandleAgnos ==
  /\ pc = "agnos"
  /\ IF AgnosNeeded
     THEN pc' = "flash" /\ slot' = Partial /\ ClearFlag /\ UNCHANGED fin /\ Sync
     ELSE pc' = "finalize" /\ UNCHANGED <<slot, fin, flag, dFin, dFlag>>
  /\ UNCHANGED <<base, backup, overlay, os, memory, world, updateAvailable, skips>>

Flash ==
  /\ Goto("flash", "finalize") /\ slot' = OSOf[merged]
  /\ UNCHANGED <<disk, overlay, os, memory, world, updateAvailable, skips>>

\* finalize_update: the old copy is removed and the new one begun ...
Copy ==
  /\ Goto("finalize", "copied") /\ ClearFlag
  /\ dFlag' = flag' /\ dFin' = fin /\ fin' = Partial
  /\ UNCHANGED <<base, backup, overlay, slots, memory, world, updateAvailable, skips>>

\* ... and is complete.
CopyDone ==
  /\ Goto("copied", "sync") /\ fin' = merged /\ UNCHANGED <<flag, dFin, dFlag>>
  /\ UNCHANGED <<base, backup, overlay, slots, memory, world, updateAvailable, skips>>

SyncTreeBug == UNCHANGED <<dFin, dFlag>>  \* no os.sync before the flag
SyncTree == Sync

\* set_consistent_flag(True): os.sync, touch, os.sync; then UpdaterLastFetchTime.
SyncBefore ==
  /\ Goto("sync", "touch") /\ UNCHANGED <<fin, flag>> /\ SyncTree
  /\ UNCHANGED <<base, backup, overlay, slots, memory, world, updateAvailable, skips>>
Touch ==
  /\ Goto("touch", "synced") /\ flag' = TRUE /\ UNCHANGED <<fin, dFin, dFlag>>
  /\ UNCHANGED <<base, backup, overlay, slots, memory, world, updateAvailable, skips>>
SyncAfter ==
  /\ Goto("synced", "report") /\ UNCHANGED <<fin, flag>> /\ Sync /\ skips' = 0
  /\ UNCHANGED <<base, backup, overlay, slots, memory, world, updateAvailable>>

-----------------------------------------------------------------------------
(* The boot.                                                               *)

LaunchBug == overlayInit /\ fin # Absent /\ backup = Absent  \* the flag is not looked at
\* The three conditions of launch; .overlay_init is newer than BASEDIR/.git.
LaunchSwaps == overlayInit /\ flag /\ backup = Absent

\* The first of the two mv ...
Launch ==
  /\ pc = "down" /\ base # Absent
  /\ IF LaunchSwaps
     THEN pc' = "mv" /\ backup' = base /\ base' = Absent
     ELSE pc' = "launched" /\ UNCHANGED <<base, backup>>
  /\ UNCHANGED <<fin, flag, dFin, dFlag, overlay, slots, memory, world, updateAvailable, skips>>

\* ... and the second.  git clean has removed .overlay_init from the new tree.
Move ==
  /\ Goto("mv", "launched")
  /\ base' = fin /\ fin' = Absent /\ flag' = FALSE /\ overlayInit' = FALSE /\ Sync
  /\ UNCHANGED <<backup, merged, slots, memory, world, updateAvailable, skips>>

\* agnos_init changes the slots and boots again, or the manager starts and clears the param.
AgnosInit ==
  /\ pc = "launched"
  /\ IF OSOf[base] # os /\ slot = OSOf[base]
     THEN pc' = "down" /\ os' = slot /\ slot' = os /\ UNCHANGED updateAvailable
     ELSE pc' = "off" /\ updateAvailable' = FALSE /\ UNCHANGED slots
  /\ UNCHANGED <<disk, overlay, memory, world, skips>>

-----------------------------------------------------------------------------
(* The world.                                                              *)

\* The memory of a process that is gone.
Forget == known' = Absent /\ first' = TRUE /\ request' = "NONE"
Running == pc \notin {"off", "down", "mv", "launched"}

Publish == remote < MaxVersion /\ remote' = remote + 1
  /\ UNCHANGED <<disk, overlay, slots, memory, onroad, faults, pc, updateAvailable, skips>>

\* SIGHUP and SIGUSR1.
Signal ==
  /\ Running /\ Count("request", MaxRequests) /\ request' \in {"CHECK", "FETCH"}
  /\ UNCHANGED <<disk, overlay, slots, known, first, remote, onroad, pc, updateAvailable, skips>>

\* A drive begins: CLEAR_ON_ONROAD_TRANSITION, and then, while updated may still be
\* writing, the manager stops it.
Drive ==
  /\ ~onroad /\ (Running \/ pc = "off") /\ Count("drive", MaxDrives)
  /\ onroad' = TRUE /\ updateAvailable' = FALSE
  /\ UNCHANGED <<disk, overlay, slots, memory, remote, pc, skips>>
Kill ==
  /\ onroad /\ Running /\ pc' = "off" /\ Forget
  /\ UNCHANGED <<disk, overlay, slots, world, updateAvailable, skips>>
Park ==
  /\ onroad /\ pc = "off" /\ onroad' = FALSE
  /\ UNCHANGED <<disk, overlay, slots, memory, remote, faults, pc, updateAvailable, skips>>

\* Power is lost: of what was not synced anything may be gone.
PowerLoss ==
  /\ pc # "down" /\ Count("power", MaxPowerOffs)
  /\ fin' \in {fin, dFin} \cup (IF fin = dFin THEN {} ELSE {Partial}) /\ flag' \in {flag, dFlag}
  /\ Sync /\ pc' = "down" /\ merged' = Absent /\ onroad' = FALSE /\ Forget
  /\ UNCHANGED <<base, backup, overlayInit, slots, remote, updateAvailable, skips>>

\* The user presses INSTALL, which is shown while UpdateAvailable, and the device reboots.
Install ==
  /\ pc = "wait" /\ ~onroad /\ updateAvailable /\ Count("power", MaxPowerOffs)
  /\ UNCHANGED <<fin, flag>> /\ Sync
  /\ pc' = "down" /\ merged' = Absent /\ Forget
  /\ UNCHANGED <<base, backup, overlayInit, slots, remote, onroad, updateAvailable, skips>>

UpdaterNext ==
  \/ Start \/ InitOverlay \/ MountOverlay \/ FirstParams \/ Check \/ Report \/ Wake
  \/ Fetch \/ Checkout \/ Reset \/ HandleAgnos \/ Flash \/ Copy \/ CopyDone
  \/ SyncBefore \/ Touch \/ SyncAfter
BootNext == Launch \/ Move \/ AgnosInit

Next ==
  \/ UpdaterNext \/ BootNext
  \/ Publish \/ Signal \/ Drive \/ Kill \/ Park \/ Fail \/ PowerLoss \/ Install

Spec == Init /\ [][Next]_vars

\* updated and the boot go on, and a drive stops updated and ends.
FairSpec == Spec /\ WF_vars(UpdaterNext) /\ WF_vars(BootNext) /\ WF_vars(Kill) /\ WF_vars(Park)

-----------------------------------------------------------------------------
(* Properties.                                                             *)

Places == {"off", "init", "mount", "params", "wait", "check", "report", "fetch", "checkout", "reset",
           "agnos", "flash", "finalize", "copied", "sync", "touch", "synced", "down", "mv", "launched"}

TypeOK ==
  /\ remote \in Versions /\ {base, backup, fin, dFin, merged} \subseteq Trees
  /\ known \in Versions \cup {Absent}
  /\ {flag, dFlag, overlayInit, first, updateAvailable, onroad} \subseteq BOOLEAN
  /\ os \in {OSOf[v] : v \in Versions} /\ slot \in {OSOf[v] : v \in Versions} \cup {Partial}
  /\ pc \in Places /\ request \in {"NONE", "CHECK", "FETCH"} /\ skips \in 0..MaxSkips
  /\ faults \in [request : 0..MaxRequests, fail : 0..MaxFails, drive : 0..MaxDrives, power : 0..MaxPowerOffs]

\* Whatever is killed, fails or loses power when, the tree the device runs is a complete
\* one; power lost between the two mv leaves no BASEDIR, but both trees complete beside it.
NeverHalfInstalled ==
  /\ base # Partial
  /\ base = Absent => backup \in Versions /\ fin \in Versions /\ fin = dFin

\* A tree is only swapped in when the AGNOS it needs runs or is complete in the other slot.
OSIsReady == base \in Versions => OSOf[base] \in {os, slot}

\* While updated waits, UpdateAvailable, which outlives it, says no more than the flag does.
AvailableIsReal == pc = "wait" /\ updateAvailable => flag /\ fin \in Versions

\* The newest commit is installed or ready to be again and again, before and after any number
\* of installs: no kill, failed command, lock or metered connection keeps the updater from it
\* for good.  Only power lost between the two mv does: then no BASEDIR ever comes back.
UpdateReadyInTheEnd ==
  []<>(base # Absent) => []<>(base = remote \/ (flag /\ fin = remote))
=============================================================================
