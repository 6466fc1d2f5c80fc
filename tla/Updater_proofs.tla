---------------------------- MODULE Updater_proofs ----------------------------
(***************************************************************************)
(* What the device runs and may run next, for any number of commits, any   *)
(* AGNOS versions and any number of failures, drives and power losses.     *)
(***************************************************************************)
EXTENDS Updater, TLAPS

Booting == {"down", "mv", "launched"}

\* The flag is only on, or durable, beside a complete and durable tree whose AGNOS is there.
FlagOK ==
  /\ dFlag => flag
  /\ flag => fin \in Versions /\ dFin = fin /\ OSOf[fin] \in {os, slot}
  /\ pc \in Booting => dFin = fin /\ dFlag = flag

\* BASEDIR is complete or between the two mv, and its AGNOS runs once it has booted.
BaseOK ==
  /\ base # Partial
  /\ base = Absent => pc \in {"down", "mv"} /\ flag /\ backup \in Versions
  /\ pc = "mv" => base = Absent
  /\ base # Absent => OSOf[base] \in {os, slot}
  /\ pc \notin Booting => OSOf[base] = os

\* While the finalized copy is made: it is not marked, and what it is made of is known.
StagingOK ==
  /\ pc \in {"mount", "flash", "copied", "sync", "touch"} => ~flag
  /\ pc \in {"agnos", "flash", "finalize", "copied", "sync", "touch"} => merged \in Versions
  /\ pc \in {"finalize", "copied", "sync", "touch"} => OSOf[merged] \in {os, slot}
  /\ pc \in {"sync", "touch"} => fin = merged
  /\ pc = "touch" => dFin = fin

IInv == TypeOK /\ FlagOK /\ BaseOK /\ StagingOK /\ AvailableIsReal

-----------------------------------------------------------------------------

Faults == [request : 0..MaxRequests, fail : 0..MaxFails, drive : 0..MaxDrives, power : 0..MaxPowerOffs]

LEMMA Bounds ==
  /\ MaxVersion \in Nat \ {0} /\ 1 \in Versions /\ MaxSkips \in Nat
  /\ MaxRequests \in Nat /\ MaxFails \in Nat /\ MaxDrives \in Nat /\ MaxPowerOffs \in Nat
  /\ OSOf \in [Versions -> Nat \ {0}]
BY UpdaterAssumption DEF Versions

\* A commit is neither no tree nor half of one.
LEMMA Complete == \A tree \in Versions : tree # Absent /\ tree # Partial
BY UpdaterAssumption DEF Versions, Absent, Partial

\* Counting a fault keeps the counters within their bounds.
LEMMA CountTypes ==
  ASSUME faults \in Faults
  PROVE  /\ Count("request", MaxRequests) => faults' \in Faults
         /\ Count("fail", MaxFails) => faults' \in Faults
         /\ Count("drive", MaxDrives) => faults' \in Faults
         /\ Count("power", MaxPowerOffs) => faults' \in Faults
BY Bounds DEF Count, Faults

\* So does a check that is not followed by a fetch.
LEMMA SkipsTypes == skips \in 0..MaxSkips /\ Check => skips' \in 0..MaxSkips
<1> SUFFICES ASSUME skips \in 0..MaxSkips, Check PROVE skips' \in 0..MaxSkips
  OBVIOUS
<1>1. skips' = skips \/ (~(skips >= MaxSkips) /\ skips' = skips + 1)
  BY DEF Check, TimedOut
<1> QED
  BY <1>1, Bounds

LEMMA InitIInv == Init => IInv
<1> SUFFICES ASSUME Init PROVE IInv
  OBVIOUS
<1>1. faults \in Faults
  BY Bounds DEF Init, Faults
<1>2. os \in {OSOf[v] : v \in Versions} /\ base \in Versions /\ skips \in 0..MaxSkips
  BY Bounds DEF Init
<1>3. TypeOK
  BY <1>1, <1>2, Bounds DEF Faults, Init, TypeOK, Versions, Trees, Absent, Partial, Places
<1>4. FlagOK /\ BaseOK /\ StagingOK /\ AvailableIsReal
  BY Bounds DEF Init, FlagOK, BaseOK, StagingOK, AvailableIsReal, Versions, Absent, Partial, Booting
<1> QED
  BY <1>3, <1>4 DEF IInv

\* One step for each action.
LEMMA StepIInv == IInv /\ [Next]_vars => IInv'
<1> SUFFICES ASSUME IInv, [Next]_vars PROVE IInv'
  OBVIOUS
<1> USE Bounds
    DEF IInv, TypeOK, FlagOK, BaseOK, StagingOK, AvailableIsReal, Versions, Trees, Absent,
        Partial, Booting, Places, disk, overlay, slots, memory, world
<1>1. CASE Start
  BY <1>1 DEF Start, Goto, ClearFlag, Sync
<1>2. CASE InitOverlay
  BY <1>2 DEF InitOverlay, Goto, ClearFlag
<1>3. CASE MountOverlay
  BY <1>3 DEF MountOverlay, Goto, Sync
<1>4. CASE FirstParams
  BY <1>4 DEF FirstParams, UpdateReady
<1>5. CASE Check
  <2>1. skips \in 0..MaxSkips
    OBVIOUS
  <2>2. skips' \in 0..MaxSkips
    BY <1>5, <2>1, SkipsTypes
  <2>3. TypeOK'
    BY <1>5, <2>2 DEF Check
  <2> QED
    BY <1>5, <2>3 DEF Check
<1>6. CASE Report
  BY <1>6 DEF Report, Goto, UpdateReady
<1>7. CASE Wake
  BY <1>7 DEF Wake, Goto
<1>8. CASE Fetch
  BY <1>8 DEF Fetch, Goto, ClearFlag, Sync
<1>9. CASE Checkout
  BY <1>9 DEF Checkout, Except
<1>10. CASE Reset
  BY <1>10 DEF Reset, Goto
<1>11. CASE HandleAgnos
  BY <1>11 DEF HandleAgnos, AgnosNeeded, ClearFlag, Sync
<1>12. CASE Flash
  BY <1>12 DEF Flash, Goto
<1>13. CASE Copy
  BY <1>13 DEF Copy, Goto, ClearFlag
<1>14. CASE CopyDone
  BY <1>14 DEF CopyDone, Goto
<1>15. CASE SyncBefore
  BY <1>15 DEF SyncBefore, Goto, SyncTree, Sync
<1>16. CASE Touch
  <2>1. TypeOK' /\ BaseOK'
    BY <1>16 DEF Touch, Goto
  <2>2. FlagOK'
    BY <1>16 DEF Touch, Goto
  <2>3. StagingOK' /\ AvailableIsReal'
    BY <1>16 DEF Touch, Goto
  <2> QED
    BY <2>1, <2>2, <2>3
<1>17. CASE SyncAfter
  BY <1>17 DEF SyncAfter, Goto, Sync
<1>18. CASE Launch
  <2>1. TypeOK'
    BY <1>18 DEF Launch, LaunchSwaps
  <2>2. FlagOK'
    BY <1>18 DEF Launch, LaunchSwaps
  <2>3. BaseOK'
    <3>1. CASE LaunchSwaps
      <4>1. base' = Absent /\ backup' = base /\ pc' = "mv" /\ flag' = flag /\ flag
        BY <1>18, <3>1 DEF Launch, LaunchSwaps
      <4>2. base \in Versions
        BY <1>18 DEF Launch
      <4> QED
        BY <4>1, <4>2
    <3>2. CASE ~LaunchSwaps
      BY <1>18, <3>2 DEF Launch
    <3> QED
      BY <3>1, <3>2
  <2>4. StagingOK' /\ AvailableIsReal'
    BY <1>18 DEF Launch, LaunchSwaps
  <2> QED
    BY <2>1, <2>2, <2>3, <2>4
<1>19. CASE Move
  <2>1. TypeOK'
    BY <1>19 DEF Move, Goto, Sync
  <2>2. FlagOK'
    BY <1>19 DEF Move, Goto, Sync
  <2>3. BaseOK'
    <3>1. fin \in Versions /\ OSOf[fin] \in {os, slot}
      BY <1>19 DEF Move, Goto
    <3>2. base' = fin /\ pc' = "launched" /\ os' = os /\ slot' = slot
      BY <1>19 DEF Move, Goto
    <3>3. fin # Absent /\ fin # Partial
      BY <3>1, Complete
    <3> QED
      BY <3>1, <3>2, <3>3
  <2>4. StagingOK' /\ AvailableIsReal'
    BY <1>19 DEF Move, Goto, Sync
  <2> QED
    BY <2>1, <2>2, <2>3, <2>4
<1>20. CASE AgnosInit
  BY <1>20 DEF AgnosInit
<1>21. CASE Publish
  BY <1>21 DEF Publish
<1>22. CASE Signal
  <2>1. faults \in Faults
    BY DEF Faults
  <2>2. faults' \in Faults
    BY <1>22, <2>1, CountTypes DEF Signal
  <2>3. TypeOK'
    BY <1>22, <2>2 DEF Signal, Faults, Running
  <2> QED
    BY <1>22, <2>3 DEF Signal, Running
<1>23. CASE Drive
  <2>1. faults \in Faults
    BY DEF Faults
  <2>2. faults' \in Faults
    BY <1>23, <2>1, CountTypes DEF Drive
  <2>3. TypeOK'
    BY <1>23, <2>2 DEF Drive, Faults, Running
  <2> QED
    BY <1>23, <2>3 DEF Drive, Running
<1>24. CASE Kill
  BY <1>24 DEF Kill, Running, Forget
<1>25. CASE Park
  BY <1>25 DEF Park
<1>26. CASE Fail
  <2>1. faults \in Faults
    BY DEF Faults
  <2>2. faults' \in Faults
    BY <1>26, <2>1, CountTypes DEF Fail
  <2>3. TypeOK'
    BY <1>26, <2>2 DEF Fail, Faults, Except
  <2> QED
    BY <1>26, <2>3 DEF Fail, Except
<1>27. CASE PowerLoss
  <2>1. faults \in Faults
    BY DEF Faults
  <2>2. faults' \in Faults
    BY <1>27, <2>1, CountTypes DEF PowerLoss
  <2>3. TypeOK'
    BY <1>27, <2>2 DEF PowerLoss, Faults, Sync, Forget
  <2> QED
    <3>1. FlagOK'
      <4>1. flag' => flag
        BY <1>27 DEF PowerLoss
      <4>2. flag => fin' = fin
        BY <1>27 DEF PowerLoss
      <4>3. dFin' = fin' /\ dFlag' = flag' /\ os' = os /\ slot' = slot
        BY <1>27 DEF PowerLoss, Sync
      <4> QED
        BY <4>1, <4>2, <4>3
    <3>3. BaseOK'
      BY <1>27 DEF PowerLoss, Sync, Forget
    <3>2. StagingOK' /\ AvailableIsReal'
      BY <1>27 DEF PowerLoss, Sync, Forget
    <3> QED
      BY <2>3, <3>1, <3>3, <3>2
<1>28. CASE Install
  <2>1. faults \in Faults
    BY DEF Faults
  <2>2. faults' \in Faults
    BY <1>28, <2>1, CountTypes DEF Install
  <2>3. TypeOK'
    BY <1>28, <2>2 DEF Install, Faults, Sync, Forget
  <2> QED
    BY <1>28, <2>3 DEF Install, Sync, Forget
<1>29. CASE UNCHANGED vars
  BY <1>29 DEF vars
<1> QED
  BY <1>1, <1>2, <1>3, <1>4, <1>5, <1>6, <1>7, <1>8, <1>9, <1>10, <1>11, <1>12, <1>13, <1>14, <1>15, <1>16, <1>17, <1>18, <1>19, <1>20, <1>21, <1>22, <1>23, <1>24, <1>25, <1>26, <1>27, <1>28, <1>29
  DEF Next, UpdaterNext, BootNext

THEOREM Inductive == Spec => []IInv
BY InitIInv, StepIInv, PTL DEF Spec

\* Types and bounds of the updater.
THEOREM UpdaterTypes == Spec => []TypeOK
<1>1. IInv => TypeOK BY DEF IInv
<1> QED BY Inductive, <1>1, PTL

\* Whatever is killed, fails or loses power when, BASEDIR is complete or both trees are.
THEOREM InstallSafety == Spec => []NeverHalfInstalled
<1>1. IInv => NeverHalfInstalled
  BY DEF IInv, FlagOK, BaseOK, NeverHalfInstalled
<1> QED BY Inductive, <1>1, PTL

\* A tree that is installed finds the AGNOS it needs, running or in the other slot.
THEOREM OSSafety == Spec => []OSIsReady
<1>1. IInv => OSIsReady
  BY UpdaterAssumption DEF IInv, BaseOK, OSIsReady, Versions, Absent
<1> QED BY Inductive, <1>1, PTL

\* The param says no more than the flag, although a drive outlives the process that wrote it.
THEOREM AvailableSafety == Spec => []AvailableIsReal
<1>1. IInv => AvailableIsReal BY DEF IInv
<1> QED BY Inductive, <1>1, PTL
=============================================================================
