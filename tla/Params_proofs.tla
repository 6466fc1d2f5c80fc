---------------------------- MODULE Params_proofs ----------------------------
(***************************************************************************)
(* For any number of keys, processes, operations, kills and power losses:  *)
(* types, durability of what a caller was told succeeded, consistency of   *)
(* readAll, and that Params implements ParamStore.  The argument is the    *)
(* lock discipline (Mutex) and the order inside put (PutOrder): what a     *)
(* rename makes visible was synced before, and nobody changes the store    *)
(* between a rename and the fsync of the directory.                        *)
(***************************************************************************)
EXTENDS Params, TLAPS

Mutex == \A t \in Threads : Holds(t) <=> lock = t

PutOrder ==
  \A t \in Threads :
    /\ pc[t] \in {"temp", "lock", "rename", "dirsync", "unlink"} => job[t] \in Jobs
    /\ pc[t] \in {"lock", "rename"} => synced[t]
    /\ pc[t] = "unlink" => job[t].value = Absent
    /\ pc[t] = "dirsync" => dir[job[t].key] = job[t].value

Inv ==
  /\ StoreOK /\ ThreadsOK /\ CountersOK
  /\ Mutex /\ PutOrder /\ AckedIsDurable /\ SnapshotIsConsistent

\* Inv holds initially.
LEMMA InitHolds == Init => Inv
<1> USE ParamsAssumption
<1>1. Init => StoreOK BY DEF Init, StoreOK, Content
<1>2. Init => ThreadsOK BY DEF Init, ThreadsOK, Pcs, Threads, Content
<1>3. Init => CountersOK BY DEF Init, CountersOK
<1>4. Init => Mutex /\ PutOrder BY DEF Init, Mutex, PutOrder, Holds, Threads
<1>5. Init => AckedIsDurable /\ SnapshotIsConsistent
  BY DEF Init, AckedIsDurable, SnapshotIsConsistent, Threads
<1>6. QED BY <1>1, <1>2, <1>3, <1>4, <1>5 DEF Inv

\* FsyncTemp preserves Inv.
LEMMA FsyncTempStep ==
  ASSUME Inv, NEW t \in Threads, FsyncTemp(t)
  PROVE  Inv'
<1> USE ParamsAssumption DEF Inv, Threads, storeVars, threadVars, readVars, asyncVars, countVars,
        FsyncTemp, Goto
<1>1. StoreOK' BY DEF StoreOK, ThreadsOK, PutOrder, Content, Jobs
<1>2. ThreadsOK' BY DEF ThreadsOK, StoreOK, Pcs, Content, Jobs
<1>3. CountersOK' BY DEF CountersOK
<1>4. Mutex' BY DEF Mutex, Holds, ThreadsOK
<1>5. PutOrder' BY DEF PutOrder, Mutex, Holds, ThreadsOK, StoreOK, Jobs, Content
<1>6. AckedIsDurable' BY DEF AckedIsDurable, PutOrder, StoreOK, ThreadsOK, Content, Jobs
<1>7. SnapshotIsConsistent' BY DEF SnapshotIsConsistent, Mutex, Holds, ThreadsOK, StoreOK
<1>8. QED BY <1>1, <1>2, <1>3, <1>4, <1>5, <1>6, <1>7

\* LockPut preserves Inv.
LEMMA LockPutStep ==
  ASSUME Inv, NEW t \in Threads, LockPut(t)
  PROVE  Inv'
<1> USE ParamsAssumption DEF Inv, Threads, storeVars, threadVars, readVars, asyncVars, countVars,
        LockPut, Goto, Acquire
<1>1. StoreOK' BY DEF StoreOK, ThreadsOK, PutOrder, Content, Jobs
<1>2. ThreadsOK' BY DEF ThreadsOK, StoreOK, Pcs, Content, Jobs
<1>3. CountersOK' BY DEF CountersOK
<1>4. Mutex' BY DEF Mutex, Holds, ThreadsOK
<1>5. PutOrder' BY DEF PutOrder, Mutex, Holds, ThreadsOK, StoreOK, Jobs, Content
<1>6. AckedIsDurable' BY DEF AckedIsDurable, PutOrder, StoreOK, ThreadsOK, Content, Jobs
<1>7. SnapshotIsConsistent' BY DEF SnapshotIsConsistent, Mutex, Holds, ThreadsOK, StoreOK
<1>8. QED BY <1>1, <1>2, <1>3, <1>4, <1>5, <1>6, <1>7

\* Rename preserves Inv.
LEMMA RenameStep ==
  ASSUME Inv, NEW t \in Threads, Rename(t)
  PROVE  Inv'
<1> USE ParamsAssumption DEF Inv, Threads, storeVars, threadVars, readVars, asyncVars, countVars,
        Rename, Goto, ChangeFile
<1>1. StoreOK' BY DEF StoreOK, ThreadsOK, PutOrder, Content, Jobs
<1>2. ThreadsOK' BY DEF ThreadsOK, StoreOK, Pcs, Content, Jobs
<1>3. CountersOK' BY DEF CountersOK
<1>4. Mutex' BY DEF Mutex, Holds, ThreadsOK
<1>5. PutOrder' BY DEF PutOrder, Mutex, Holds, ThreadsOK, StoreOK, Jobs, Content
<1>6. AckedIsDurable' BY DEF AckedIsDurable, PutOrder, StoreOK, ThreadsOK, Content, Jobs
<1>7. SnapshotIsConsistent' BY DEF SnapshotIsConsistent, Mutex, Holds, ThreadsOK, StoreOK
<1>8. QED BY <1>1, <1>2, <1>3, <1>4, <1>5, <1>6, <1>7

\* DirSync preserves Inv.
LEMMA DirSyncStep ==
  ASSUME Inv, NEW t \in Threads, DirSync(t)
  PROVE  Inv'
<1> USE ParamsAssumption DEF Inv, Threads, storeVars, threadVars, readVars, asyncVars, countVars,
        DirSync, Goto, Finish, Return, Release, SyncDir
<1>1. StoreOK' BY DEF StoreOK, ThreadsOK, PutOrder, Content, Jobs
<1>2. ThreadsOK' BY DEF ThreadsOK, StoreOK, Pcs, Content, Jobs
<1>3. CountersOK' BY DEF CountersOK
<1>4. Mutex' BY DEF Mutex, Holds, ThreadsOK
<1>5. PutOrder' BY DEF PutOrder, Mutex, Holds, ThreadsOK, StoreOK, Jobs, Content
<1>6. AckedIsDurable' BY DEF AckedIsDurable, PutOrder, StoreOK, ThreadsOK, Content, Jobs
<1>7. SnapshotIsConsistent' BY DEF SnapshotIsConsistent, Mutex, Holds, ThreadsOK, StoreOK
<1>8. QED BY <1>1, <1>2, <1>3, <1>4, <1>5, <1>6, <1>7

\* PutFails preserves Inv.
LEMMA PutFailsStep ==
  ASSUME Inv, NEW t \in Threads, PutFails(t)
  PROVE  Inv'
<1> USE ParamsAssumption DEF Inv, Threads, storeVars, threadVars, readVars, asyncVars, countVars,
        PutFails, Goto, Finish, Return
<1>1. StoreOK' BY DEF StoreOK, ThreadsOK, PutOrder, Content, Jobs
<1>2. ThreadsOK' BY DEF ThreadsOK, StoreOK, Pcs, Content, Jobs
<1>3. CountersOK' BY DEF CountersOK
<1>4. Mutex' BY DEF Mutex, Holds, ThreadsOK
<1>5. PutOrder' BY DEF PutOrder, Mutex, Holds, ThreadsOK, StoreOK, Jobs, Content
<1>6. AckedIsDurable' BY DEF AckedIsDurable, PutOrder, StoreOK, ThreadsOK, Content, Jobs
<1>7. SnapshotIsConsistent' BY DEF SnapshotIsConsistent, Mutex, Holds, ThreadsOK, StoreOK
<1>8. QED BY <1>1, <1>2, <1>3, <1>4, <1>5, <1>6, <1>7

\* DirSyncFails preserves Inv.
LEMMA DirSyncFailsStep ==
  ASSUME Inv, NEW t \in Threads, DirSyncFails(t)
  PROVE  Inv'
<1> USE ParamsAssumption DEF Inv, Threads, storeVars, threadVars, readVars, asyncVars, countVars,
        DirSyncFails, Goto, Finish, Return, Release
<1>1. StoreOK' BY DEF StoreOK, ThreadsOK, PutOrder, Content, Jobs
<1>2. ThreadsOK' BY DEF ThreadsOK, StoreOK, Pcs, Content, Jobs
<1>3. CountersOK' BY DEF CountersOK
<1>4. Mutex' BY DEF Mutex, Holds, ThreadsOK
<1>5. PutOrder' BY DEF PutOrder, Mutex, Holds, ThreadsOK, StoreOK, Jobs, Content
<1>6. AckedIsDurable' BY DEF AckedIsDurable, PutOrder, StoreOK, ThreadsOK, Content, Jobs
<1>7. SnapshotIsConsistent' BY DEF SnapshotIsConsistent, Mutex, Holds, ThreadsOK, StoreOK
<1>8. QED BY <1>1, <1>2, <1>3, <1>4, <1>5, <1>6, <1>7

\* Put preserves Inv.
LEMMA PutBegins ==
  ASSUME Inv, NEW c \in Clients, NEW k \in Keys, NEW v \in Values, Put(c, k, v)
  PROVE  Inv'
<1> USE ParamsAssumption DEF Inv, Threads, storeVars, threadVars, readVars, asyncVars, countVars,
        Put, Operate, Goto
<1>1. StoreOK' BY DEF StoreOK, ThreadsOK, PutOrder, Content, Jobs
<1>2. ThreadsOK' BY DEF ThreadsOK, StoreOK, Pcs, Content, Jobs
<1>3. CountersOK' BY DEF CountersOK
<1>4. Mutex' BY DEF Mutex, Holds, ThreadsOK
<1>5. PutOrder' BY DEF PutOrder, Mutex, Holds, ThreadsOK, StoreOK, Jobs, Content
<1>6. AckedIsDurable' BY DEF AckedIsDurable, PutOrder, StoreOK, ThreadsOK, Content, Jobs
<1>7. SnapshotIsConsistent' BY DEF SnapshotIsConsistent, Mutex, Holds, ThreadsOK, StoreOK
<1>8. QED BY <1>1, <1>2, <1>3, <1>4, <1>5, <1>6, <1>7

\* Remove preserves Inv.
LEMMA RemoveStep ==
  ASSUME Inv, NEW c \in Clients, NEW k \in Keys, Remove(c, k)
  PROVE  Inv'
<1> USE ParamsAssumption DEF Inv, Threads, storeVars, threadVars, readVars, asyncVars, countVars,
        Remove, Operate, Goto, Acquire
<1>1. StoreOK' BY DEF StoreOK, ThreadsOK, PutOrder, Content, Jobs
<1>2. ThreadsOK' BY DEF ThreadsOK, StoreOK, Pcs, Content, Jobs
<1>3. CountersOK' BY DEF CountersOK
<1>4. Mutex' BY DEF Mutex, Holds, ThreadsOK
<1>5. PutOrder' BY DEF PutOrder, Mutex, Holds, ThreadsOK, StoreOK, Jobs, Content
<1>6. AckedIsDurable' BY DEF AckedIsDurable, PutOrder, StoreOK, ThreadsOK, Content, Jobs
<1>7. SnapshotIsConsistent' BY DEF SnapshotIsConsistent, Mutex, Holds, ThreadsOK, StoreOK
<1>8. QED BY <1>1, <1>2, <1>3, <1>4, <1>5, <1>6, <1>7

\* ClearAll preserves Inv.
LEMMA ClearAllStep ==
  ASSUME Inv, NEW c \in Clients, ClearAll(c)
  PROVE  Inv'
<1> USE ParamsAssumption DEF Inv, Threads, storeVars, threadVars, readVars, asyncVars, countVars,
        ClearAll, Operate, Goto, Acquire
<1>1. StoreOK' BY DEF StoreOK, ThreadsOK, PutOrder, Content, Jobs
<1>2. ThreadsOK' BY DEF ThreadsOK, StoreOK, Pcs, Content, Jobs
<1>3. CountersOK' BY DEF CountersOK
<1>4. Mutex' BY DEF Mutex, Holds, ThreadsOK
<1>5. PutOrder' BY DEF PutOrder, Mutex, Holds, ThreadsOK, StoreOK, Jobs, Content
<1>6. AckedIsDurable' BY DEF AckedIsDurable, PutOrder, StoreOK, ThreadsOK, Content, Jobs
<1>7. SnapshotIsConsistent' BY DEF SnapshotIsConsistent, Mutex, Holds, ThreadsOK, StoreOK
<1>8. QED BY <1>1, <1>2, <1>3, <1>4, <1>5, <1>6, <1>7

\* ReadAll preserves Inv.
LEMMA ReadAllStep ==
  ASSUME Inv, NEW c \in Clients, ReadAll(c)
  PROVE  Inv'
<1> USE ParamsAssumption DEF Inv, Threads, storeVars, threadVars, readVars, asyncVars, countVars,
        ReadAll, Operate, Goto, Acquire
<1>1. StoreOK' BY DEF StoreOK, ThreadsOK, PutOrder, Content, Jobs
<1>2. ThreadsOK' BY DEF ThreadsOK, StoreOK, Pcs, Content, Jobs
<1>3. CountersOK' BY DEF CountersOK
<1>4. Mutex' BY DEF Mutex, Holds, ThreadsOK
<1>5. PutOrder' BY DEF PutOrder, Mutex, Holds, ThreadsOK, StoreOK, Jobs, Content
<1>6. AckedIsDurable' BY DEF AckedIsDurable, PutOrder, StoreOK, ThreadsOK, Content, Jobs
<1>7. SnapshotIsConsistent' BY DEF SnapshotIsConsistent, Mutex, Holds, ThreadsOK, StoreOK
<1>8. QED BY <1>1, <1>2, <1>3, <1>4, <1>5, <1>6, <1>7

\* Unlink preserves Inv.
LEMMA UnlinkStep ==
  ASSUME Inv, NEW c \in Clients, Unlink(c)
  PROVE  Inv'
<1> USE ParamsAssumption DEF Inv, Threads, storeVars, threadVars, readVars, asyncVars, countVars,
        Unlink, Goto, ChangeFile
<1>1. StoreOK' BY DEF StoreOK, ThreadsOK, PutOrder, Content, Jobs
<1>2. ThreadsOK' BY DEF ThreadsOK, StoreOK, Pcs, Content, Jobs
<1>3. CountersOK' BY DEF CountersOK
<1>4. Mutex' BY DEF Mutex, Holds, ThreadsOK
<1>5. PutOrder' BY DEF PutOrder, Mutex, Holds, ThreadsOK, StoreOK, Jobs, Content
<1>6. AckedIsDurable' BY DEF AckedIsDurable, PutOrder, StoreOK, ThreadsOK, Content, Jobs
<1>7. SnapshotIsConsistent' BY DEF SnapshotIsConsistent, Mutex, Holds, ThreadsOK, StoreOK
<1>8. QED BY <1>1, <1>2, <1>3, <1>4, <1>5, <1>6, <1>7

\* UnlinkFails preserves Inv.
LEMMA UnlinkFailsStep ==
  ASSUME Inv, NEW c \in Clients, UnlinkFails(c)
  PROVE  Inv'
<1> USE ParamsAssumption DEF Inv, Threads, storeVars, threadVars, readVars, asyncVars, countVars,
        UnlinkFails, Goto, Finish, Return, Release
<1>1. StoreOK' BY DEF StoreOK, ThreadsOK, PutOrder, Content, Jobs
<1>2. ThreadsOK' BY DEF ThreadsOK, StoreOK, Pcs, Content, Jobs
<1>3. CountersOK' BY DEF CountersOK
<1>4. Mutex' BY DEF Mutex, Holds, ThreadsOK
<1>5. PutOrder' BY DEF PutOrder, Mutex, Holds, ThreadsOK, StoreOK, Jobs, Content
<1>6. AckedIsDurable' BY DEF AckedIsDurable, PutOrder, StoreOK, ThreadsOK, Content, Jobs
<1>7. SnapshotIsConsistent' BY DEF SnapshotIsConsistent, Mutex, Holds, ThreadsOK, StoreOK
<1>8. QED BY <1>1, <1>2, <1>3, <1>4, <1>5, <1>6, <1>7

\* ClearDone preserves Inv.
LEMMA ClearDoneStep ==
  ASSUME Inv, NEW c \in Clients, ClearDone(c)
  PROVE  Inv'
<1> USE ParamsAssumption DEF Inv, Threads, storeVars, threadVars, readVars, asyncVars, countVars,
        ClearDone, Goto, Finish, Return, Release, SyncDir
<1>1. StoreOK' BY DEF StoreOK, ThreadsOK, PutOrder, Content, Jobs
<1>2. ThreadsOK' BY DEF ThreadsOK, StoreOK, Pcs, Content, Jobs
<1>3. CountersOK' BY DEF CountersOK
<1>4. Mutex' BY DEF Mutex, Holds, ThreadsOK
<1>5. PutOrder' BY DEF PutOrder, Mutex, Holds, ThreadsOK, StoreOK, Jobs, Content
<1>6. AckedIsDurable' BY DEF AckedIsDurable, PutOrder, StoreOK, ThreadsOK, Content, Jobs
<1>7. SnapshotIsConsistent' BY DEF SnapshotIsConsistent, Mutex, Holds, ThreadsOK, StoreOK
<1>8. QED BY <1>1, <1>2, <1>3, <1>4, <1>5, <1>6, <1>7

\* ReadDone preserves Inv.
LEMMA ReadDoneStep ==
  ASSUME Inv, NEW c \in Clients, ReadDone(c)
  PROVE  Inv'
<1> USE ParamsAssumption DEF Inv, Threads, storeVars, threadVars, readVars, asyncVars, countVars,
        ReadDone, Goto, Finish, Return, Release
<1>1. StoreOK' BY DEF StoreOK, ThreadsOK, PutOrder, Content, Jobs
<1>2. ThreadsOK' BY DEF ThreadsOK, StoreOK, Pcs, Content, Jobs
<1>3. CountersOK' BY DEF CountersOK
<1>4. Mutex' BY DEF Mutex, Holds, ThreadsOK
<1>5. PutOrder' BY DEF PutOrder, Mutex, Holds, ThreadsOK, StoreOK, Jobs, Content
<1>6. AckedIsDurable' BY DEF AckedIsDurable, PutOrder, StoreOK, ThreadsOK, Content, Jobs
<1>7. SnapshotIsConsistent' BY DEF SnapshotIsConsistent, Mutex, Holds, ThreadsOK, StoreOK
<1>8. QED BY <1>1, <1>2, <1>3, <1>4, <1>5, <1>6, <1>7

\* ClearOne preserves Inv.
LEMMA ClearOneStep ==
  ASSUME Inv, NEW c \in Clients, NEW k \in Keys, ClearOne(c, k)
  PROVE  Inv'
<1> USE ParamsAssumption DEF Inv, Threads, storeVars, threadVars, readVars, asyncVars, countVars,
        ClearOne, ChangeFile
<1>1. StoreOK' BY DEF StoreOK, ThreadsOK, PutOrder, Content, Jobs
<1>2. ThreadsOK' BY DEF ThreadsOK, StoreOK, Pcs, Content, Jobs
<1>3. CountersOK' BY DEF CountersOK
<1>4. Mutex' BY DEF Mutex, Holds, ThreadsOK
<1>5. PutOrder' BY DEF PutOrder, Mutex, Holds, ThreadsOK, StoreOK, Jobs, Content
<1>6. AckedIsDurable' BY DEF AckedIsDurable, PutOrder, StoreOK, ThreadsOK, Content, Jobs
<1>7. SnapshotIsConsistent' BY DEF SnapshotIsConsistent, Mutex, Holds, ThreadsOK, StoreOK
<1>8. QED BY <1>1, <1>2, <1>3, <1>4, <1>5, <1>6, <1>7

\* ReadOne preserves Inv.
LEMMA ReadOneStep ==
  ASSUME Inv, NEW c \in Clients, NEW k \in Keys, ReadOne(c, k)
  PROVE  Inv'
<1> USE ParamsAssumption DEF Inv, Threads, storeVars, threadVars, readVars, asyncVars, countVars,
        ReadOne
<1>1. StoreOK' BY DEF StoreOK, ThreadsOK, PutOrder, Content, Jobs
<1>2. ThreadsOK' BY DEF ThreadsOK, StoreOK, Pcs, Content, Jobs
<1>3. CountersOK' BY DEF CountersOK
<1>4. Mutex' BY DEF Mutex, Holds, ThreadsOK
<1>5. PutOrder' BY DEF PutOrder, Mutex, Holds, ThreadsOK, StoreOK, Jobs, Content
<1>6. AckedIsDurable' BY DEF AckedIsDurable, PutOrder, StoreOK, ThreadsOK, Content, Jobs
<1>7. SnapshotIsConsistent' BY DEF SnapshotIsConsistent, Mutex, Holds, ThreadsOK, StoreOK
<1>8. QED BY <1>1, <1>2, <1>3, <1>4, <1>5, <1>6, <1>7

\* Push preserves Inv.
LEMMA PushStep ==
  ASSUME Inv, NEW k \in Keys, NEW v \in Values, Push(k, v)
  PROVE  Inv'
<1> USE ParamsAssumption DEF Inv, Threads, storeVars, threadVars, readVars, asyncVars, countVars,
        Push, Operate, Goto
<1>1. StoreOK' BY DEF StoreOK, ThreadsOK, PutOrder, Content, Jobs
<1>2. ThreadsOK' BY DEF ThreadsOK, StoreOK, Pcs, Content, Jobs
<1>3. CountersOK' BY DEF CountersOK
<1>4. Mutex' BY DEF Mutex, Holds, ThreadsOK
<1>5. PutOrder' BY DEF PutOrder, Mutex, Holds, ThreadsOK, StoreOK, Jobs, Content
<1>6. AckedIsDurable' BY DEF AckedIsDurable, PutOrder, StoreOK, ThreadsOK, Content, Jobs
<1>7. SnapshotIsConsistent' BY DEF SnapshotIsConsistent, Mutex, Holds, ThreadsOK, StoreOK
<1>8. QED BY <1>1, <1>2, <1>3, <1>4, <1>5, <1>6, <1>7

\* StartWriter preserves Inv.
LEMMA StartWriterStep ==
  ASSUME Inv, StartWriter
  PROVE  Inv'
<1> USE ParamsAssumption DEF Inv, Threads, storeVars, threadVars, readVars, asyncVars, countVars,
        StartWriter, NoWriter
<1>1. StoreOK' BY DEF StoreOK, ThreadsOK, PutOrder, Content, Jobs
<1>2. ThreadsOK' BY DEF ThreadsOK, StoreOK, Pcs, Content, Jobs
<1>3. CountersOK' BY DEF CountersOK
<1>4. Mutex' BY DEF Mutex, Holds, ThreadsOK
<1>5. PutOrder' BY DEF PutOrder, Mutex, Holds, ThreadsOK, StoreOK, Jobs, Content
<1>6. AckedIsDurable' BY DEF AckedIsDurable, PutOrder, StoreOK, ThreadsOK, Content, Jobs
<1>7. SnapshotIsConsistent' BY DEF SnapshotIsConsistent, Mutex, Holds, ThreadsOK, StoreOK
<1>8. QED BY <1>1, <1>2, <1>3, <1>4, <1>5, <1>6, <1>7

\* Pop preserves Inv.
LEMMA PopStep ==
  ASSUME Inv, Pop
  PROVE  Inv'
<1> USE ParamsAssumption DEF Inv, Threads, storeVars, threadVars, readVars, asyncVars, countVars,
        Pop, Goto
<1>0. Head(queue) \in Jobs /\ Tail(queue) \in Seq(Jobs) BY DEF StoreOK
<1>1. StoreOK' BY <1>0 DEF StoreOK, ThreadsOK, PutOrder, Content, Jobs
<1>2. ThreadsOK' BY <1>0 DEF ThreadsOK, StoreOK, Pcs, Content, Jobs
<1>3. CountersOK' BY DEF CountersOK
<1>4. Mutex' BY DEF Mutex, Holds, ThreadsOK
<1>5. PutOrder' BY <1>0 DEF PutOrder, Mutex, Holds, ThreadsOK, StoreOK, Jobs, Content
<1>6. AckedIsDurable' BY DEF AckedIsDurable, PutOrder, StoreOK, ThreadsOK, Content, Jobs
<1>7. SnapshotIsConsistent' BY DEF SnapshotIsConsistent, Mutex, Holds, ThreadsOK, StoreOK
<1>8. QED BY <1>1, <1>2, <1>3, <1>4, <1>5, <1>6, <1>7

\* PopNothing preserves Inv.
LEMMA PopNothingStep ==
  ASSUME Inv, PopNothing
  PROVE  Inv'
<1> USE ParamsAssumption DEF Inv, Threads, storeVars, threadVars, readVars, asyncVars, countVars,
        PopNothing, Goto
<1>1. StoreOK' BY DEF StoreOK, ThreadsOK, PutOrder, Content, Jobs
<1>2. ThreadsOK' BY DEF ThreadsOK, StoreOK, Pcs, Content, Jobs
<1>3. CountersOK' BY DEF CountersOK
<1>4. Mutex' BY DEF Mutex, Holds, ThreadsOK
<1>5. PutOrder' BY DEF PutOrder, Mutex, Holds, ThreadsOK, StoreOK, Jobs, Content
<1>6. AckedIsDurable' BY DEF AckedIsDurable, PutOrder, StoreOK, ThreadsOK, Content, Jobs
<1>7. SnapshotIsConsistent' BY DEF SnapshotIsConsistent, Mutex, Holds, ThreadsOK, StoreOK
<1>8. QED BY <1>1, <1>2, <1>3, <1>4, <1>5, <1>6, <1>7

\* FutureReady preserves Inv.
LEMMA FutureReadyStep ==
  ASSUME Inv, FutureReady
  PROVE  Inv'
<1> USE ParamsAssumption DEF Inv, Threads, storeVars, threadVars, readVars, asyncVars, countVars,
        FutureReady, Goto
<1>1. StoreOK' BY DEF StoreOK, ThreadsOK, PutOrder, Content, Jobs
<1>2. ThreadsOK' BY DEF ThreadsOK, StoreOK, Pcs, Content, Jobs
<1>3. CountersOK' BY DEF CountersOK
<1>4. Mutex' BY DEF Mutex, Holds, ThreadsOK
<1>5. PutOrder' BY DEF PutOrder, Mutex, Holds, ThreadsOK, StoreOK, Jobs, Content
<1>6. AckedIsDurable' BY DEF AckedIsDurable, PutOrder, StoreOK, ThreadsOK, Content, Jobs
<1>7. SnapshotIsConsistent' BY DEF SnapshotIsConsistent, Mutex, Holds, ThreadsOK, StoreOK
<1>8. QED BY <1>1, <1>2, <1>3, <1>4, <1>5, <1>6, <1>7

\* Destroy preserves Inv.
LEMMA DestroyStep ==
  ASSUME Inv, Destroy
  PROVE  Inv'
<1> USE ParamsAssumption DEF Inv, Threads, storeVars, threadVars, readVars, asyncVars, countVars,
        Destroy, Goto, NoWriter
<1>1. StoreOK' BY DEF StoreOK, ThreadsOK, PutOrder, Content, Jobs
<1>2. ThreadsOK' BY DEF ThreadsOK, StoreOK, Pcs, Content, Jobs
<1>3. CountersOK' BY DEF CountersOK
<1>4. Mutex' BY DEF Mutex, Holds, ThreadsOK
<1>5. PutOrder' BY DEF PutOrder, Mutex, Holds, ThreadsOK, StoreOK, Jobs, Content
<1>6. AckedIsDurable' BY DEF AckedIsDurable, PutOrder, StoreOK, ThreadsOK, Content, Jobs
<1>7. SnapshotIsConsistent' BY DEF SnapshotIsConsistent, Mutex, Holds, ThreadsOK, StoreOK
<1>8. QED BY <1>1, <1>2, <1>3, <1>4, <1>5, <1>6, <1>7

\* Kill preserves Inv.
LEMMA KillStep ==
  ASSUME Inv, NEW c \in Clients, Kill(c)
  PROVE  Inv'
<1> USE ParamsAssumption DEF Inv, Threads, storeVars, threadVars, readVars, asyncVars, countVars,
        Kill
<1>1. StoreOK'
  <2>1. CASE c = Owner BY <2>1 DEF StoreOK
  <2>2. CASE c # Owner BY <2>2 DEF StoreOK
  <2>3. QED BY <2>1, <2>2
<1>2. ThreadsOK' BY DEF ThreadsOK, StoreOK, Pcs, Content, Jobs
<1>3. CountersOK' BY DEF CountersOK
<1>4. Mutex' BY DEF Mutex, Holds, ThreadsOK
<1>5. PutOrder' BY DEF PutOrder, Mutex, Holds, ThreadsOK, StoreOK, Jobs, Content
<1>6. AckedIsDurable' BY DEF AckedIsDurable, PutOrder, StoreOK, ThreadsOK, Content, Jobs
<1>7. SnapshotIsConsistent' BY DEF SnapshotIsConsistent, Mutex, Holds, ThreadsOK, StoreOK
<1>8. QED BY <1>1, <1>2, <1>3, <1>4, <1>5, <1>6, <1>7

\* PowerLoss preserves Inv.
LEMMA PowerLossStep ==
  ASSUME Inv, PowerLoss
  PROVE  Inv'
<1> USE ParamsAssumption DEF Inv, Threads, storeVars, threadVars, readVars, asyncVars, countVars,
        PowerLoss
<1>1. StoreOK' BY DEF StoreOK, ThreadsOK, PutOrder, Content, Jobs
<1>2. ThreadsOK' BY DEF ThreadsOK, StoreOK, Pcs, Content, Jobs
<1>3. CountersOK' BY DEF CountersOK
<1>4. Mutex' BY DEF Mutex, Holds, ThreadsOK
<1>5. PutOrder' BY DEF PutOrder, Mutex, Holds, ThreadsOK, StoreOK, Jobs, Content
<1>6. AckedIsDurable' BY DEF AckedIsDurable, PutOrder, StoreOK, ThreadsOK, Content, Jobs
<1>7. SnapshotIsConsistent' BY DEF SnapshotIsConsistent, Mutex, Holds, ThreadsOK, StoreOK
<1>8. QED BY <1>1, <1>2, <1>3, <1>4, <1>5, <1>6, <1>7

\* Inv is an invariant of the params.
THEOREM ParamsInvariant == Spec => []Inv
<1>1. ASSUME Inv, [Next]_vars
      PROVE  Inv'
  <2>1. ASSUME NEW t \in Threads, PutStep(t) \/ FailStep(t) PROVE Inv'
    BY <1>1, <2>1, FsyncTempStep, LockPutStep, RenameStep, DirSyncStep, PutFailsStep,
       DirSyncFailsStep DEF PutStep, FailStep
  <2>2. ASSUME NEW c \in Clients, BeginStep(c) PROVE Inv'
    BY <1>1, <2>2, PutBegins, RemoveStep, ClearAllStep, ReadAllStep DEF BeginStep
  <2>3. ASSUME NEW c \in Clients, LockedStep(c) PROVE Inv'
    BY <1>1, <2>3, UnlinkStep, UnlinkFailsStep, ClearDoneStep, ReadDoneStep, ClearOneStep,
       ReadOneStep DEF LockedStep
  <2>4. ASSUME AsyncStep PROVE Inv'
    BY <1>1, <2>4, PushStep, StartWriterStep, PopStep, PopNothingStep, FutureReadyStep,
       DestroyStep DEF AsyncStep
  <2>5. ASSUME UNCHANGED vars PROVE Inv'
    <3> USE <1>1, <2>5 DEF vars, storeVars, threadVars, readVars, asyncVars, countVars, Inv
    <3>1. (StoreOK /\ ThreadsOK /\ CountersOK)' BY DEF StoreOK, ThreadsOK, CountersOK
    <3>2. (Mutex /\ PutOrder /\ AckedIsDurable /\ SnapshotIsConsistent)'
      BY DEF Mutex, Holds, PutOrder, AckedIsDurable, SnapshotIsConsistent
    <3>3. QED BY <3>1, <3>2
  <2>6. QED BY <1>1, <2>1, <2>2, <2>3, <2>4, <2>5, KillStep, PowerLossStep DEF Next
<1>2. QED BY InitHolds, <1>1, PTL DEF Spec

\* Types and bounds of the params, for every value of the constants.
THEOREM ParamsTypes == Spec => []TypeOK
  BY ParamsInvariant, PTL DEF Inv, TypeOK

\* What put or remove reported as done survives a power loss.
THEOREM AckedSafety == Spec => []AckedIsDurable
  BY ParamsInvariant, PTL DEF Inv

\* readAll returns the store of one instant, whatever the other processes do.
THEOREM SnapshotSafety == Spec => []SnapshotIsConsistent
  BY ParamsInvariant, PTL DEF Inv

-----------------------------------------------------------------------------
(* The order of the queue.                                                 *)

\* The writer has popped a write and not yet renamed it into place.
Writing == pc[Writer] \in {"temp", "lock", "rename"}

\* The last write of the key that is still queued.
LastInQueue(k, v) ==
  \E i \in 1..Len(queue) :
    /\ queue[i].key = k /\ queue[i].value = v
    /\ \A j \in 1..Len(queue) : j > i => queue[j].key # k

\* The value queued last for a key is the last of it in the queue, else in the writer's
\* hands, else in the file.
QueueOrder ==
  \A k \in Keys : queued[k] # Unknown =>
    \/ LastInQueue(k, queued[k])
    \/ /\ \A i \in 1..Len(queue) : queue[i].key # k
       /\ IF Writing /\ job[Writer].key = k THEN job[Writer].value = queued[k]
          ELSE dir[k] = queued[k]

\* Appending makes the new write the last of its key and of no other.
LEMMA PushOrder ==
  ASSUME Inv, QueueOrder, NEW k \in Keys, NEW v \in Values, Push(k, v)
  PROVE  QueueOrder'
<1> USE ParamsAssumption DEF Inv, Threads, storeVars, Push, Operate, Goto
<1> DEFINE n == Len(queue)
<1>1. /\ n \in Nat /\ Len(queue') = n + 1
      /\ queue'[n + 1].key = k /\ queue'[n + 1].value = v
      /\ \A i \in 1..n : queue'[i] = queue[i]
  BY DEF StoreOK, Jobs, Content
<1>2. UNCHANGED <<dir, job, pc[Writer]>> BY DEF ThreadsOK
<1> SUFFICES ASSUME NEW m \in Keys, queued'[m] # Unknown
             PROVE  \/ LastInQueue(m, queued[m])'
                    \/ /\ \A i \in 1..Len(queue') : queue'[i].key # m
                       /\ IF Writing /\ job[Writer].key = m THEN job[Writer].value = queued'[m]
                          ELSE dir[m] = queued'[m]
  BY <1>2 DEF QueueOrder, Writing
<1>3. CASE m = k
  BY <1>1, <1>3 DEF LastInQueue, StoreOK
<1>4. CASE m # k
  <2>1. queued'[m] = queued[m] BY <1>4 DEF StoreOK
  <2>2. CASE LastInQueue(m, queued[m])
    BY <1>1, <1>4, <2>1, <2>2 DEF LastInQueue
  <2>3. CASE ~LastInQueue(m, queued[m])
    BY <1>1, <1>4, <2>1, <2>3 DEF QueueOrder
  <2> QED BY <2>2, <2>3
<1> QED BY <1>3, <1>4

\* The write that is popped goes into the writer's hands; no later one is passed.
LEMMA PopOrder ==
  ASSUME Inv, QueueOrder, Pop
  PROVE  QueueOrder'
<1> USE ParamsAssumption DEF Inv, Threads, storeVars, Pop, Goto
<1> DEFINE n == Len(queue)
<1>1. /\ n \in Nat \ {0} /\ Len(queue') = n - 1 /\ job'[Writer] = queue[1]
      /\ \A i \in 1..(n - 1) : queue'[i] = queue[i + 1]
  BY DEF StoreOK, ThreadsOK
<1>2. ~Writing /\ Writing' /\ UNCHANGED <<dir, queued>> BY DEF Writing, ThreadsOK
<1> SUFFICES ASSUME NEW k \in Keys, queued[k] # Unknown
             PROVE  \/ LastInQueue(k, queued[k])'
                    \/ /\ \A i \in 1..Len(queue') : queue'[i].key # k
                       /\ IF job'[Writer].key = k THEN job'[Writer].value = queued[k]
                          ELSE dir[k] = queued[k]
  BY <1>2 DEF QueueOrder
<1>3. CASE LastInQueue(k, queued[k])
  <2>1. PICK i \in 1..n : /\ queue[i].key = k /\ queue[i].value = queued[k]
                          /\ \A j \in 1..n : j > i => queue[j].key # k
    BY <1>3 DEF LastInQueue
  <2>2. CASE i = 1
    BY <1>1, <2>1, <2>2
  <2>3. CASE i # 1
    <3>1. i - 1 \in 1..(n - 1) /\ queue'[i - 1] = queue[i] BY <1>1, <2>1, <2>3
    <3>2. \A j \in 1..(n - 1) : j > i - 1 => queue'[j].key # k
      BY <1>1, <2>1
    <3> QED BY <1>1, <1>2, <2>1, <3>1, <3>2 DEF LastInQueue
  <2> QED BY <2>2, <2>3
<1>4. CASE ~LastInQueue(k, queued[k])
  BY <1>1, <1>2, <1>4 DEF QueueOrder
<1> QED BY <1>3, <1>4

\* A step that changes neither the queue nor the writer's job, and no file but of keys
\* about which it takes the claim back, keeps the order.
LEMMA QuietOrder ==
  ASSUME Inv, QueueOrder, UNCHANGED <<queue, job[Writer], Writing>>,
         \A k \in Keys : queued'[k] # Unknown => queued'[k] = queued[k] /\ dir'[k] = dir[k]
  PROVE  QueueOrder'
BY DEF QueueOrder, LastInQueue

\* A put of any thread: the writer's rename brings its write into the file, any other
\* thread's takes the claim back.
LEMMA PutOrderStep ==
  ASSUME Inv, QueueOrder, NEW t \in Threads, PutStep(t) \/ FailStep(t)
  PROVE  QueueOrder'
<1> USE ParamsAssumption DEF Inv, Threads, storeVars, readVars, asyncVars, countVars, Goto
<1>1. CASE FsyncTemp(t)
  BY <1>1, QuietOrder DEF FsyncTemp, Writing, ThreadsOK
<1>2. CASE LockPut(t)
  BY <1>2, QuietOrder DEF LockPut, Writing, ThreadsOK
<1>3. CASE Rename(t) /\ t = Writer
  <2>1. /\ job[Writer] \in Jobs /\ Writing /\ ~Writing' /\ UNCHANGED <<queue, queued, job>>
        /\ dir' = [dir EXCEPT ![job[Writer].key] = job[Writer].value]
    BY <1>3 DEF Rename, ChangeFile, Writing, ThreadsOK, PutOrder
  <2>2. \A k \in Keys : dir'[k] = IF job[Writer].key = k THEN job[Writer].value ELSE dir[k]
    BY <2>1 DEF StoreOK
  <2> QED BY <2>1, <2>2 DEF QueueOrder, LastInQueue
<1>4. CASE Rename(t) /\ t # Writer
  <2>1. job[t] \in Jobs /\ UNCHANGED <<queue, job, Writing>>
    BY <1>4 DEF Rename, Writing, ThreadsOK, PutOrder
  <2>2. \A k \in Keys : queued'[k] # Unknown => queued'[k] = queued[k] /\ dir'[k] = dir[k]
    BY <1>4, <2>1 DEF Rename, ChangeFile, StoreOK, Jobs
  <2> QED BY <2>1, <2>2, QuietOrder
<1>5. CASE PutFails(t) /\ t = Writer
  <2>1. job[Writer] \in Jobs /\ Writing /\ ~Writing' /\ UNCHANGED <<queue, job, dir>>
    BY <1>5 DEF PutFails, Finish, Return, Writing, ThreadsOK, PutOrder
  <2>2. \A k \in Keys : queued'[k] = IF job[Writer].key = k THEN Unknown ELSE queued[k]
    BY <1>5, <2>1 DEF PutFails, StoreOK, Jobs
  <2> QED BY <2>1, <2>2 DEF QueueOrder, LastInQueue
<1>6. CASE PutFails(t) /\ t # Writer
  BY <1>6, QuietOrder DEF PutFails, Finish, Return, Writing, ThreadsOK
<1>7. CASE DirSync(t)
  BY <1>7, QuietOrder DEF DirSync, Finish, Return, SyncDir, Writing, ThreadsOK
<1>8. CASE DirSyncFails(t)
  BY <1>8, QuietOrder DEF DirSyncFails, Finish, Return, Writing, ThreadsOK
<1> QED BY <1>1, <1>2, <1>3, <1>4, <1>5, <1>6, <1>7, <1>8 DEF PutStep, FailStep

\* What a client does under the lock takes back the claim about every key it changes.
LEMMA ClientOrder ==
  ASSUME Inv, QueueOrder, NEW c \in Clients, BeginStep(c) \/ LockedStep(c)
  PROVE  QueueOrder'
<1> USE ParamsAssumption DEF Inv, Threads, storeVars, threadVars, readVars, asyncVars, countVars,
        Goto, Writing
<1>1. CASE BeginStep(c)
  BY <1>1, QuietOrder DEF BeginStep, Put, Remove, ClearAll, ReadAll, Operate, ThreadsOK
<1>2. CASE Unlink(c)
  BY <1>2, QuietOrder DEF Unlink, ChangeFile, StoreOK, ThreadsOK
<1>3. CASE UnlinkFails(c)
  BY <1>3, QuietOrder DEF UnlinkFails, Finish, Return, ThreadsOK
<1>4. CASE ClearDone(c)
  BY <1>4, QuietOrder DEF ClearDone, Finish, Return, SyncDir, ThreadsOK
<1>5. CASE ReadDone(c)
  BY <1>5, QuietOrder DEF ReadDone, Finish, Return, ThreadsOK
<1>6. ASSUME NEW k \in Keys, ClearOne(c, k) PROVE QueueOrder'
  BY <1>6, QuietOrder DEF ClearOne, ChangeFile, StoreOK
<1>7. ASSUME NEW k \in Keys, ReadOne(c, k) PROVE QueueOrder'
  BY <1>7, QuietOrder DEF ReadOne
<1> QED BY <1>1, <1>2, <1>3, <1>4, <1>5, <1>6, <1>7 DEF LockedStep

\* What the writer's life, the destructor and the crashes do.
LEMMA OtherOrder ==
  ASSUME Inv, QueueOrder,
         \/ StartWriter \/ PopNothing \/ FutureReady \/ Destroy \/ PowerLoss \/ UNCHANGED vars
         \/ \E c \in Clients : Kill(c)
  PROVE  QueueOrder'
<1> USE ParamsAssumption DEF Inv, Threads, storeVars, threadVars, readVars, asyncVars, countVars,
        Goto, Writing
<1>1. CASE StartWriter
  BY <1>1, QuietOrder DEF StartWriter, NoWriter, ThreadsOK
<1>2. CASE PopNothing
  BY <1>2, QuietOrder DEF PopNothing, ThreadsOK
<1>3. CASE FutureReady
  BY <1>3, QuietOrder DEF FutureReady, ThreadsOK
<1>4. CASE Destroy
  BY <1>4, QuietOrder DEF Destroy, ThreadsOK
<1>5. CASE PowerLoss
  BY <1>5 DEF PowerLoss, QueueOrder
<1>6. CASE UNCHANGED vars
  BY <1>6, QuietOrder DEF vars
<1>7. ASSUME NEW c \in Clients, Kill(c) PROVE QueueOrder'
  <2>1. CASE c = Owner BY <1>7, <2>1 DEF Kill, QueueOrder
  <2>2. CASE c # Owner BY <1>7, <2>2, QuietOrder DEF Kill, ThreadsOK
  <2> QED BY <2>1, <2>2
<1> QED BY <1>1, <1>2, <1>3, <1>4, <1>5, <1>6, <1>7

\* Of the values queued for a key nobody else changes, the last is the one that stays
\* (putNonBlocking, asyncWriteThread).
THEOREM QueueSafety == Spec => []LastQueuedWins
<1>1. Init => QueueOrder
  BY DEF Init, QueueOrder
<1>2. Inv /\ QueueOrder /\ [Next]_vars => QueueOrder'
  BY PushOrder, PopOrder, PutOrderStep, ClientOrder, OtherOrder DEF Next, AsyncStep
<1>3. Inv /\ QueueOrder => LastQueuedWins
  BY DEF Inv, StoreOK, QueueOrder, LastInQueue, LastQueuedWins, NoWriter, Writing
<1> QED BY ParamsInvariant, <1>1, <1>2, <1>3, PTL DEF Spec

-----------------------------------------------------------------------------
(* The refinement.                                                         *)

\* A step of a thread's put, remove or clearAll is a step of ParamStore or changes nothing
\* ParamStore sees.
LEMMA StepRefines ==
  ASSUME Inv, [Next]_vars
  PROVE  Abstract!SNext \/ UNCHANGED <<dir, onDisk>>
<1> USE ParamsAssumption DEF Inv, Threads, storeVars, Abstract!SNext, Abstract!Content, Content
<1>1. ASSUME NEW t \in Threads, Rename(t)
      PROVE  \E k \in Keys, v \in Content : Abstract!Change(k, v)
  BY <1>1 DEF Rename, Goto, ChangeFile, PutOrder, Jobs, Abstract!Change
<1>2. ASSUME NEW c \in Clients, Unlink(c)
      PROVE  \E k \in Keys, v \in Content : Abstract!Change(k, v)
  BY <1>2 DEF Unlink, Goto, ChangeFile, PutOrder, Jobs, Abstract!Change
<1>3. ASSUME NEW c \in Clients, NEW k \in Keys, ClearOne(c, k)
      PROVE  Abstract!Change(k, Absent)
  BY <1>3 DEF ClearOne, ChangeFile, Abstract!Change
<1>4. ASSUME SyncDir PROVE Abstract!Persist
  BY <1>4 DEF SyncDir, Abstract!Persist
<1>5. ASSUME PowerLoss PROVE Abstract!PowerLoss
  BY <1>5 DEF PowerLoss, Abstract!PowerLoss, StoreOK
<1>6. ASSUME NEW t \in Threads, PutStep(t) \/ FailStep(t)
      PROVE  Abstract!SNext \/ UNCHANGED <<dir, onDisk>>
  BY <1>1, <1>4, <1>6
  DEF PutStep, FailStep, FsyncTemp, LockPut, DirSync, PutFails, DirSyncFails
<1>7. ASSUME NEW c \in Clients, BeginStep(c) PROVE UNCHANGED <<dir, onDisk>>
  BY <1>7 DEF BeginStep, Put, Remove, ClearAll, ReadAll
<1>8. ASSUME NEW c \in Clients, LockedStep(c)
      PROVE  Abstract!SNext \/ UNCHANGED <<dir, onDisk>>
  BY <1>2, <1>3, <1>4, <1>8
  DEF LockedStep, UnlinkFails, ClearDone, ReadDone, ReadOne
<1>9. ASSUME AsyncStep PROVE UNCHANGED <<dir, onDisk>>
  BY <1>9 DEF AsyncStep, Push, StartWriter, Pop, PopNothing, FutureReady, Destroy
<1>10. ASSUME NEW c \in Clients, Kill(c) PROVE UNCHANGED <<dir, onDisk>>
  BY <1>10 DEF Kill
<1>11. CASE UNCHANGED vars BY <1>11 DEF vars
<1>12. QED BY <1>5, <1>6, <1>7, <1>8, <1>9, <1>10, <1>11 DEF Next

\* Params implements ParamStore: a reader only ever sees whole values somebody wrote,
\* across kills and power losses.
THEOREM Refinement == Spec => ImplementsStore
<1>1. Init => Abstract!SInit BY DEF Init, Abstract!SInit
<1>2. QED BY <1>1, ParamsInvariant, StepRefines, PTL DEF Spec, ImplementsStore, Abstract!SSpec
=============================================================================
