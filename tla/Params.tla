------------------------------- MODULE Params --------------------------------
(***************************************************************************)
(* common/params.cc: the key-value store every process shares, one file    *)
(* per key.  Clients are processes with a Params object of their own; one  *)
(* of them, Owner, also writes through putNonBlocking, whose queue is      *)
(* drained by the asyncWriteThread, here the thread Writer.  A step is one *)
(* system call another process can fall between.  Processes are killed and *)
(* the power is lost at any step.                                          *)
(*                                                                         *)
(* The open and the flock of .lock are assumed to succeed.  FileLock only  *)
(* logs it when one fails (params.cc:79-83) and its caller goes on without *)
(* the lock: readAll may then mix two instants, and a clearAll or remove   *)
(* may fall between the steps of a put.                                    *)
(***************************************************************************)
EXTENDS Naturals, Sequences

CONSTANTS
  Keys, Values,
  ClearKeys,        \* the keys with the flag clearAll is called with
  Absent,           \* no file for the key
  Torn,             \* a file whose data never reached the disk
  Clients, Owner, Writer,
  Free,             \* nobody holds the lock
  Unknown,          \* no claim about the key
  NoJob,            \* no put or remove yet
  MaxOps, MaxQueue, MaxKills, MaxLosses  \* bounds

Threads == Clients \cup {Writer}
Content == Values \cup {Absent}

ASSUME ParamsAssumption ==
  /\ Absent \notin Values /\ Torn \notin Content /\ Unknown \notin Content
  /\ Owner \in Clients /\ Writer \notin Clients /\ Free \notin Threads
  /\ ClearKeys \subseteq Keys
  /\ MaxOps \in Nat /\ MaxQueue \in Nat /\ MaxKills \in Nat /\ MaxLosses \in Nat

VARIABLES
  dir,      \* the content of each key's file
  onDisk,   \* what each key may hold after a power loss
  pc,       \* where each thread is
  job,      \* the key and value of each thread's put or remove
  synced,   \* the thread's temporary file is on disk
  lock,     \* holder of the flock on .lock
  pending,  \* keys clearAll or readAll has still to visit
  snapshot, \* what readAll has read
  queue,    \* the SafeQueue of Owner's Params
  queued,   \* the last value queued for each key since it was changed otherwise
  acked,    \* the last change of each key a caller was told succeeded
  ops, kills, losses

storeVars == <<dir, onDisk>>
threadVars == <<pc, job, synced, lock>>
readVars == <<pending, snapshot>>
asyncVars == <<queue, queued>>
countVars == <<ops, kills, losses>>
vars == <<storeVars, threadVars, readVars, asyncVars, acked, countVars>>

\* Definitions whose name ends in Bug are mutated forms of the next definition.

Init ==
  /\ dir = [k \in Keys |-> Absent] /\ onDisk = [k \in Keys |-> {Absent}]
  /\ pc = [t \in Threads |-> IF t = Writer THEN "none" ELSE "idle"]
  /\ job = [t \in Threads |-> NoJob]
  /\ synced = [t \in Threads |-> FALSE] /\ lock = Free
  /\ pending = [t \in Threads |-> {}] /\ snapshot = [t \in Threads |-> [k \in Keys |-> Absent]]
  /\ queue = <<>> /\ queued = [k \in Keys |-> Unknown]
  /\ acked = [k \in Keys |-> Unknown]
  /\ ops = 0 /\ kills = 0 /\ losses = 0

-----------------------------------------------------------------------------
(* Helpers.                                                                *)

Goto(t, from, to) == pc[t] = from /\ pc' = [pc EXCEPT ![t] = to]

\* Where a thread goes when its put is over: the writer pops the next one.
Return(t) == IF t = Writer THEN "pop" ELSE "idle"
Finish(t, from) == Goto(t, from, Return(t))

Acquire(t) == lock = Free /\ lock' = t
Release(t) == lock' = Free

\* A rename or an unlink changes the file seen at once, the one on disk perhaps.
ChangeFile(k, v, kept) ==
  /\ dir' = [dir EXCEPT ![k] = v]
  /\ onDisk' = [onDisk EXCEPT ![k] = @ \cup {kept}]
  /\ acked' = [acked EXCEPT ![k] = Unknown]

\* fsync of the directory.
SyncDirBug == UNCHANGED storeVars
SyncDir == onDisk' = [k \in Keys |-> {dir[k]}] /\ UNCHANGED dir

Operate(c) == c \in Clients /\ pc[c] = "idle" /\ ops < MaxOps /\ ops' = ops + 1

-----------------------------------------------------------------------------
(* put: temporary file, fsync, lock, rename, fsync of the directory.       *)

Put(c, k, v) ==
  /\ Operate(c) /\ Goto(c, "idle", "temp")
  /\ job' = [job EXCEPT ![c] = [key |-> k, value |-> v]]
  /\ synced' = [synced EXCEPT ![c] = FALSE]
  /\ UNCHANGED <<storeVars, lock, readVars, asyncVars, acked, kills, losses>>

FsyncTempBug(t) ==
  /\ Goto(t, "temp", "lock")
  /\ UNCHANGED <<storeVars, job, synced, lock, readVars, asyncVars, acked, countVars>>
\* write and fsync of the temporary file succeed.
FsyncTemp(t) ==
  /\ Goto(t, "temp", "lock")
  /\ synced' = [synced EXCEPT ![t] = TRUE]
  /\ UNCHANGED <<storeVars, job, lock, readVars, asyncVars, acked, countVars>>

LockPutBug(t) ==
  /\ Goto(t, "lock", "rename")
  /\ UNCHANGED <<storeVars, job, synced, lock, readVars, asyncVars, acked, countVars>>
LockPut(t) ==
  /\ Goto(t, "lock", "rename") /\ Acquire(t)
  /\ UNCHANGED <<storeVars, job, synced, readVars, asyncVars, acked, countVars>>

Rename(t) ==
  LET k == job[t].key
      v == job[t].value
  IN  /\ Goto(t, "rename", "dirsync")
      /\ ChangeFile(k, v, IF synced[t] THEN v ELSE Torn)
      /\ queued' = IF t = Writer THEN queued ELSE [queued EXCEPT ![k] = Unknown]
      /\ UNCHANGED <<job, synced, lock, readVars, queue, countVars>>

\* write, fsync or rename fails: the temporary file is unlinked.
PutFails(t) ==
  /\ pc[t] \in {"temp", "rename"} /\ Finish(t, pc[t])
  /\ lock' = IF lock = t THEN Free ELSE lock
  /\ queued' = IF t = Writer THEN [queued EXCEPT ![job[t].key] = Unknown] ELSE queued
  /\ UNCHANGED <<storeVars, job, synced, readVars, queue, acked, countVars>>

\* The change of a put or a remove is on disk; the caller is told.
DirSync(t) ==
  /\ Finish(t, "dirsync") /\ SyncDir /\ Release(t)
  /\ acked' = [acked EXCEPT ![job[t].key] = job[t].value]
  /\ UNCHANGED <<job, synced, readVars, asyncVars, countVars>>

\* fsync_dir fails: put and remove return the error, the change stays visible.
DirSyncFails(t) ==
  /\ Finish(t, "dirsync") /\ Release(t)
  /\ UNCHANGED <<storeVars, job, synced, readVars, asyncVars, acked, countVars>>

-----------------------------------------------------------------------------
(* remove, clearAll and readAll.                                           *)

Remove(c, k) ==
  /\ Operate(c) /\ Goto(c, "idle", "unlink") /\ Acquire(c)
  /\ job' = [job EXCEPT ![c] = [key |-> k, value |-> Absent]]
  /\ UNCHANGED <<storeVars, synced, readVars, asyncVars, acked, kills, losses>>

Unlink(c) ==
  LET k == job[c].key
  IN  /\ Goto(c, "unlink", "dirsync") /\ dir[k] # Absent
      /\ ChangeFile(k, Absent, Absent)
      /\ queued' = [queued EXCEPT ![k] = Unknown]
      /\ UNCHANGED <<job, synced, lock, readVars, queue, countVars>>

UnlinkFails(c) ==
  /\ Finish(c, "unlink") /\ dir[job[c].key] = Absent /\ Release(c)
  /\ UNCHANGED <<storeVars, job, synced, readVars, asyncVars, acked, countVars>>

ClearAll(c) ==
  /\ Operate(c) /\ Goto(c, "idle", "clearing") /\ Acquire(c)
  /\ pending' = [pending EXCEPT ![c] = {k \in ClearKeys : dir[k] # Absent}]
  /\ UNCHANGED <<storeVars, job, synced, snapshot, asyncVars, acked, kills, losses>>

ClearOne(c, k) ==
  /\ pc[c] = "clearing" /\ k \in pending[c]
  /\ pending' = [pending EXCEPT ![c] = @ \ {k}]
  /\ ChangeFile(k, Absent, Absent)
  /\ queued' = [queued EXCEPT ![k] = Unknown]
  /\ UNCHANGED <<threadVars, snapshot, queue, countVars>>

\* The result of clearAll's fsync_dir is not looked at.
ClearDone(c) ==
  /\ Finish(c, "clearing") /\ pending[c] = {} /\ Release(c)
  /\ SyncDir \/ UNCHANGED storeVars
  /\ UNCHANGED <<job, synced, readVars, asyncVars, acked, countVars>>

ReadAll(c) ==
  /\ Operate(c) /\ Goto(c, "idle", "reading") /\ Acquire(c)
  /\ pending' = [pending EXCEPT ![c] = Keys]
  /\ UNCHANGED <<storeVars, job, synced, snapshot, asyncVars, acked, kills, losses>>

ReadOne(c, k) ==
  /\ pc[c] = "reading" /\ k \in pending[c]
  /\ pending' = [pending EXCEPT ![c] = @ \ {k}]
  /\ snapshot' = [snapshot EXCEPT ![c][k] = dir[k]]
  /\ UNCHANGED <<storeVars, threadVars, asyncVars, acked, countVars>>

ReadDone(c) ==
  /\ Finish(c, "reading") /\ pending[c] = {} /\ Release(c)
  /\ snapshot' = [snapshot EXCEPT ![c] = [k \in Keys |-> Absent]]
  /\ UNCHANGED <<storeVars, job, synced, pending, asyncVars, acked, countVars>>

-----------------------------------------------------------------------------
(* putNonBlocking, asyncWriteThread and the destructor.                    *)

PushBug(k, v) ==
  /\ Operate(Owner) /\ Goto(Owner, "idle", "pushed") /\ Len(queue) < MaxQueue
  /\ queue' = IF \E i \in DOMAIN queue : queue[i].key = k THEN queue
              ELSE Append(queue, [key |-> k, value |-> v])
  /\ queued' = [queued EXCEPT ![k] = v]
  /\ UNCHANGED <<storeVars, job, synced, lock, readVars, acked, kills, losses>>
Push(k, v) ==
  /\ Operate(Owner) /\ Goto(Owner, "idle", "pushed") /\ Len(queue) < MaxQueue
  /\ queue' = Append(queue, [key |-> k, value |-> v])
  /\ queued' = [queued EXCEPT ![k] = v]
  /\ UNCHANGED <<storeVars, job, synced, lock, readVars, acked, kills, losses>>

\* No future yet, or a future that is ready.
NoWriter == pc[Writer] \in {"none", "done"}

\* The thread is started on demand.
StartWriter ==
  /\ pc[Owner] = "pushed"
  /\ pc' = [pc EXCEPT ![Owner] = "idle", ![Writer] = IF NoWriter THEN "pop" ELSE @]
  /\ UNCHANGED <<storeVars, job, synced, lock, readVars, asyncVars, acked, countVars>>

Pop ==
  /\ queue # <<>> /\ Goto(Writer, "pop", "temp")
  /\ job' = [job EXCEPT ![Writer] = Head(queue)]
  /\ queue' = Tail(queue)
  /\ synced' = [synced EXCEPT ![Writer] = FALSE]
  /\ UNCHANGED <<storeVars, lock, readVars, queued, acked, countVars>>

\* try_pop finds nothing: the thread's function returns ...
PopNothing ==
  /\ queue = <<>> /\ Goto(Writer, "pop", "returning")
  /\ UNCHANGED <<storeVars, job, synced, lock, readVars, asyncVars, acked, countVars>>

\* ... and then the future becomes ready.
FutureReady ==
  /\ Goto(Writer, "returning", "done")
  /\ UNCHANGED <<storeVars, job, synced, lock, readVars, asyncVars, acked, countVars>>

\* ~Params: future.wait, then the assert.
Destroy ==
  /\ NoWriter /\ Goto(Owner, "idle", "destroyed")
  /\ UNCHANGED <<storeVars, job, synced, lock, readVars, asyncVars, acked, countVars>>

-----------------------------------------------------------------------------
(* Crashes.                                                                *)

\* A process is killed: its lock is released, Owner's thread and queue go with it.
Kill(c) ==
  LET gone == IF c = Owner THEN {Owner, Writer} ELSE {c}
  IN  /\ kills < MaxKills /\ kills' = kills + 1
      /\ pc' = [t \in Threads |-> IF t \notin gone THEN pc[t]
                                  ELSE IF t = Writer THEN "none" ELSE "idle"]
      /\ lock' = IF lock \in gone THEN Free ELSE lock
      /\ IF c = Owner THEN queue' = <<>> /\ queued' = [k \in Keys |-> Unknown]
         ELSE UNCHANGED asyncVars
      /\ UNCHANGED <<storeVars, job, synced, readVars, acked, ops, losses>>

PowerLoss ==
  /\ losses < MaxLosses /\ losses' = losses + 1
  /\ dir' \in [Keys -> Content \cup {Torn}] /\ \A k \in Keys : dir'[k] \in onDisk[k]
  /\ onDisk' = [k \in Keys |-> {dir'[k]}]
  /\ pc' = [t \in Threads |-> IF t = Writer THEN "none" ELSE "idle"]
  /\ lock' = Free /\ queue' = <<>> /\ queued' = [k \in Keys |-> Unknown]
  /\ UNCHANGED <<job, synced, readVars, acked, ops, kills>>

-----------------------------------------------------------------------------
PutStep(t) == FsyncTemp(t) \/ LockPut(t) \/ Rename(t) \/ DirSync(t)
FailStep(t) == PutFails(t) \/ DirSyncFails(t)
BeginStep(c) ==
  \/ \E k \in Keys : (\E v \in Values : Put(c, k, v)) \/ Remove(c, k)
  \/ ClearAll(c) \/ ReadAll(c)
LockedStep(c) ==
  \/ Unlink(c) \/ UnlinkFails(c) \/ ClearDone(c) \/ ReadDone(c)
  \/ \E k \in Keys : ClearOne(c, k) \/ ReadOne(c, k)
AsyncStep ==
  \/ \E k \in Keys, v \in Values : Push(k, v)
  \/ StartWriter \/ Pop \/ PopNothing \/ FutureReady \/ Destroy
Next ==
  \/ \E t \in Threads : PutStep(t) \/ FailStep(t)
  \/ \E c \in Clients : BeginStep(c) \/ LockedStep(c) \/ Kill(c)
  \/ AsyncStep \/ PowerLoss

Spec == Init /\ [][Next]_vars

-----------------------------------------------------------------------------
(* Properties.                                                             *)

Pcs == {"none", "idle", "temp", "lock", "rename", "dirsync", "unlink", "clearing",
        "reading", "pushed", "pop", "returning", "done", "destroyed"}
Jobs == [key : Keys, value : Content]
StoreOK ==
  /\ dir \in [Keys -> Content] /\ onDisk \in [Keys -> SUBSET Content]
  /\ acked \in [Keys -> Content \cup {Unknown}]
  /\ queue \in Seq(Jobs) /\ queued \in [Keys -> Values \cup {Unknown}]
ThreadsOK ==
  /\ pc \in [Threads -> Pcs] /\ job \in [Threads -> Jobs \cup {NoJob}]
  /\ synced \in [Threads -> BOOLEAN] /\ lock \in Threads \cup {Free}
  /\ pending \in [Threads -> SUBSET Keys] /\ snapshot \in [Threads -> [Keys -> Content]]
CountersOK == ops \in 0..MaxOps /\ kills \in 0..MaxKills /\ losses \in 0..MaxLosses
TypeOK == StoreOK /\ ThreadsOK /\ CountersOK

\* The thread is between the flock and its release.
Holds(t) == pc[t] \in {"rename", "dirsync", "unlink", "clearing", "reading"}

\* A put or remove that returned 0 is what the key holds, and what it will hold after
\* a power loss, until somebody changes the key again (put's fsync order).
AckedIsDurable ==
  \A k \in Keys : acked[k] # Unknown => dir[k] = acked[k] /\ onDisk[k] = {acked[k]}

\* readAll returns the store of one instant: what it has read so far is still there,
\* for no put, remove or clearAll gets between its first and its last read.
SnapshotIsConsistent ==
  \A c \in Clients : pc[c] = "reading" =>
    \A k \in Keys \ pending[c] : snapshot[c][k] = dir[k]

\* When the queue is drained and the writer is done, a key nobody else changed holds
\* the value queued last, not an earlier one (putNonBlocking's order).
LastQueuedWins ==
  queue = <<>> /\ NoWriter =>
    \A k \in Keys : queued[k] # Unknown => dir[k] = queued[k]

\* ~Params: no write is left in the queue once the future was waited for.
DestructorAssert == pc[Owner] = "destroyed" => queue = <<>>

\* Params implements ParamStore: whole values only, across kills and power losses.
Abstract == INSTANCE ParamStore WITH store <- dir, durable <- onDisk
ImplementsStore == Abstract!SSpec
=============================================================================
