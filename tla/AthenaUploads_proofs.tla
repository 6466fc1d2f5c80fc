------------------------ MODULE AthenaUploads_proofs -------------------------
(***************************************************************************)
(* Who owns an upload, for any number of items, threads, retries and       *)
(* deaths of athenad.                                                      *)
(***************************************************************************)
EXTENDS AthenaUploads, TLAPS

\* What a thread works on, place by place; only accepted uploads are ever cached.
PlacesOK ==
  /\ \A t \in Uploaders : pc[t] # "cancel" /\ (item[t] # NoItem <=> pc[t] \in {"check", "upload"})
  /\ \A w \in Workers : pc[w] \notin {"check", "upload"} /\ (pc[w] = "cancel" => item[w] \in Items)
  /\ DOMAIN cached \subseteq requested

\* OneOwner, item by item.
OwnersOK ==
  /\ \A t, u \in Uploaders : item[t] = item[u] /\ item[t] # NoItem => t = u
  /\ \A t \in Uploaders : item[t] # NoItem => item[t] \notin queue /\ item[t] \in requested \ finished
  /\ queue \subseteq requested \ finished
  /\ \A i \in requested \ finished : i \in queue \/ \E t \in Uploaders : item[t] = i

\* A doomed upload stays on the list until it is dropped.
DoomedOK == doomed \subseteq cancelled \cup finished

IInv == TypeOK /\ PlacesOK /\ OwnersOK /\ DoomedOK /\ CancelledNotUploaded

-----------------------------------------------------------------------------

LEMMA Bounds ==
  /\ MAX_RETRY_COUNT \in Nat /\ MaxCrashes \in Nat /\ NoItem \notin Items
  /\ \A t \in Uploaders : t \notin Workers
BY UploadsAssumption

\* The cache holds retry counts of some of the items.
LEMMA CountsMember ==
  ASSUME NEW S \in SUBSET Items, NEW f \in [S -> 0..MAX_RETRY_COUNT]
  PROVE  f \in Counts
BY DEF Counts

LEMMA CachedCounts ==
  ASSUME cached \in Counts
  PROVE  DOMAIN cached \subseteq Items /\ \A i \in DOMAIN cached : cached[i] \in 0..MAX_RETRY_COUNT
BY DEF Counts

LEMMA InitIInv == Init => IInv
<1> SUFFICES ASSUME Init PROVE IInv
  OBVIOUS
<1>1. cached \in [{} -> 0..MAX_RETRY_COUNT] /\ DOMAIN cached = {}
  BY DEF Init
<1>2. cached \in Counts
  BY <1>1, CountsMember
<1>3. TypeOK
  <2>1. retries \in [Items -> 0..MAX_RETRY_COUNT] /\ crashes \in 0..MaxCrashes
    BY Bounds DEF Init
  <2>2. pc \in [Threads -> Pcs] /\ item \in [Threads -> Items \cup {NoItem}]
    BY DEF Init, Pcs
  <2> QED
    BY <1>2, <2>1, <2>2 DEF Init, TypeOK
<1>4. PlacesOK /\ OwnersOK /\ DoomedOK /\ CancelledNotUploaded
  BY <1>1 DEF Init, PlacesOK, OwnersOK, DoomedOK, CancelledNotUploaded, Threads
<1> QED
  BY <1>3, <1>4 DEF IInv

LEMMA CacheStep ==
  ASSUME IInv, NEW t \in Threads, Cache(t)
  PROVE  IInv'
<1> USE Bounds DEF IInv, Cache, Goto, memory, threadVars, history, Threads
<1>1. cached' \in Counts
  BY CountsMember DEF TypeOK
<1>2. TypeOK'
  BY <1>1 DEF TypeOK, Pcs, PlacesOK, OwnersOK
<1>3. PlacesOK'
  BY DEF TypeOK, PlacesOK, OwnersOK
<1>4. OwnersOK'
  BY DEF TypeOK, PlacesOK, OwnersOK
<1>5. DoomedOK' /\ CancelledNotUploaded'
  BY DEF TypeOK, PlacesOK, OwnersOK, DoomedOK, CancelledNotUploaded
<1> QED
  BY <1>2, <1>3, <1>4, <1>5

LEMMA RequestStep ==
  ASSUME IInv, NEW t \in Workers, NEW i \in Items, Request(t, i)
  PROVE  IInv'
<1> USE Bounds DEF IInv, Request, Goto, memory, threadVars, history, Threads
<1>1. cached' \in Counts
  BY DEF TypeOK
<1>2. TypeOK'
  BY <1>1 DEF TypeOK, Pcs, PlacesOK, OwnersOK
<1>3. PlacesOK'
  BY DEF TypeOK, PlacesOK, OwnersOK
<1>4. OwnersOK'
  BY DEF TypeOK, PlacesOK, OwnersOK
<1>5. DoomedOK' /\ CancelledNotUploaded'
  BY DEF TypeOK, PlacesOK, OwnersOK, DoomedOK, CancelledNotUploaded
<1> QED
  BY <1>2, <1>3, <1>4, <1>5

LEMMA CancelStep ==
  ASSUME IInv, NEW t \in Workers, NEW i \in Items, Cancel(t, i)
  PROVE  IInv'
<1> USE Bounds DEF IInv, Cancel, Goto, NotQueued, memory, threadVars, history, Threads
<1>1. cached' \in Counts
  BY DEF TypeOK
<1>2. TypeOK'
  BY <1>1 DEF TypeOK, Pcs, PlacesOK, OwnersOK
<1>3. PlacesOK'
  BY DEF TypeOK, PlacesOK, OwnersOK
<1>4. OwnersOK'
  BY DEF TypeOK, PlacesOK, OwnersOK
<1>5. DoomedOK' /\ CancelledNotUploaded'
  BY DEF TypeOK, PlacesOK, OwnersOK, DoomedOK, CancelledNotUploaded
<1> QED
  BY <1>2, <1>3, <1>4, <1>5

LEMMA CancelAddStep ==
  ASSUME IInv, NEW t \in Workers, CancelAdd(t)
  PROVE  IInv'
<1> USE Bounds DEF IInv, CancelAdd, Goto, memory, threadVars, history, Threads
<1>1. cached' \in Counts
  BY DEF TypeOK
<1>2. TypeOK'
  BY <1>1 DEF TypeOK, Pcs, PlacesOK, OwnersOK
<1>3. PlacesOK'
  BY DEF TypeOK, PlacesOK, OwnersOK
<1>4. OwnersOK'
  <2>1. \A u \in Uploaders : item'[u] = item[u]
    BY DEF TypeOK
  <2> QED
    BY <2>1 DEF TypeOK, OwnersOK
<1>5. DoomedOK' /\ CancelledNotUploaded'
  BY DEF TypeOK, PlacesOK, OwnersOK, DoomedOK, CancelledNotUploaded
<1> QED
  BY <1>2, <1>3, <1>4, <1>5

LEMMA TakeStep ==
  ASSUME IInv, NEW t \in Uploaders, NEW i \in Items, Take(t, i)
  PROVE  IInv'
<1> USE Bounds DEF IInv, Take, Goto, memory, threadVars, history, Threads
<1>1. cached' \in Counts
  BY DEF TypeOK
<1>2. TypeOK'
  BY <1>1 DEF TypeOK, Pcs, PlacesOK, OwnersOK
<1>3. PlacesOK'
  BY DEF TypeOK, PlacesOK, OwnersOK
<1>4. OwnersOK'
  BY DEF TypeOK, PlacesOK, OwnersOK
<1>5. DoomedOK' /\ CancelledNotUploaded'
  BY DEF TypeOK, PlacesOK, OwnersOK, DoomedOK, CancelledNotUploaded
<1> QED
  BY <1>2, <1>3, <1>4, <1>5

LEMMA DropCancelledStep ==
  ASSUME IInv, NEW t \in Uploaders, DropCancelled(t)
  PROVE  IInv'
<1> USE Bounds DEF IInv, DropCancelled, Goto, Drop, memory, threadVars, history, Threads
<1>1. cached' \in Counts
  BY DEF TypeOK
<1>2. TypeOK'
  BY <1>1 DEF TypeOK, Pcs, PlacesOK, OwnersOK
<1>3. PlacesOK'
  BY DEF TypeOK, PlacesOK, OwnersOK
<1>4. OwnersOK'
  BY DEF TypeOK, PlacesOK, OwnersOK
<1>5. DoomedOK' /\ CancelledNotUploaded'
  BY DEF TypeOK, PlacesOK, OwnersOK, DoomedOK, CancelledNotUploaded
<1> QED
  BY <1>2, <1>3, <1>4, <1>5

LEMMA ExpireStep ==
  ASSUME IInv, NEW t \in Uploaders, Expire(t)
  PROVE  IInv'
<1> USE Bounds DEF IInv, Expire, Goto, Drop, NotQueued, memory, threadVars, history, Threads
<1>1. cached' \in Counts
  BY DEF TypeOK
<1>2. TypeOK'
  BY <1>1 DEF TypeOK, Pcs, PlacesOK, OwnersOK
<1>3. PlacesOK'
  BY DEF TypeOK, PlacesOK, OwnersOK
<1>4. OwnersOK'
  BY DEF TypeOK, PlacesOK, OwnersOK
<1>5. DoomedOK' /\ CancelledNotUploaded'
  BY DEF TypeOK, PlacesOK, OwnersOK, DoomedOK, CancelledNotUploaded
<1> QED
  BY <1>2, <1>3, <1>4, <1>5

LEMMA StartUploadStep ==
  ASSUME IInv, NEW t \in Uploaders, StartUpload(t)
  PROVE  IInv'
<1> USE Bounds DEF IInv, StartUpload, Goto, NotQueued, memory, threadVars, history, Threads
<1>1. cached' \in Counts
  BY DEF TypeOK
<1>2. TypeOK'
  BY <1>1 DEF TypeOK, Pcs, PlacesOK, OwnersOK
<1>3. PlacesOK'
  BY DEF TypeOK, PlacesOK, OwnersOK
<1>4. OwnersOK'
  BY DEF TypeOK, PlacesOK, OwnersOK
<1>5. DoomedOK' /\ CancelledNotUploaded'
  BY DEF TypeOK, PlacesOK, OwnersOK, DoomedOK, CancelledNotUploaded
<1> QED
  BY <1>2, <1>3, <1>4, <1>5

LEMMA DeferStep ==
  ASSUME IInv, NEW t \in Uploaders, Defer(t)
  PROVE  IInv'
<1> USE Bounds DEF IInv, Defer, Goto, Retry, PutBack, RetryCount, Drop, memory, threadVars, history, Threads
<1>1. cached' \in Counts
  BY DEF TypeOK
<1>2. TypeOK'
  BY <1>1 DEF TypeOK, Pcs, PlacesOK, OwnersOK
<1>3. PlacesOK'
  BY DEF TypeOK, PlacesOK, OwnersOK
<1>4. OwnersOK'
  <2>1. CASE retries[item[t]] < MAX_RETRY_COUNT
    <3>1. queue' = queue \cup {item[t]} /\ item' = [item EXCEPT ![t] = NoItem]
          /\ UNCHANGED <<finished, requested>>
      BY <2>1
    <3>2. item[t] \in Items
      BY DEF TypeOK, PlacesOK
    <3> QED
      BY <3>1, <3>2 DEF TypeOK, PlacesOK, OwnersOK
  <2>2. CASE ~(retries[item[t]] < MAX_RETRY_COUNT)
    <3>1. finished' = finished \cup {item[t]} /\ item' = [item EXCEPT ![t] = NoItem]
          /\ UNCHANGED <<queue, requested>>
      BY <2>2
    <3> QED
      BY <3>1 DEF TypeOK, PlacesOK, OwnersOK
  <2> QED
    BY <2>1, <2>2
<1>5. DoomedOK' /\ CancelledNotUploaded'
  BY DEF TypeOK, PlacesOK, OwnersOK, DoomedOK, CancelledNotUploaded
<1> QED
  BY <1>2, <1>3, <1>4, <1>5

LEMMA UploadedStep ==
  ASSUME IInv, NEW t \in Uploaders, Uploaded(t)
  PROVE  IInv'
<1> USE Bounds DEF IInv, Uploaded, Goto, memory, threadVars, history, Threads
<1>1. cached' \in Counts
  BY DEF TypeOK
<1>2. TypeOK'
  BY <1>1 DEF TypeOK, Pcs, PlacesOK, OwnersOK
<1>3. PlacesOK'
  BY DEF TypeOK, PlacesOK, OwnersOK
<1>4. OwnersOK'
  BY DEF TypeOK, PlacesOK, OwnersOK
<1>5. DoomedOK' /\ CancelledNotUploaded'
  BY DEF TypeOK, PlacesOK, OwnersOK, DoomedOK, CancelledNotUploaded
<1> QED
  BY <1>2, <1>3, <1>4, <1>5

LEMMA FailedStep ==
  ASSUME IInv, NEW t \in Uploaders, Failed(t)
  PROVE  IInv'
<1> USE Bounds DEF IInv, Failed, Goto, Retry, PutBack, RetryCount, Drop, memory, threadVars, history, Threads
<1>1. cached' \in Counts
  BY DEF TypeOK
<1>2. TypeOK'
  BY <1>1 DEF TypeOK, Pcs, PlacesOK, OwnersOK
<1>3. PlacesOK'
  BY DEF TypeOK, PlacesOK, OwnersOK
<1>4. OwnersOK'
  <2>1. CASE retries[item[t]] < MAX_RETRY_COUNT
    <3>1. queue' = queue \cup {item[t]} /\ item' = [item EXCEPT ![t] = NoItem]
          /\ UNCHANGED <<finished, requested>>
      BY <2>1
    <3>2. item[t] \in Items
      BY DEF TypeOK, PlacesOK
    <3> QED
      BY <3>1, <3>2 DEF TypeOK, PlacesOK, OwnersOK
  <2>2. CASE ~(retries[item[t]] < MAX_RETRY_COUNT)
    <3>1. finished' = finished \cup {item[t]} /\ item' = [item EXCEPT ![t] = NoItem]
          /\ UNCHANGED <<queue, requested>>
      BY <2>2
    <3> QED
      BY <3>1 DEF TypeOK, PlacesOK, OwnersOK
  <2> QED
    BY <2>1, <2>2
<1>5. DoomedOK' /\ CancelledNotUploaded'
  BY DEF TypeOK, PlacesOK, OwnersOK, DoomedOK, CancelledNotUploaded
<1> QED
  BY <1>2, <1>3, <1>4, <1>5

LEMMA AbortStep ==
  ASSUME IInv, NEW t \in Uploaders, Abort(t)
  PROVE  IInv'
<1> USE Bounds DEF IInv, Abort, Goto, Retry, PutBack, RetryCount, Drop, memory, threadVars, history, Threads
<1>1. cached' \in Counts
  BY DEF TypeOK
<1>2. TypeOK'
  BY <1>1 DEF TypeOK, Pcs, PlacesOK, OwnersOK
<1>3. PlacesOK'
  BY DEF TypeOK, PlacesOK, OwnersOK
<1>4. OwnersOK'
  <2>1. CASE retries[item[t]] < MAX_RETRY_COUNT
    <3>1. queue' = queue \cup {item[t]} /\ item' = [item EXCEPT ![t] = NoItem]
          /\ UNCHANGED <<finished, requested>>
      BY <2>1
    <3>2. item[t] \in Items
      BY DEF TypeOK, PlacesOK
    <3> QED
      BY <3>1, <3>2 DEF TypeOK, PlacesOK, OwnersOK
  <2>2. CASE ~(retries[item[t]] < MAX_RETRY_COUNT)
    <3>1. finished' = finished \cup {item[t]} /\ item' = [item EXCEPT ![t] = NoItem]
          /\ UNCHANGED <<queue, requested>>
      BY <2>2
    <3> QED
      BY <3>1 DEF TypeOK, PlacesOK, OwnersOK
  <2> QED
    BY <2>1, <2>2
<1>5. DoomedOK' /\ CancelledNotUploaded'
  BY DEF TypeOK, PlacesOK, OwnersOK, DoomedOK, CancelledNotUploaded
<1> QED
  BY <1>2, <1>3, <1>4, <1>5

LEMMA RefusedStep ==
  ASSUME IInv, NEW t \in Uploaders, Refused(t)
  PROVE  IInv'
<1> USE Bounds DEF IInv, Refused, Goto, Drop, NotQueued, memory, threadVars, history, Threads
<1>1. cached' \in Counts
  BY DEF TypeOK
<1>2. TypeOK'
  BY <1>1 DEF TypeOK, Pcs, PlacesOK, OwnersOK
<1>3. PlacesOK'
  BY DEF TypeOK, PlacesOK, OwnersOK
<1>4. OwnersOK'
  BY DEF TypeOK, PlacesOK, OwnersOK
<1>5. DoomedOK' /\ CancelledNotUploaded'
  BY DEF TypeOK, PlacesOK, OwnersOK, DoomedOK, CancelledNotUploaded
<1> QED
  BY <1>2, <1>3, <1>4, <1>5

LEMMA ExitStep ==
  ASSUME IInv, NEW t \in Threads, Exit(t)
  PROVE  IInv'
<1> USE Bounds DEF IInv, Exit, Goto, NotQueued, memory, threadVars, history, Threads
<1>1. cached' \in Counts
  BY DEF TypeOK
<1>2. TypeOK'
  BY <1>1 DEF TypeOK, Pcs, PlacesOK, OwnersOK
<1>3. PlacesOK'
  BY DEF TypeOK, PlacesOK, OwnersOK
<1>4. OwnersOK'
  BY DEF TypeOK, PlacesOK, OwnersOK
<1>5. DoomedOK' /\ CancelledNotUploaded'
  BY DEF TypeOK, PlacesOK, OwnersOK, DoomedOK, CancelledNotUploaded
<1> QED
  BY <1>2, <1>3, <1>4, <1>5

LEMMA DisconnectStep ==
  ASSUME IInv, Disconnect
  PROVE  IInv'
<1> USE Bounds DEF IInv, Disconnect, memory, threadVars, history, Threads
<1>1. cached' \in Counts
  BY DEF TypeOK
<1>2. TypeOK'
  BY <1>1 DEF TypeOK, Pcs, PlacesOK, OwnersOK
<1>3. PlacesOK'
  BY DEF TypeOK, PlacesOK, OwnersOK
<1>4. OwnersOK'
  BY DEF TypeOK, PlacesOK, OwnersOK
<1>5. DoomedOK' /\ CancelledNotUploaded'
  BY DEF TypeOK, PlacesOK, OwnersOK, DoomedOK, CancelledNotUploaded
<1> QED
  BY <1>2, <1>3, <1>4, <1>5

LEMMA ConnectStep ==
  ASSUME IInv, Connect
  PROVE  IInv'
<1> USE Bounds DEF IInv, Connect, memory, threadVars, history, Threads
<1>1. cached' \in Counts
  BY DEF TypeOK
<1>2. TypeOK'
  BY <1>1 DEF TypeOK, Pcs, PlacesOK, OwnersOK
<1>3. PlacesOK'
  BY DEF TypeOK, PlacesOK, OwnersOK
<1>4. OwnersOK'
  BY DEF TypeOK, PlacesOK, OwnersOK
<1>5. DoomedOK' /\ CancelledNotUploaded'
  BY DEF TypeOK, PlacesOK, OwnersOK, DoomedOK, CancelledNotUploaded
<1> QED
  BY <1>2, <1>3, <1>4, <1>5

LEMMA NetworkChangeStep ==
  ASSUME IInv, NetworkChange
  PROVE  IInv'
<1> USE Bounds DEF IInv, NetworkChange, memory, threadVars, history, Threads
<1>1. cached' \in Counts
  BY DEF TypeOK
<1>2. TypeOK'
  BY <1>1 DEF TypeOK, Pcs, PlacesOK, OwnersOK
<1>3. PlacesOK'
  BY DEF TypeOK, PlacesOK, OwnersOK
<1>4. OwnersOK'
  BY DEF TypeOK, PlacesOK, OwnersOK
<1>5. DoomedOK' /\ CancelledNotUploaded'
  BY DEF TypeOK, PlacesOK, OwnersOK, DoomedOK, CancelledNotUploaded
<1> QED
  BY <1>2, <1>3, <1>4, <1>5

LEMMA CrashStep ==
  ASSUME IInv, Crash
  PROVE  IInv'
<1> USE Bounds DEF IInv, Crash, memory, threadVars, history, Threads
<1>1. cached' \in Counts /\ queue' \subseteq Items /\ retries' \in [Items -> 0..MAX_RETRY_COUNT]
  BY CachedCounts DEF TypeOK
<1>2. TypeOK'
  <2>1. pc' \in [Threads -> Pcs] /\ item' \in [Threads -> Items \cup {NoItem}]
    BY DEF Pcs
  <2>2. crashes' \in 0..MaxCrashes
    BY DEF TypeOK
  <2> QED
    BY <1>1, <2>1, <2>2 DEF TypeOK, PlacesOK
<1>3. PlacesOK'
  BY DEF TypeOK, PlacesOK, OwnersOK
<1>4. OwnersOK'
  BY DEF TypeOK, PlacesOK, OwnersOK
<1>5. DoomedOK' /\ CancelledNotUploaded'
  BY DEF TypeOK, PlacesOK, OwnersOK, DoomedOK, CancelledNotUploaded
<1> QED
  BY <1>2, <1>3, <1>4, <1>5

LEMMA StepIInv == IInv /\ [Next]_vars => IInv'
<1> SUFFICES ASSUME IInv, [Next]_vars PROVE IInv'
  OBVIOUS
<1>1. CASE \E w \in Workers : Worker(w)
  <2>1. PICK w \in Workers : Worker(w)
    BY <1>1
  <2> QED
    BY <2>1, RequestStep, CancelStep, CancelAddStep, CacheStep DEF Worker, Threads
<1>2. CASE \E t \in Uploaders : Uploader(t)
  <2>1. PICK t \in Uploaders : Uploader(t)
    BY <1>2
  <2>2. CASE Check(t)
    BY <2>2, DropCancelledStep, ExpireStep, StartUploadStep, DeferStep DEF Check
  <2>3. CASE Upload(t)
    BY <2>3, UploadedStep, FailedStep, AbortStep, RefusedStep DEF Upload
  <2>4. CASE Cache(t) \/ \E i \in Items : Take(t, i)
    BY <2>4, CacheStep, TakeStep DEF Threads
  <2> QED
    BY <2>1, <2>2, <2>3, <2>4 DEF Uploader
<1>3. CASE \E t \in Threads : Exit(t)
  BY <1>3, ExitStep
<1>4. CASE Disconnect \/ Connect \/ NetworkChange \/ Crash
  BY <1>4, DisconnectStep, ConnectStep, NetworkChangeStep, CrashStep
<1>5. CASE UNCHANGED vars
  BY <1>5 DEF vars, memory, threadVars, history, IInv, TypeOK, PlacesOK, OwnersOK, DoomedOK,
     CancelledNotUploaded
<1> QED
  BY <1>1, <1>2, <1>3, <1>4, <1>5 DEF Next

THEOREM Inductive == Spec => []IInv
BY InitIInv, StepIInv, PTL DEF Spec

\* Types and bounds of the upload queue.
THEOREM UploadTypes == Spec => []TypeOK
<1>1. IInv => TypeOK BY DEF IInv
<1> QED BY Inductive, <1>1, PTL

\* An accepted upload that is not finished is in the queue or with exactly one thread.
THEOREM OwnerSafety == Spec => []OneOwner
<1>1. IInv => OneOwner
  <2> SUFFICES ASSUME IInv PROVE OneOwner
    OBVIOUS
  <2>1. \A i : i \in Held <=> i # NoItem /\ \E t \in Uploaders : item[t] = i
    BY DEF Held
  <2>2. Held \cap queue = {}
    BY <2>1 DEF IInv, OwnersOK
  <2>3. requested \ finished \subseteq queue \cup Held
    BY <2>1, Bounds DEF IInv, OwnersOK, TypeOK
  <2>4. queue \cup Held \subseteq requested \ finished
    BY <2>1 DEF IInv, OwnersOK
  <2> QED
    BY <2>2, <2>3, <2>4 DEF IInv, OwnersOK, OneOwner
<1> QED BY Inductive, <1>1, PTL

\* An upload cancelled while queued is never started in this life of athenad.
THEOREM CancelSafety == Spec => []CancelledNotUploaded
<1>1. IInv => CancelledNotUploaded BY DEF IInv
<1> QED BY Inductive, <1>1, PTL
=============================================================================
