--------------------------- MODULE AthenaUploads ----------------------------
(***************************************************************************)
(* The upload queue of system/athena/athenad.py.  RPC workers accept and   *)
(* cancel uploads, upload threads take them from a priority queue, retry   *)
(* and drop them; all of them write the queue's copy in a param, which is  *)
(* all that is left when athenad dies.  A lost connection ends every       *)
(* thread, and the next one starts them again on the same queue.           *)
(*                                                                         *)
(* A step ends where another thread can be scheduled and see the           *)
(* difference; the copy of the queue and its write to the param are one    *)
(* step.  The transfer itself, expiry and the network are inputs.  The     *)
(* search for a duplicate url is left out: every item is asked for once.   *)
(***************************************************************************)
EXTENDS Naturals, FiniteSets

CONSTANTS
  Items,        \* the UploadItems ever requested; an id is never used twice
  Uploaders, Workers,
  Priority,     \* priority of an item, the lowest first
  Cellular,     \* the items with allow_cellular
  NoItem,       \* None
  MAX_RETRY_COUNT,
  MaxCrashes    \* bound on the deaths of athenad

ASSUME UploadsAssumption ==
  /\ Uploaders \cap Workers = {} /\ Priority \in [Items -> Nat]
  /\ Cellular \subseteq Items /\ NoItem \notin Items
  /\ {MAX_RETRY_COUNT, MaxCrashes} \subseteq Nat

VARIABLES
  queue,        \* upload_queue
  retries,      \* retry_count of every item
  cancelled,    \* cancelled_uploads
  cached,       \* AthenadUploadQueue: the items, with their retry counts
  pc,           \* where every thread is
  item,         \* the item it works on
  endEvent,
  metered,      \* deviceState.networkMetered
  requested,    \* the items asked for since the file system was made
  finished,     \* uploaded, given up, expired, refused or cancelled
  doomed,       \* cancelled while queued, in this life of athenad
  crashes

memory == <<queue, retries, cancelled>>
threadVars == <<pc, item>>
history == <<requested, finished, doomed>>
vars == <<memory, cached, threadVars, endEvent, metered, history, crashes>>

Threads == Uploaders \cup Workers

\* Definitions whose name ends in Bug are mutated forms of the next definition.

Goto(t, from, to) == pc[t] = from /\ pc' = [pc EXCEPT ![t] = to]
NotQueued == UNCHANGED <<memory, cached, endEvent, metered, requested, doomed, crashes>>

\* UploadQueueCache.cache.
Cache(t) ==
  /\ Goto(t, "cache", "idle")
  /\ cached' = [i \in queue \ cancelled |-> retries[i]]
  /\ UNCHANGED <<memory, item, endEvent, metered, history, crashes>>

-----------------------------------------------------------------------------
(* The RPC methods, in the jsonrpc_handler threads.                        *)

\* uploadFilesToUrls for a file that exists and is not in the queue already.
Request(w, i) ==
  /\ ~endEvent /\ i \notin requested /\ Goto(w, "idle", "cache")
  /\ requested' = requested \cup {i}
  /\ queue' = queue \cup {i}
  /\ UNCHANGED <<retries, cancelled, cached, item, endEvent, metered,
                 finished, doomed, crashes>>

\* cancelUpload: found in the queue ...
Cancel(w, i) ==
  /\ ~endEvent /\ i \in queue /\ Goto(w, "idle", "cancel")
  /\ item' = [item EXCEPT ![w] = i]
  /\ NotQueued /\ UNCHANGED finished

\* ... and put on the list, although a thread may have taken it in between.
CancelAdd(w) ==
  /\ Goto(w, "cancel", "idle")
  /\ cancelled' = cancelled \cup {item[w]}
  /\ doomed' = IF item[w] \in queue THEN doomed \cup {item[w]} ELSE doomed
  /\ item' = [item EXCEPT ![w] = NoItem]
  /\ UNCHANGED <<queue, retries, cached, endEvent, metered, requested,
                 finished, crashes>>

Worker(w) ==
  \/ \E i \in Items : Request(w, i) \/ Cancel(w, i)
  \/ CancelAdd(w)
  \/ Cache(w)

-----------------------------------------------------------------------------
(* upload_handler.                                                         *)

TakeBug(t, i) ==
  /\ ~endEvent /\ i \in queue /\ \A j \in queue : Priority[i] <= Priority[j]
  /\ Goto(t, "idle", "check")
  /\ item' = [item EXCEPT ![t] = i]
  /\ NotQueued /\ UNCHANGED finished
\* upload_queue.get.
Take(t, i) ==
  /\ ~endEvent /\ i \in queue /\ \A j \in queue : Priority[i] <= Priority[j]
  /\ Goto(t, "idle", "check")
  /\ item' = [item EXCEPT ![t] = i]
  /\ queue' = queue \ {i}
  /\ UNCHANGED <<retries, cancelled, cached, endEvent, metered, history, crashes>>

\* The thread is done with its item, for good.
Drop(t, from, to) ==
  /\ Goto(t, from, to)
  /\ finished' = finished \cup {item[t]}
  /\ item' = [item EXCEPT ![t] = NoItem]

DropCancelled(t) ==
  /\ pc[t] = "check" /\ item[t] \in cancelled /\ Drop(t, "check", "idle")
  /\ cancelled' = cancelled \ {item[t]}
  /\ UNCHANGED <<queue, retries, cached, endEvent, metered, requested,
                 doomed, crashes>>

\* Older than MAX_AGE.
Expire(t) ==
  /\ pc[t] = "check" /\ item[t] \notin cancelled /\ Drop(t, "check", "idle") /\ NotQueued

Allowed(i) == ~metered \/ i \in Cellular

StartUploadBug(t) ==
  /\ pc[t] = "check" /\ Allowed(item[t])
  /\ item[t] \notin cancelled \/ retries[item[t]] > 0
  /\ Goto(t, "check", "upload")
  /\ UNCHANGED <<item, finished>> /\ NotQueued
StartUpload(t) ==
  /\ pc[t] = "check" /\ item[t] \notin cancelled /\ Allowed(item[t])
  /\ Goto(t, "check", "upload")
  /\ UNCHANGED <<item, finished>> /\ NotQueued

\* retry_upload: a thread that has tried often enough gives up, else the item is put
\* back, cached, and the thread sleeps.
RetryCountBug(i, more) == retries[i]
RetryCount(i, more) == IF more THEN retries[i] + 1 ELSE retries[i]

PutBackForgetBug(t, from, more, to) ==
  IF more /\ retries[item[t]] < MAX_RETRY_COUNT
  THEN /\ Goto(t, from, "cache")
       /\ queue' = queue \cup {item[t]}
       /\ retries' = [retries EXCEPT ![item[t]] = RetryCount(item[t], more)]
       /\ item' = [item EXCEPT ![t] = NoItem]
       /\ UNCHANGED finished
  ELSE /\ Goto(t, from, to)
       /\ item' = [item EXCEPT ![t] = NoItem]
       /\ finished' = IF more THEN finished \cup {item[t]} ELSE finished
       /\ UNCHANGED <<queue, retries>>
PutBack(t, from, more, to) ==
  IF retries[item[t]] < MAX_RETRY_COUNT
  THEN /\ Goto(t, from, "cache")
       /\ queue' = queue \cup {item[t]}
       /\ retries' = [retries EXCEPT ![item[t]] = RetryCount(item[t], more)]
       /\ item' = [item EXCEPT ![t] = NoItem]
       /\ UNCHANGED finished
  ELSE Drop(t, from, to) /\ UNCHANGED <<queue, retries>>

Retry(t, from, more, to) ==
  /\ PutBack(t, from, more, to)
  /\ UNCHANGED <<cancelled, cached, endEvent, metered, requested, doomed, crashes>>

\* On a metered network the item waits in the queue.
Defer(t) ==
  /\ pc[t] = "check" /\ item[t] \notin cancelled /\ ~Allowed(item[t])
  /\ Retry(t, "check", FALSE, "idle")

\* The answer of the server ends it, whatever it says of the file.
Uploaded(t) ==
  /\ Goto(t, "upload", "cache")
  /\ finished' = finished \cup {item[t]}
  /\ item' = [item EXCEPT ![t] = NoItem]
  /\ UNCHANGED <<memory, cached, endEvent, metered, requested, doomed, crashes>>

\* A timeout or a connection error; another status, after which the queue is cached.
Failed(t) == pc[t] = "upload" /\ \E to \in {"idle", "cache"} : Retry(t, "upload", TRUE, to)

\* cb: the network became metered, or the connection ended.
Abort(t) ==
  /\ pc[t] = "upload" /\ (endEvent \/ ~Allowed(item[t]))
  /\ Retry(t, "upload", FALSE, "idle")

\* Anything else, as a file that is gone by now.
Refused(t) == pc[t] = "upload" /\ Drop(t, "upload", "idle") /\ NotQueued

Upload(t) == Uploaded(t) \/ Failed(t) \/ Abort(t) \/ Refused(t)
Check(t) == DropCancelled(t) \/ Expire(t) \/ StartUpload(t) \/ Defer(t)
Uploader(t) ==
  (\E i \in Items : Take(t, i)) \/ Check(t) \/ Upload(t) \/ Cache(t)

-----------------------------------------------------------------------------
(* The connection, the network, and the end of athenad.                    *)

Exit(t) ==
  /\ endEvent /\ Goto(t, "idle", "exited")
  /\ UNCHANGED <<item, finished>> /\ NotQueued

Disconnect ==
  /\ ~endEvent
  /\ endEvent' = TRUE
  /\ UNCHANGED <<memory, cached, threadVars, metered, history, crashes>>

\* handle_long_poll has joined its threads; the next connection starts them.
Connect ==
  /\ endEvent /\ \A t \in Threads : pc[t] = "exited"
  /\ endEvent' = FALSE /\ pc' = [t \in Threads |-> "idle"]
  /\ UNCHANGED <<memory, cached, item, metered, history, crashes>>

NetworkChange ==
  /\ metered' = ~metered
  /\ UNCHANGED <<memory, cached, threadVars, endEvent, history, crashes>>

\* athenad dies and is started again: UploadQueueCache.initialize.  What was requested
\* and is in no cache is forgotten: it counts as finished.
Crash ==
  /\ crashes < MaxCrashes /\ crashes' = crashes + 1
  /\ queue' = DOMAIN cached
  /\ retries' = [i \in Items |-> IF i \in DOMAIN cached THEN cached[i] ELSE 0]
  /\ cancelled' = {} /\ doomed' = {}
  /\ pc' = [t \in Threads |-> "idle"] /\ item' = [t \in Threads |-> NoItem]
  /\ endEvent' = FALSE
  /\ finished' = requested \ DOMAIN cached
  /\ UNCHANGED <<cached, metered, requested>>

Init ==
  /\ queue = {} /\ retries = [i \in Items |-> 0] /\ cancelled = {} /\ cached = <<>>
  /\ pc = [t \in Threads |-> "idle"] /\ item = [t \in Threads |-> NoItem]
  /\ endEvent = FALSE /\ metered \in BOOLEAN
  /\ requested = {} /\ finished = {} /\ doomed = {}
  /\ crashes = 0

Next ==
  \/ \E w \in Workers : Worker(w)
  \/ \E t \in Uploaders : Uploader(t)
  \/ \E t \in Threads : Exit(t)
  \/ Disconnect \/ Connect \/ NetworkChange \/ Crash

Spec == Init /\ [][Next]_vars

\* Every thread is scheduled, an attempt of _do_upload ends (it has a timeout), and the
\* loop of main connects again.
FairSpec ==
  /\ Spec
  /\ \A t \in Uploaders : WF_vars(Uploader(t))
  /\ \A w \in Workers : WF_vars(CancelAdd(w) \/ Cache(w))
  /\ \A t \in Threads : WF_vars(Exit(t))
  /\ WF_vars(Connect)

-----------------------------------------------------------------------------
(* Properties.                                                             *)

Pcs == {"idle", "cache", "cancel", "check", "upload", "exited"}
Held == {item[t] : t \in Uploaders} \ {NoItem}
Counts == UNION {[S -> 0..MAX_RETRY_COUNT] : S \in SUBSET Items}
TypeOK ==
  /\ queue \subseteq Items /\ retries \in [Items -> 0..MAX_RETRY_COUNT] /\ cancelled \subseteq Items
  /\ cached \in Counts
  /\ pc \in [Threads -> Pcs] /\ item \in [Threads -> Items \cup {NoItem}]
  /\ endEvent \in BOOLEAN /\ metered \in BOOLEAN
  /\ finished \subseteq requested /\ doomed \subseteq requested
  /\ requested \subseteq Items /\ crashes \in 0..MaxCrashes

\* While athenad lives, every accepted upload that is not finished is in the queue or
\* with one thread, never both and never two: no retry, abort, deferral or reconnect loses
\* it or uploads it twice at a time (retry_upload, upload_queue.get).
OneOwner ==
  /\ \A t, u \in Uploaders : item[t] = item[u] /\ item[t] # NoItem => t = u
  /\ Held \cap queue = {}
  /\ requested \ finished = queue \cup Held

\* An upload cancelled while it is queued is never started in this life of athenad, also
\* when it was queued by a retry (cancelled_uploads).
CancelledNotUploaded == \A t \in Uploaders : pc[t] = "upload" => item[t] \notin doomed

\* On a connection that lasts, without metered networks and further crashes, every
\* accepted upload is finished: retries are bounded.
AllFinished ==
  <>[](~endEvent /\ ~metered) => \A i \in Items : (i \in requested ~> i \in finished)

=============================================================================
