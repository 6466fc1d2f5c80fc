----------------------------- MODULE ParamStore ------------------------------
(***************************************************************************)
(* What Params promises its callers: every key always holds a whole value  *)
(* some caller wrote, or none; a change becomes visible in one step and    *)
(* durable in a later one; a power loss takes each key back to a whole     *)
(* value it may still have had on disk.  No temporary files, no locks, no  *)
(* threads: those belong to the implementation, module Params.             *)
(***************************************************************************)
CONSTANTS Keys, Values, Absent

VARIABLES
  store,   \* what a reader of the key gets
  durable  \* what the key may hold after a power loss

Content == Values \cup {Absent}

SInit == store = [k \in Keys |-> Absent] /\ durable = [k \in Keys |-> {Absent}]

\* One key is written or removed.
Change(k, v) ==
  /\ store' = [store EXCEPT ![k] = v]
  /\ durable' = [durable EXCEPT ![k] = @ \cup {v}]

\* The changes so far are on disk.
Persist ==
  /\ durable' = [k \in Keys |-> {store[k]}]
  /\ UNCHANGED store

PowerLoss ==
  /\ store' \in [Keys -> Content] /\ \A k \in Keys : store'[k] \in durable[k]
  /\ durable' = [k \in Keys |-> {store'[k]}]

SNext == (\E k \in Keys, v \in Content : Change(k, v)) \/ Persist \/ PowerLoss

SSpec == SInit /\ [][SNext]_<<store, durable>>
=============================================================================
