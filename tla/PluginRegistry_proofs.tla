------------------------ MODULE PluginRegistry_proofs ------------------------
(***************************************************************************)
(* For any plugins, manifests and processes: a disabled plugin is          *)
(* unloaded, and a hook call returns the default or what the whole chain   *)
(* made of it.  Inv says what keeps each thread from loading a plugin that *)
(* the poll in progress owes to unload: the marker of what the REST thread *)
(* loads is absent until its next request, and what the poll loads was not *)
(* disabled when it was visited.  ChainInv says that the lists of a        *)
(* process stay sorted, that it loads only once, before its first call,    *)
(* and that a call in progress follows the list.                           *)
(***************************************************************************)
EXTENDS PluginRegistry, SequenceTheorems, WellFoundedInduction, TLAPS

\* The parts of the state the argument reads.
LoadedType == loaded \in [Registries -> SUBSET (Plugins \cup {"none"})]
PcType ==
  pc \in [Threads -> {"idle", "unload", "unloading", "visit", "register", "begin", "call"}]
AtType == at \in [Threads -> Nat \ {0}]
JobType == job \in [Threads -> Plugins \cup {"none"}]

\* The steady plugins are disabled, and are among the plugins.
SteadyDisabled == steady \subseteq disabled /\ disabled \subseteq Plugins

\* The poll loop never is where only a REST request or a hook call is, and the REST
\* thread never is inside load_enabled.
Places ==
  /\ pc["poll"] \in {"idle", "unload", "unloading", "visit", "register"}
  /\ pc["rest"] \in {"idle", "begin", "unloading", "register"}

\* What the REST thread loads has no marker.
RestLoadsEnabled == pc["rest"] \in {"begin", "register"} => job["rest"] \notin disabled

\* What the poll loads was not disabled at its visit.
PollLoadsUnsteady == pc["poll"] = "register" => job["poll"] \notin steady

\* The plugins the unload loop has passed are settled ...
Passed ==
  pc["poll"] \in {"unload", "unloading"} =>
    \A k \in 1..Len(Order) : k < at["poll"] => Order[k] \notin steady \cap loaded["plugind"]

\* ... the one it unloads is the one it stands at ...
Picked == pc["poll"] = "unloading" => job["poll"] = Order[at["poll"]]

\* ... and after it all are.
Settled ==
  pc["poll"] \in {"visit", "register", "idle"} => steady \cap loaded["plugind"] = {}

Inv ==
  /\ LoadedType /\ PcType /\ AtType /\ JobType
  /\ SteadyDisabled /\ Places /\ RestLoadsEnabled /\ PollLoadsUnsteady
  /\ Passed /\ Picked /\ Settled

-----------------------------------------------------------------------------
\* Order lists the plugins.
LEMMA OrderFacts ==
  /\ Len(Order) \in Nat
  /\ \A k \in Nat \ {0} : k <= Len(Order) => Order[k] \in Plugins
  /\ \A p \in Plugins : \E k \in 1..Len(Order) : p = Order[k]
<1>1. Len(Order) \in Nat BY RegistryAssumption
<1> QED BY <1>1 DEF Plugins

\* The threads, and the registry each works on.
LEMMA ThreadFacts ==
  /\ "poll" \in Threads /\ "rest" \in Threads /\ Lazy \subseteq Threads
  /\ "plugind" \in Registries /\ \A t \in Threads : Reg(t) \in Registries
BY DEF Threads, Registries, Reg

LEMMA InitInv == Init => Inv
BY RegistryAssumption DEF Init, Inv, LoadedType, PcType, AtType, JobType, SteadyDisabled, Places, RestLoadsEnabled,
   PollLoadsUnsteady, Passed, Picked, Settled, Threads, Registries

\* PickUnload keeps the invariant.
LEMMA PickUnloadInv ==
  ASSUME NEW t \in Threads, Inv, PickUnload(t) PROVE Inv'
<1>1. LoadedType'
  BY ThreadFacts DEF Inv, LoadedType, PickUnload
<1>2. PcType'
  BY ThreadFacts DEF Inv, PcType, Goto, Return, Start, Enter, PickUnload
<1>3. AtType'
  BY ThreadFacts DEF Inv, AtType, Advance, Return, Enter, PickUnload
<1>4. JobType'
  BY ThreadFacts, OrderFacts DEF Inv, JobType, AtType, Start, Return, Current, PickUnload
<1> USE RegistryAssumption DEF Inv, LoadedType, PcType, AtType, JobType, SteadyDisabled,
      Places, RestLoadsEnabled, PollLoadsUnsteady, Passed, Picked, Settled, Goto, Advance, Return, Start, Enter, Current,
      PickUnload, Threads, Registries, Reg
<1>5. SteadyDisabled' BY SMT
<1>6. Places' BY SMT
<1>7. RestLoadsEnabled' BY SMT
<1>8. PollLoadsUnsteady' BY SMT
<1>9. Passed'
  <2> SUFFICES ASSUME pc'["poll"] \in {"unload", "unloading"}, NEW k \in 1..Len(Order), k < at'["poll"]
               PROVE  Order[k] \notin steady' \cap loaded'["plugind"]
    BY DEF Passed
  <2>1. CASE t # "poll" BY <2>1, ThreadFacts, SMT
  <2>2. CASE t = "poll" /\ Order[at[t]] \in disabled \cap loaded["plugind"] BY <2>2, SMT
  <2>3. CASE t = "poll" /\ Order[at[t]] \notin disabled \cap loaded["plugind"]
    <3>1. at'["poll"] = at["poll"] + 1 /\ pc["poll"] = "unload" BY <2>3, ThreadFacts, SMT
    <3>2. CASE k < at["poll"] BY <2>3, <3>1, <3>2, SMT
    <3>3. CASE k = at["poll"] BY <2>3, <3>1, <3>3, SMT
    <3> QED BY <3>1, <3>2, <3>3, OrderFacts, SMT
  <2> QED BY <2>1, <2>2, <2>3
<1>10. Picked' BY SMT
<1>11. Settled' BY SMT
<1> QED BY <1>1, <1>2, <1>3, <1>4, <1>5, <1>6, <1>7, <1>8, <1>9, <1>10, <1>11 DEF Inv

\* Unload keeps the invariant.
LEMMA UnloadInv ==
  ASSUME NEW t \in Threads, Inv, Unload(t) PROVE Inv'
<1>1. LoadedType'
  BY ThreadFacts DEF Inv, LoadedType, Unload
<1>2. PcType'
  BY ThreadFacts DEF Inv, PcType, Goto, Return, Start, Enter, Unload
<1>3. AtType'
  BY ThreadFacts DEF Inv, AtType, Advance, Return, Enter, Unload
<1>4. JobType'
  BY ThreadFacts DEF Inv, JobType, AtType, Start, Return, Current, Unload
<1> USE RegistryAssumption DEF Inv, LoadedType, PcType, AtType, JobType, SteadyDisabled,
      Places, RestLoadsEnabled, PollLoadsUnsteady, Passed, Picked, Settled, Goto, Advance, Return, Start, Enter, Current,
      Unload, Threads, Registries, Reg
<1>5. SteadyDisabled' BY SMT
<1>6. Places' BY SMT
<1>7. RestLoadsEnabled' BY SMT
<1>8. PollLoadsUnsteady' BY SMT
<1>9. Passed'
  <2>1. steady' \cap loaded'["plugind"] \subseteq steady \cap loaded["plugind"]
    <3>1. CASE UNCHANGED loaded BY <3>1
    <3>2. CASE loaded' = [loaded EXCEPT ![Reg(t)] = @ \ {job[t]}] BY <3>2, ThreadFacts, SMT
    <3> QED BY <3>1, <3>2
  <2>2. CASE t = "poll"
    <3>1. at'["poll"] = at["poll"] + 1 /\ pc["poll"] = "unloading" BY <2>2, SMT
    <3>2. Order[at["poll"]] \notin loaded'["plugind"] BY <2>2, SMT
    <3> SUFFICES ASSUME NEW k \in 1..Len(Order), k < at'["poll"]
                 PROVE  Order[k] \notin steady' \cap loaded'["plugind"]
      BY DEF Passed
    <3>3. CASE k < at["poll"] BY <2>1, <3>1, <3>3, SMT
    <3>4. CASE k = at["poll"] BY <3>2, <3>4
    <3>5. k < at["poll"] \/ k = at["poll"]
      BY <3>1, ThreadFacts, OrderFacts DEF AtType
    <3> QED BY <3>3, <3>4, <3>5
  <2>3. CASE t # "poll"
    <3>1. pc'["poll"] = pc["poll"] /\ at'["poll"] = at["poll"] BY <2>3, SMT
    <3> QED BY <3>1, <2>1 DEF Passed
  <2> QED BY <2>2, <2>3
<1>10. Picked' BY SMT
<1>11. Settled' BY SMT
<1> QED BY <1>1, <1>2, <1>3, <1>4, <1>5, <1>6, <1>7, <1>8, <1>9, <1>10, <1>11 DEF Inv

\* UnloadLoopOver keeps the invariant.
LEMMA UnloadLoopOverInv ==
  ASSUME NEW t \in Threads, Inv, UnloadLoopOver(t) PROVE Inv'
<1>1. LoadedType'
  BY ThreadFacts DEF Inv, LoadedType, UnloadLoopOver
<1>2. PcType'
  BY ThreadFacts DEF Inv, PcType, Goto, Return, Start, Enter, UnloadLoopOver
<1>3. AtType'
  BY ThreadFacts DEF Inv, AtType, Advance, Return, Enter, UnloadLoopOver
<1>4. JobType'
  BY ThreadFacts DEF Inv, JobType, AtType, Start, Return, Current, UnloadLoopOver
<1> USE RegistryAssumption DEF Inv, LoadedType, PcType, AtType, JobType, SteadyDisabled,
      Places, RestLoadsEnabled, PollLoadsUnsteady, Passed, Picked, Settled, Goto, Advance, Return, Start, Enter, Current,
      UnloadLoopOver, Threads, Registries, Reg
<1>5. SteadyDisabled' BY SMT
<1>6. Places' BY SMT
<1>7. RestLoadsEnabled' BY SMT
<1>8. PollLoadsUnsteady' BY SMT
<1>9. Passed' BY SMT
<1>10. Picked' BY SMT
<1>11. Settled'
  <2>1. CASE t # "poll" BY <2>1, SMT
  <2>2. CASE t = "poll"
    <3>1. \A p \in steady : p \in loaded["plugind"] => FALSE
      <4> SUFFICES ASSUME NEW p \in steady, p \in loaded["plugind"] PROVE FALSE
        OBVIOUS
      <4>1. PICK k \in 1..Len(Order) : p = Order[k] BY OrderFacts DEF SteadyDisabled
      <4>2. k < at["poll"] BY <2>2, OrderFacts, SMT
      <4> QED BY <2>2, <4>1, <4>2, SMT
    <3> QED BY <3>1
  <2> QED BY <2>1, <2>2
<1> QED BY <1>1, <1>2, <1>3, <1>4, <1>5, <1>6, <1>7, <1>8, <1>9, <1>10, <1>11 DEF Inv

\* Visit keeps the invariant.
LEMMA VisitInv ==
  ASSUME NEW t \in Threads, Inv, Visit(t) PROVE Inv'
<1>1. LoadedType'
  BY ThreadFacts DEF Inv, LoadedType, Visit
<1>2. PcType'
  BY ThreadFacts DEF Inv, PcType, Goto, Return, Start, Enter, Visit
<1>3. AtType'
  BY ThreadFacts DEF Inv, AtType, Advance, Return, Enter, Visit
<1>4. JobType'
  BY ThreadFacts, OrderFacts DEF Inv, JobType, AtType, Start, Return, Current, Visit
<1> USE RegistryAssumption DEF Inv, LoadedType, PcType, AtType, JobType, SteadyDisabled,
      Places, RestLoadsEnabled, PollLoadsUnsteady, Passed, Picked, Settled, Goto, Advance, Return, Start, Enter, Current,
      Visit, Threads, Registries, Reg
<1>5. SteadyDisabled' BY SMT
<1>6. Places' BY SMT
<1>7. RestLoadsEnabled' BY SMT
<1>8. PollLoadsUnsteady' BY SMT
<1>9. Passed' BY SMT
<1>10. Picked' BY SMT
<1>11. Settled' BY SMT
<1> QED BY <1>1, <1>2, <1>3, <1>4, <1>5, <1>6, <1>7, <1>8, <1>9, <1>10, <1>11 DEF Inv

\* PassOver keeps the invariant.
LEMMA PassOverInv ==
  ASSUME NEW t \in Threads, Inv, PassOver(t) PROVE Inv'
<1>1. LoadedType'
  BY ThreadFacts DEF Inv, LoadedType, PassOver
<1>2. PcType'
  BY ThreadFacts DEF Inv, PcType, Goto, Return, Start, Enter, PassOver
<1>3. AtType'
  BY ThreadFacts DEF Inv, AtType, Advance, Return, Enter, PassOver
<1>4. JobType'
  BY ThreadFacts DEF Inv, JobType, AtType, Start, Return, Current, PassOver
<1> USE RegistryAssumption DEF Inv, LoadedType, PcType, AtType, JobType, SteadyDisabled,
      Places, RestLoadsEnabled, PollLoadsUnsteady, Passed, Picked, Settled, Goto, Advance, Return, Start, Enter, Current,
      PassOver, Threads, Registries, Reg
<1>5. SteadyDisabled' BY SMT
<1>6. Places' BY SMT
<1>7. RestLoadsEnabled' BY SMT
<1>8. PollLoadsUnsteady' BY SMT
<1>9. Passed' BY SMT
<1>10. Picked' BY SMT
<1>11. Settled' BY SMT
<1> QED BY <1>1, <1>2, <1>3, <1>4, <1>5, <1>6, <1>7, <1>8, <1>9, <1>10, <1>11 DEF Inv

\* RegisterHook keeps the invariant.
LEMMA RegisterHookInv ==
  ASSUME NEW t \in Threads, Inv, RegisterHook(t) PROVE Inv'
<1>1. LoadedType'
  BY ThreadFacts DEF Inv, LoadedType, RegisterHook
<1>2. PcType'
  BY ThreadFacts DEF Inv, PcType, Goto, Return, Start, Enter, RegisterHook
<1>3. AtType'
  BY ThreadFacts DEF Inv, AtType, Advance, Return, Enter, RegisterHook
<1>4. JobType'
  BY ThreadFacts DEF Inv, JobType, AtType, Start, Return, Current, RegisterHook
<1> USE RegistryAssumption DEF Inv, LoadedType, PcType, AtType, JobType, SteadyDisabled,
      Places, RestLoadsEnabled, PollLoadsUnsteady, Passed, Picked, Settled, Goto, Advance, Return, Start, Enter, Current,
      RegisterHook, Threads, Registries, Reg
<1>5. SteadyDisabled' BY SMT
<1>6. Places' BY SMT
<1>7. RestLoadsEnabled' BY SMT
<1>8. PollLoadsUnsteady' BY SMT
<1>9. Passed' BY SMT
<1>10. Picked' BY SMT
<1>11. Settled' BY SMT
<1> QED BY <1>1, <1>2, <1>3, <1>4, <1>5, <1>6, <1>7, <1>8, <1>9, <1>10, <1>11 DEF Inv

\* ImportFails keeps the invariant.
LEMMA ImportFailsInv ==
  ASSUME NEW t \in Threads, Inv, ImportFails(t) PROVE Inv'
<1>1. LoadedType'
  BY ThreadFacts DEF Inv, LoadedType, ImportFails
<1>2. PcType'
  BY ThreadFacts DEF Inv, PcType, Goto, Return, Start, Enter, ImportFails
<1>3. AtType'
  BY ThreadFacts DEF Inv, AtType, Advance, Return, Enter, ImportFails
<1>4. JobType'
  BY ThreadFacts DEF Inv, JobType, AtType, Start, Return, Current, ImportFails
<1> USE RegistryAssumption DEF Inv, LoadedType, PcType, AtType, JobType, SteadyDisabled,
      Places, RestLoadsEnabled, PollLoadsUnsteady, Passed, Picked, Settled, Goto, Advance, Return, Start, Enter, Current,
      ImportFails, Threads, Registries, Reg
<1>5. SteadyDisabled' BY SMT
<1>6. Places' BY SMT
<1>7. RestLoadsEnabled' BY SMT
<1>8. PollLoadsUnsteady' BY SMT
<1>9. Passed'
  <2>1. CASE t = "poll" BY <2>1, SMT
  <2>2. CASE t # "poll"
    <3>1. pc'["poll"] = pc["poll"] /\ at'["poll"] = at["poll"] BY <2>2, SMT
    <3>2. steady' \cap loaded'["plugind"] \subseteq steady \cap loaded["plugind"] BY <2>2, SMT
    <3> QED BY <3>1, <3>2 DEF Passed
  <2> QED BY <2>1, <2>2
<1>10. Picked' BY SMT
<1>11. Settled' BY SMT
<1> QED BY <1>1, <1>2, <1>3, <1>4, <1>5, <1>6, <1>7, <1>8, <1>9, <1>10, <1>11 DEF Inv

\* Loaded keeps the invariant.
LEMMA LoadedInv ==
  ASSUME NEW t \in Threads, Inv, Loaded(t) PROVE Inv'
<1>1. LoadedType'
  BY ThreadFacts DEF Inv, LoadedType, JobType, Loaded
<1>2. PcType'
  BY ThreadFacts DEF Inv, PcType, Goto, Return, Start, Enter, Loaded
<1>3. AtType'
  BY ThreadFacts DEF Inv, AtType, Advance, Return, Enter, Loaded
<1>4. JobType'
  BY ThreadFacts DEF Inv, JobType, AtType, Start, Return, Current, Loaded
<1> USE RegistryAssumption DEF Inv, LoadedType, PcType, AtType, JobType, SteadyDisabled,
      Places, RestLoadsEnabled, PollLoadsUnsteady, Passed, Picked, Settled, Goto, Advance, Return, Start, Enter, Current,
      Loaded, Threads, Registries, Reg
<1>5. SteadyDisabled' BY SMT
<1>6. Places' BY SMT
<1>7. RestLoadsEnabled' BY SMT
<1>8. PollLoadsUnsteady' BY SMT
<1>9. Passed'
  <2>1. CASE t = "poll" BY <2>1, SMT
  <2>2. CASE t # "poll"
    <3>1. pc'["poll"] = pc["poll"] /\ at'["poll"] = at["poll"] BY <2>2, SMT
    <3>2. steady' \cap loaded'["plugind"] \subseteq steady \cap loaded["plugind"] BY <2>2, SMT
    <3> QED BY <3>1, <3>2 DEF Passed
  <2> QED BY <2>1, <2>2
<1>10. Picked' BY SMT
<1>11. Settled' BY SMT
<1> QED BY <1>1, <1>2, <1>3, <1>4, <1>5, <1>6, <1>7, <1>8, <1>9, <1>10, <1>11 DEF Inv

\* Poll keeps the invariant.
LEMMA PollInv ==
  ASSUME Inv, Poll PROVE Inv'
<1>1. LoadedType'
  BY ThreadFacts DEF Inv, LoadedType, Poll
<1>2. PcType'
  BY ThreadFacts DEF Inv, PcType, Goto, Return, Start, Enter, Poll
<1>3. AtType'
  BY ThreadFacts DEF Inv, AtType, Advance, Return, Enter, Poll
<1>4. JobType'
  BY ThreadFacts DEF Inv, JobType, AtType, Start, Return, Current, Poll
<1> USE RegistryAssumption DEF Inv, LoadedType, PcType, AtType, JobType, SteadyDisabled,
      Places, RestLoadsEnabled, PollLoadsUnsteady, Passed, Picked, Settled, Goto, Advance, Return, Start, Enter, Current,
      Poll, Threads, Registries, Reg
<1>5. SteadyDisabled' BY SMT
<1>6. Places' BY SMT
<1>7. RestLoadsEnabled' BY SMT
<1>8. PollLoadsUnsteady' BY SMT
<1>9. Passed' BY SMT
<1>10. Picked' BY SMT
<1>11. Settled' BY SMT
<1> QED BY <1>1, <1>2, <1>3, <1>4, <1>5, <1>6, <1>7, <1>8, <1>9, <1>10, <1>11 DEF Inv

\* Begin keeps the invariant.
LEMMA BeginInv ==
  ASSUME Inv, Begin PROVE Inv'
<1>1. LoadedType'
  BY ThreadFacts DEF Inv, LoadedType, Begin
<1>2. PcType'
  BY ThreadFacts DEF Inv, PcType, Goto, Return, Start, Enter, Begin
<1>3. AtType'
  BY ThreadFacts DEF Inv, AtType, Advance, Return, Enter, Begin
<1>4. JobType'
  BY ThreadFacts DEF Inv, JobType, AtType, Start, Return, Current, Begin
<1> USE RegistryAssumption DEF Inv, LoadedType, PcType, AtType, JobType, SteadyDisabled,
      Places, RestLoadsEnabled, PollLoadsUnsteady, Passed, Picked, Settled, Goto, Advance, Return, Start, Enter, Current,
      Begin, Threads, Registries, Reg
<1>5. SteadyDisabled' BY SMT
<1>6. Places' BY SMT
<1>7. RestLoadsEnabled' BY SMT
<1>8. PollLoadsUnsteady' BY SMT
<1>9. Passed' BY SMT
<1>10. Picked' BY SMT
<1>11. Settled' BY SMT
<1> QED BY <1>1, <1>2, <1>3, <1>4, <1>5, <1>6, <1>7, <1>8, <1>9, <1>10, <1>11 DEF Inv

\* Enable keeps the invariant.
LEMMA EnableInv ==
  ASSUME NEW p \in Plugins, Inv, Enable(p) PROVE Inv'
<1>1. LoadedType'
  BY ThreadFacts DEF Inv, LoadedType, Enable
<1>2. PcType'
  BY ThreadFacts DEF Inv, PcType, Goto, Return, Start, Enter, Enable
<1>3. AtType'
  BY ThreadFacts DEF Inv, AtType, Advance, Return, Enter, Enable
<1>4. JobType'
  BY ThreadFacts DEF Inv, JobType, AtType, Start, Return, Current, Enable
<1> USE RegistryAssumption DEF Inv, LoadedType, PcType, AtType, JobType, SteadyDisabled,
      Places, RestLoadsEnabled, PollLoadsUnsteady, Passed, Picked, Settled, Goto, Advance, Return, Start, Enter, Current,
      Enable, Threads, Registries, Reg
<1>5. SteadyDisabled' BY SMT
<1>6. Places' BY SMT
<1>7. RestLoadsEnabled' BY SMT
<1>8. PollLoadsUnsteady' BY SMT
<1>9. Passed' BY SMT
<1>10. Picked' BY SMT
<1>11. Settled' BY SMT
<1> QED BY <1>1, <1>2, <1>3, <1>4, <1>5, <1>6, <1>7, <1>8, <1>9, <1>10, <1>11 DEF Inv

\* Disable keeps the invariant.
LEMMA DisableInv ==
  ASSUME NEW p \in Plugins, Inv, Disable(p) PROVE Inv'
<1>1. LoadedType'
  BY ThreadFacts DEF Inv, LoadedType, Disable
<1>2. PcType'
  BY ThreadFacts DEF Inv, PcType, Goto, Return, Start, Enter, Disable
<1>3. AtType'
  BY ThreadFacts DEF Inv, AtType, Advance, Return, Enter, Disable
<1>4. JobType'
  BY ThreadFacts DEF Inv, JobType, AtType, Start, Return, Current, Disable
<1> USE RegistryAssumption DEF Inv, LoadedType, PcType, AtType, JobType, SteadyDisabled,
      Places, RestLoadsEnabled, PollLoadsUnsteady, Passed, Picked, Settled, Goto, Advance, Return, Start, Enter, Current,
      Disable, Threads, Registries, Reg
<1>5. SteadyDisabled' BY SMT
<1>6. Places' BY SMT
<1>7. RestLoadsEnabled' BY SMT
<1>8. PollLoadsUnsteady' BY SMT
<1>9. Passed' BY SMT
<1>10. Picked' BY SMT
<1>11. Settled' BY SMT
<1> QED BY <1>1, <1>2, <1>3, <1>4, <1>5, <1>6, <1>7, <1>8, <1>9, <1>10, <1>11 DEF Inv

\* FirstRun keeps the invariant.
LEMMA FirstRunInv ==
  ASSUME NEW l \in Lazy, Inv, FirstRun(l) PROVE Inv'
<1>1. LoadedType'
  BY ThreadFacts DEF Inv, LoadedType, FirstRun
<1>2. PcType'
  BY ThreadFacts DEF Inv, PcType, Goto, Return, Start, Enter, FirstRun
<1>3. AtType'
  BY ThreadFacts DEF Inv, AtType, Advance, Return, Enter, FirstRun
<1>4. JobType'
  BY ThreadFacts DEF Inv, JobType, AtType, Start, Return, Current, FirstRun
<1> USE RegistryAssumption DEF Inv, LoadedType, PcType, AtType, JobType, SteadyDisabled,
      Places, RestLoadsEnabled, PollLoadsUnsteady, Passed, Picked, Settled, Goto, Advance, Return, Start, Enter, Current,
      FirstRun, Threads, Registries, Reg
<1>5. SteadyDisabled' BY SMT
<1>6. Places' BY SMT
<1>7. RestLoadsEnabled' BY SMT
<1>8. PollLoadsUnsteady' BY SMT
<1>9. Passed' BY SMT
<1>10. Picked' BY SMT
<1>11. Settled' BY SMT
<1> QED BY <1>1, <1>2, <1>3, <1>4, <1>5, <1>6, <1>7, <1>8, <1>9, <1>10, <1>11 DEF Inv

\* Callback keeps the invariant.
LEMMA CallbackInv ==
  ASSUME NEW l \in Lazy, Inv, Callback(l) PROVE Inv'
<1>1. LoadedType'
  BY ThreadFacts DEF Inv, LoadedType, Callback
<1>2. PcType'
  BY ThreadFacts DEF Inv, PcType, Goto, Return, Start, Enter, Callback
<1>3. AtType'
  BY ThreadFacts DEF Inv, AtType, Advance, Return, Enter, Callback
<1>4. JobType'
  BY ThreadFacts DEF Inv, JobType, AtType, Start, Return, Current, Callback
<1> USE RegistryAssumption DEF Inv, LoadedType, PcType, AtType, JobType, SteadyDisabled,
      Places, RestLoadsEnabled, PollLoadsUnsteady, Passed, Picked, Settled, Goto, Advance, Return, Start, Enter, Current,
      Callback, Threads, Registries, Reg
<1>5. SteadyDisabled' BY SMT
<1>6. Places' BY SMT
<1>7. RestLoadsEnabled' BY SMT
<1>8. PollLoadsUnsteady' BY SMT
<1>9. Passed' BY SMT
<1>10. Picked' BY SMT
<1>11. Settled' BY SMT
<1> QED BY <1>1, <1>2, <1>3, <1>4, <1>5, <1>6, <1>7, <1>8, <1>9, <1>10, <1>11 DEF Inv

\* Raises keeps the invariant.
LEMMA RaisesInv ==
  ASSUME NEW l \in Lazy, Inv, Raises(l) PROVE Inv'
<1>1. LoadedType'
  BY ThreadFacts DEF Inv, LoadedType, Raises
<1>2. PcType'
  BY ThreadFacts DEF Inv, PcType, Goto, Return, Start, Enter, Raises
<1>3. AtType'
  BY ThreadFacts DEF Inv, AtType, Advance, Return, Enter, Raises
<1>4. JobType'
  BY ThreadFacts DEF Inv, JobType, AtType, Start, Return, Current, Raises
<1> USE RegistryAssumption DEF Inv, LoadedType, PcType, AtType, JobType, SteadyDisabled,
      Places, RestLoadsEnabled, PollLoadsUnsteady, Passed, Picked, Settled, Goto, Advance, Return, Start, Enter, Current,
      Raises, Threads, Registries, Reg
<1>5. SteadyDisabled' BY SMT
<1>6. Places' BY SMT
<1>7. RestLoadsEnabled' BY SMT
<1>8. PollLoadsUnsteady' BY SMT
<1>9. Passed' BY SMT
<1>10. Picked' BY SMT
<1>11. Settled' BY SMT
<1> QED BY <1>1, <1>2, <1>3, <1>4, <1>5, <1>6, <1>7, <1>8, <1>9, <1>10, <1>11 DEF Inv

\* Run keeps the invariant.
LEMMA RunInv ==
  ASSUME NEW l \in Lazy, NEW h \in Points, Inv, Run(l, h) PROVE Inv'
<1>1. LoadedType'
  BY ThreadFacts DEF Inv, LoadedType, Run
<1>2. PcType'
  BY ThreadFacts DEF Inv, PcType, Goto, Return, Start, Enter, Run
<1>3. AtType'
  BY ThreadFacts DEF Inv, AtType, Advance, Return, Enter, Run
<1>4. JobType'
  BY ThreadFacts DEF Inv, JobType, AtType, Start, Return, Current, Run
<1> USE RegistryAssumption DEF Inv, LoadedType, PcType, AtType, JobType, SteadyDisabled,
      Places, RestLoadsEnabled, PollLoadsUnsteady, Passed, Picked, Settled, Goto, Advance, Return, Start, Enter, Current,
      Run, Threads, Registries, Reg
<1>5. SteadyDisabled' BY SMT
<1>6. Places' BY SMT
<1>7. RestLoadsEnabled' BY SMT
<1>8. PollLoadsUnsteady' BY SMT
<1>9. Passed' BY SMT
<1>10. Picked' BY SMT
<1>11. Settled' BY SMT
<1> QED BY <1>1, <1>2, <1>3, <1>4, <1>5, <1>6, <1>7, <1>8, <1>9, <1>10, <1>11 DEF Inv

-----------------------------------------------------------------------------
LEMMA NextInv == Inv /\ [Next]_vars => Inv'
<1> SUFFICES ASSUME Inv, [Next]_vars PROVE Inv'
  OBVIOUS
<1>1. CASE Poll BY <1>1, PollInv
<1>2. CASE Begin BY <1>2, BeginInv
<1>3. CASE \E t \in Threads : LoadStep(t)
  BY <1>3, PickUnloadInv, UnloadInv, UnloadLoopOverInv, VisitInv, PassOverInv, RegisterHookInv,
     ImportFailsInv, LoadedInv DEF LoadStep
<1>4. CASE \E l \in Lazy : LazyStep(l)
  BY <1>4, FirstRunInv, CallbackInv, RaisesInv, RunInv DEF LazyStep
<1>5. CASE \E p \in Plugins : Enable(p) \/ Disable(p)
  BY <1>5, EnableInv, DisableInv
<1>6. CASE UNCHANGED vars
  BY <1>6 DEF vars, threadVars, Inv, LoadedType, PcType, AtType, JobType, SteadyDisabled, Places, RestLoadsEnabled,
     PollLoadsUnsteady, Passed, Picked, Settled
<1> QED BY <1>1, <1>2, <1>3, <1>4, <1>5, <1>6 DEF Next

\* A plugin disabled when a poll begins, and not enabled meanwhile, is not loaded when it
\* has ended.
THEOREM DisabledSafety == Spec => []DisabledIsUnloaded
<1>1. Inv => DisabledIsUnloaded
  BY DEF Inv, Settled, DisabledIsUnloaded
<1> QED BY InitInv, NextInv, <1>1, PTL DEF Spec
-----------------------------------------------------------------------------
(* The value of a hook.  A process that calls hooks has loaded once and    *)
(* never unloads, so its chains stay as they are from its first call on.   *)

TableType == table = [r \in Registries |-> table[r]]
CallType ==
  call \in [Lazy -> [point : Points \cup {"none"}, invoked : Nat, value : Seq(Plugins)]]

Sorted(s) == \A j, k \in 1..Len(s) : j < k => Priority[s[j]] <= Priority[s[k]]

\* What is registered in a Lazy process is in priority order.
ChainsSorted(l) ==
  /\ table[l] \in [Points -> Seq(Plugins)]
  /\ \A h \in Points : Sorted(table[l][h])

\* It loads before its first call, only then, and finds nothing to unload.
LoadsOnce(l) ==
  /\ pc[l] \in {"idle", "unload", "visit", "register", "call"}
  /\ pc[l] = "register" => job[l] \in Plugins
  /\ l \notin ready => pc[l] = "idle"
  /\ l \notin ready \/ pc[l] = "unload" => loaded[l] = {}
  /\ l \notin ready \/ pc[l] \in {"unload", "visit", "register"} => call[l].value = <<>>

\* A call in progress has its value from the first callbacks of the chain, and one that
\* is over from all of them or from none.
CallFollows(l) ==
  LET chain == table[l][call[l].point] IN
  /\ pc[l] = "call" =>
       /\ call[l].point \in Points /\ call[l].invoked <= Len(chain)
       /\ call[l].value = SubSeq(chain, 1, call[l].invoked)
  /\ pc[l] # "call" /\ call[l].value # <<>> =>
       call[l].point \in Points /\ call[l].value = chain

LazyInv(l) == ChainsSorted(l) /\ LoadsOnce(l) /\ CallFollows(l)
ChainInv == TableType /\ CallType /\ \A l \in Lazy : LazyInv(l)

\* In a sorted list the callbacks of no higher priority come first.
LEMMA BehindExists ==
  ASSUME NEW s \in Seq(Plugins), Sorted(s), NEW p \in Plugins
  PROVE  \E k \in 0..Len(s) : \A j \in 1..Len(s) : j <= k <=> Priority[s[j]] <= Priority[p]
<1> DEFINE Above == {k \in Nat \ {0} :
                       k = Len(s) + 1 \/ (k <= Len(s) /\ Priority[s[k]] > Priority[p])}
<1>0. Len(s) \in Nat OBVIOUS
<1>1. Above \subseteq Nat /\ Len(s) + 1 \in Above BY <1>0
<1>2. PICK m \in Above : \A y \in Above : <<y, m>> \notin OpToRel(<, Nat)
  <2> HIDE DEF Above
  <2> QED BY <1>1, NatLessThanWellFounded, WFMin
<1>3. m \in Nat /\ m # 0 /\ \A y \in Above : m <= y
  <2>1. \A y \in Nat : y < m => <<y, m>> \in OpToRel(<, Nat)
    BY <1>0, <1>1 DEF OpToRel
  <2>2. \A y \in Above : ~(y < m)
    <3> HIDE DEF Above
    <3> QED BY <1>1, <1>2, <2>1, Zenon
  <2> QED BY <1>1, <2>2
<1>4. \A k \in 1..Len(s) : s[k] \in Plugins /\ Priority[s[k]] \in Nat
  BY RegistryAssumption
<1>5. Priority[p] \in Nat BY RegistryAssumption
<1>6. m - 1 \in 0..Len(s) BY <1>0, <1>1, <1>3
<1>7. ASSUME NEW j \in 1..Len(s) PROVE j <= m - 1 <=> Priority[s[j]] <= Priority[p]
  <2>1. CASE j < m
    <3>1. j \notin Above BY <1>3, <2>1
    <3> QED BY <1>0, <1>3, <1>4, <1>5, <2>1, <3>1
  <2>2. CASE m <= j
    <3>1. Priority[s[m]] > Priority[p] BY <1>0, <1>3, <2>2
    <3>2. Priority[s[m]] <= Priority[s[j]] BY <1>0, <1>3, <1>4, <2>2 DEF Sorted
    <3> QED BY <1>0, <1>3, <1>4, <1>5, <2>2, <3>1, <3>2
  <2> QED BY <1>0, <1>3, <2>1, <2>2
<1> QED BY <1>6, <1>7

\* An element put into a list behind the first n.
Insert(s, e, n) == SubSeq(s, 1, n) \o <<e>> \o SubSeq(s, n + 1, Len(s))
LEMMA Inserted ==
  ASSUME NEW S, NEW s \in Seq(S), NEW e \in S, NEW n \in 0..Len(s)
  PROVE  /\ Insert(s, e, n) \in Seq(S) /\ Len(Insert(s, e, n)) = Len(s) + 1
         /\ \A k \in 1..(Len(s) + 1) :
              Insert(s, e, n)[k] = (IF k <= n THEN s[k] ELSE IF k = n + 1 THEN e ELSE s[k - 1])
<1>1. Len(s) \in Nat /\ n \in Nat /\ n <= Len(s) OBVIOUS
<1>2. PICK first \in Seq(S) : /\ first = SubSeq(s, 1, n) /\ Len(first) = n
                             /\ \A k \in 1..n : first[k] = s[k]
  <2>1. /\ SubSeq(s, 1, n) \in Seq(S) /\ Len(SubSeq(s, 1, n)) = n
        /\ \A k \in 1..n : SubSeq(s, 1, n)[k] = s[k]
    BY <1>1
  <2> QED BY <2>1, Zenon
<1>3. PICK last \in Seq(S) : /\ last = SubSeq(s, n + 1, Len(s)) /\ Len(last) = Len(s) - n
                            /\ \A k \in 1..(Len(s) - n) : last[k] = s[n + k]
  <2>1. /\ SubSeq(s, n + 1, Len(s)) \in Seq(S) /\ Len(SubSeq(s, n + 1, Len(s))) = Len(s) - n
        /\ \A k \in 1..(Len(s) - n) : SubSeq(s, n + 1, Len(s))[k] = s[n + k]
    BY <1>1
  <2> QED BY <2>1, Zenon
<1>4. PICK most \in Seq(S) : /\ most = first \o <<e>> /\ Len(most) = n + 1
                            /\ \A k \in 1..n : most[k] = s[k]
                            /\ most[n + 1] = e
  <2>1. /\ first \o <<e>> \in Seq(S) /\ Len(first \o <<e>>) = n + 1
        /\ \A k \in 1..n : (first \o <<e>>)[k] = s[k]
        /\ (first \o <<e>>)[n + 1] = e
    BY <1>1, <1>2
  <2> QED BY <2>1, Zenon
<1>5. PICK r : r = Insert(s, e, n) /\ r = most \o last BY <1>2, <1>3, <1>4 DEF Insert
<1>6. r \in Seq(S) /\ Len(r) = Len(s) + 1
  <2>1. \A a, b \in Seq(S) : a \o b \in Seq(S) /\ Len(a \o b) = Len(a) + Len(b) OBVIOUS
  <2>2. r \in Seq(S) /\ Len(r) = Len(most) + Len(last) BY <1>5, <2>1, Zenon
  <2> QED BY <1>1, <1>3, <1>4, <2>2
<1>7. ASSUME NEW k \in 1..(Len(s) + 1)
      PROVE  r[k] = (IF k <= n THEN s[k] ELSE IF k = n + 1 THEN e ELSE s[k - 1])
  <2>0. \A a, b \in Seq(S) : \A i \in 1..(Len(a) + Len(b)) :
          (a \o b)[i] = (IF i <= Len(a) THEN a[i] ELSE b[i - Len(a)])
    BY ConcatProperties
  <2>1. k \in 1..(Len(most) + Len(last))
    <3>1. Len(most) = n + 1 /\ Len(last) = Len(s) - n BY <1>3, <1>4
    <3>2. Len(most) + Len(last) = Len(s) + 1 BY <1>1, <3>1
    <3> QED BY <3>2, Zenon
  <2>2. r[k] = (IF k <= Len(most) THEN most[k] ELSE last[k - Len(most)])
    BY <1>5, <2>0, <2>1, Zenon
  <2>3. CASE k <= n + 1 BY <1>1, <1>4, <2>2, <2>3
  <2>4. CASE k > n + 1
    <3>1. k - (n + 1) \in 1..(Len(s) - n) /\ n + (k - (n + 1)) = k - 1 BY <1>1, <2>4
    <3> QED BY <1>1, <1>3, <1>4, <2>2, <2>4, <3>1
  <2> QED BY <1>1, <2>3, <2>4
<1> QED BY <1>5, <1>6, <1>7

\* HookRegistry.register keeps a list of plugins sorted.
LEMMA RegisterSorted ==
  ASSUME NEW s \in Seq(Plugins), Sorted(s), NEW p \in Plugins
  PROVE  Register(s, p) \in Seq(Plugins) /\ Sorted(Register(s, p))
<1>1. PICK n \in 0..Len(s) :
        /\ n = Behind(s, p)
        /\ \A j \in 1..Len(s) : j <= n <=> Priority[s[j]] <= Priority[p]
  BY BehindExists DEF Behind
<1>2. PICK r : r = Register(s, p) OBVIOUS
<1>3. r = Insert(s, p, n) BY <1>1, <1>2 DEF Register, Insert
<1>4. /\ r \in Seq(Plugins) /\ Len(r) = Len(s) + 1
      /\ \A k \in 1..(Len(s) + 1) :
           r[k] = (IF k <= n THEN s[k] ELSE IF k = n + 1 THEN p ELSE s[k - 1])
  <2>1. /\ Insert(s, p, n) \in Seq(Plugins) /\ Len(Insert(s, p, n)) = Len(s) + 1
        /\ \A k \in 1..(Len(s) + 1) :
             Insert(s, p, n)[k] = (IF k <= n THEN s[k] ELSE IF k = n + 1 THEN p ELSE s[k - 1])
    BY Inserted
  <2> QED BY <1>3, <2>1, Zenon
<1>5. PICK len \in Nat : len = Len(s) OBVIOUS
<1>6. /\ \A k \in 1..len : Priority[s[k]] \in Nat
      /\ Priority[p] \in Nat
  BY <1>5, RegistryAssumption
<1>7. \A j, k \in 1..len : j < k => Priority[s[j]] <= Priority[s[k]] BY <1>5 DEF Sorted
<1>8. ASSUME NEW j \in 1..(len + 1), NEW k \in 1..(len + 1), j < k
      PROVE  Priority[r[j]] <= Priority[r[k]]
  <2>0. n \in Nat /\ n <= len BY <1>5
  <2>1. CASE k <= n
    <3>1. r[j] = s[j] /\ r[k] = s[k] BY <1>4, <1>5, <1>8, <2>0, <2>1
    <3> QED BY <1>7, <1>8, <2>0, <2>1, <3>1
  <2>2. CASE k = n + 1
    <3>1. r[j] = s[j] /\ r[k] = p BY <1>4, <1>5, <1>8, <2>0, <2>2
    <3>2. Priority[s[j]] <= Priority[p] BY <1>1, <1>5, <1>8, <2>0, <2>2
    <3> QED BY <3>1, <3>2
  <2>3. CASE k > n + 1
    <3>1. r[k] = s[k - 1] /\ k - 1 \in 1..len /\ ~(k - 1 <= n) BY <1>4, <1>5, <2>0, <2>3
    <3>2. Priority[p] < Priority[s[k - 1]] BY <1>1, <1>5, <1>6, <3>1
    <3>3. CASE j = n + 1
      <4>1. r[j] = p BY <1>4, <1>5, <2>0, <3>3
      <4> QED BY <1>6, <3>1, <3>2, <4>1
    <3>4. CASE j > n + 1
      <4>1. r[j] = s[j - 1] /\ j - 1 \in 1..len /\ j - 1 < k - 1
        BY <1>4, <1>5, <1>8, <2>0, <3>4
      <4> QED BY <1>7, <3>1, <4>1
    <3>5. CASE j <= n
      <4>1. r[j] = s[j] /\ j \in 1..len /\ j < k - 1 BY <1>4, <1>5, <2>0, <2>3, <3>5
      <4> QED BY <1>7, <3>1, <4>1
    <3> QED BY <2>0, <3>3, <3>4, <3>5
  <2> QED BY <2>0, <2>1, <2>2, <2>3
<1> QED BY <1>2, <1>4, <1>5, <1>8 DEF Sorted

\* A Lazy process works on a registry of its own.
LEMMA OwnRegistry ==
  /\ Lazy \subseteq Registries /\ Lazy \subseteq Threads /\ "plugind" \notin Lazy
  /\ "poll" \notin Lazy /\ "rest" \notin Lazy
  /\ \A l \in Lazy, t \in Threads : (Reg(t) = l) <=> (t = l)
BY RegistryAssumption DEF Registries, Threads, Reg

\* What LazyInv(l) reads.
Untouched(l) ==
  /\ table'[l] = table[l] /\ loaded'[l] = loaded[l] /\ pc'[l] = pc[l] /\ job'[l] = job[l]
  /\ call'[l] = call[l] /\ (l \in ready' <=> l \in ready)

LEMMA UntouchedLazy ==
  ASSUME NEW l \in Lazy, LazyInv(l), Untouched(l) PROVE LazyInv(l)'
BY DEF LazyInv, ChainsSorted, Sorted, LoadsOnce, CallFollows, Untouched

LEMMA InitChain == Init => ChainInv
<1> SUFFICES ASSUME Init PROVE ChainInv
  OBVIOUS
<1>0. <<>> \in Seq(Plugins) BY EmptySeq
<1>1. TableType BY DEF Init, TableType
<1>2. CallType BY <1>0 DEF Init, CallType
<1>3. ASSUME NEW l \in Lazy PROVE LazyInv(l)
  <2>1. ChainsSorted(l) BY <1>0, OwnRegistry DEF Init, ChainsSorted, Sorted
  <2>2. LoadsOnce(l) BY OwnRegistry DEF Init, LoadsOnce
  <2>3. CallFollows(l) BY OwnRegistry DEF Init, CallFollows
  <2> QED BY <2>1, <2>2, <2>3 DEF LazyInv
<1> QED BY <1>1, <1>2, <1>3 DEF ChainInv

\* No step makes the tables or the calls something else.
LEMMA NextTypes == ASSUME Inv, ChainInv, Next PROVE TableType' /\ CallType'
<1> USE DEF ChainInv
<1>1. TableType'
  <2>1. UNCHANGED table \/ \E r \in Registries : \E f : table' = [table EXCEPT ![r] = f]
    BY ThreadFacts DEF Next, Poll, Begin, LoadStep, PickUnload, Unload, UnloadLoopOver, Visit, PassOver,
       RegisterHook, ImportFails, Loaded, LazyStep, FirstRun, Callback, Raises, Run, Enable, Disable
  <2> QED BY <2>1 DEF TableType
<1>2. CallType'
  <2>1. CASE UNCHANGED call BY <2>1 DEF CallType
  <2>2. ASSUME NEW l \in Lazy, Callback(l) PROVE CallType'
    <3>1. pc[l] = "call" BY <2>2 DEF Callback
    <3> DEFINE chain == table[l][call[l].point]
               k == call[l].invoked + 1
    <3>2. chain \in Seq(Plugins) /\ call[l].point \in Points
      BY <3>1 DEF LazyInv, CallFollows, ChainsSorted
    <3>3. call[l].invoked \in Nat /\ call[l].value \in Seq(Plugins) BY DEF CallType
    <3>4. k \in 1..Len(chain) BY <2>2, <3>2, <3>3 DEF Callback
    <3>5. chain[k] \in Plugins
      <4> HIDE DEF chain, k
      <4> QED BY <3>2, <3>4, ElementOfSeq
    <3>6. Append(call[l].value, chain[k]) \in Seq(Plugins) /\ k \in Nat
      <4> HIDE DEF chain
      <4> QED BY <3>3, <3>5, AppendProperties
    <3>7. call' = [call EXCEPT ![l].invoked = k, ![l].value = Append(@, chain[k])]
      BY <2>2 DEF Callback
    <3> HIDE DEF chain, k
    <3> QED BY <3>6, <3>7 DEF CallType
  <2>3. ASSUME NEW l \in Lazy, Raises(l) PROVE CallType'
    <3>1. call' = [call EXCEPT ![l].invoked = @ + 1, ![l].value = <<>>] BY <2>3 DEF Raises
    <3>2. call[l].invoked + 1 \in Nat BY DEF CallType
    <3>3. <<>> \in Seq(Plugins) BY EmptySeq
    <3> QED BY <3>1, <3>2, <3>3 DEF CallType
  <2>4. ASSUME NEW l \in Lazy, NEW h \in Points, Run(l, h) PROVE CallType'
    BY <2>4, EmptySeq DEF CallType, Run
  <2>5. \/ UNCHANGED call
        \/ \E l \in Lazy : Callback(l) \/ Raises(l) \/ \E h \in Points : Run(l, h)
    BY DEF Next, Poll, Begin, LoadStep, PickUnload, Unload, UnloadLoopOver, Visit, PassOver,
       RegisterHook, ImportFails, Loaded, LazyStep, FirstRun, Enable, Disable
  <2> QED BY <2>1, <2>2, <2>3, <2>4, <2>5
<1> QED BY <1>1, <1>2

\* What another thread does leaves a Lazy process alone.
LEMMA OtherThread ==
  ASSUME Inv, ChainInv, NEW l \in Lazy,
         \/ Poll \/ Begin \/ \E p \in Plugins : Enable(p) \/ Disable(p)
         \/ \E t \in Threads : t # l /\ LoadStep(t)
         \/ \E m \in Lazy : m # l /\ LazyStep(m)
  PROVE  Untouched(l)
<1> USE RegistryAssumption, OwnRegistry, ThreadFacts
    DEF Inv, ChainInv, TableType, CallType, LoadedType, PcType, JobType, Untouched, Goto
<1>1. ASSUME Poll \/ Begin \/ \E p \in Plugins : Enable(p) \/ Disable(p) PROVE Untouched(l)
  BY <1>1 DEF Poll, Enter, Begin, Start, Enable, Disable
<1>2. ASSUME NEW t \in Threads, t # l, LoadStep(t) PROVE Untouched(l)
  <2>0. Reg(t) # l /\ Reg(t) \in Registries BY <1>2
  <2>1. CASE PickUnload(t) BY <1>2, <2>0, <2>1 DEF PickUnload
  <2>2. CASE Unload(t) BY <1>2, <2>0, <2>2 DEF Unload, Return
  <2>3. CASE UnloadLoopOver(t) BY <1>2, <2>0, <2>3 DEF UnloadLoopOver
  <2>4. CASE Visit(t) BY <1>2, <2>0, <2>4 DEF Visit, Start
  <2>5. CASE PassOver(t) BY <1>2, <2>0, <2>5 DEF PassOver
  <2>6. CASE RegisterHook(t) BY <1>2, <2>0, <2>6 DEF RegisterHook
  <2>7. CASE ImportFails(t) BY <1>2, <2>0, <2>7 DEF ImportFails, Return
  <2>8. CASE Loaded(t) BY <1>2, <2>0, <2>8 DEF Loaded, Return
  <2> QED BY <1>2, <2>1, <2>2, <2>3, <2>4, <2>5, <2>6, <2>7, <2>8 DEF LoadStep
<1>3. ASSUME NEW m \in Lazy, m # l, LazyStep(m) PROVE Untouched(l)
  <2>1. CASE FirstRun(m) BY <1>3, <2>1 DEF FirstRun, Enter
  <2>2. CASE Callback(m)
    <3>1. UNCHANGED <<table, loaded, job, ready>> BY <2>2 DEF Callback
    <3>2. call'[l] = call[l] BY <1>3, <2>2 DEF Callback
    <3>3. pc'[l] = pc[l] BY <1>3, <2>2 DEF Callback
    <3> QED BY <3>1, <3>2, <3>3
  <2>3. CASE Raises(m) BY <1>3, <2>3 DEF Raises
  <2>4. ASSUME NEW h \in Points, Run(m, h) PROVE Untouched(l) BY <1>3, <2>4 DEF Run
  <2> QED BY <1>3, <2>1, <2>2, <2>3, <2>4 DEF LazyStep
<1> QED BY <1>1, <1>2, <1>3

\* The load of a Lazy process.
LEMMA OwnLoad ==
  ASSUME Inv, ChainInv, NEW l \in Lazy, LoadStep(l) \/ FirstRun(l) PROVE LazyInv(l)'
<1>0. LazyInv(l) BY DEF ChainInv
<1>1. /\ Reg(l) = l /\ l # "rest" /\ l \in Registries /\ l \in Threads
  BY OwnRegistry, RegistryAssumption DEF Reg
<1>2. /\ TableType /\ CallType /\ LoadedType /\ PcType /\ AtType /\ JobType
  BY DEF Inv, ChainInv
<1>3. CASE RegisterHook(l)
  <2> DEFINE h == Hooks[job[l]][hook[l]]
             s == table[l][h]
  <2>1. /\ pc[l] = "register" /\ job[l] \in Plugins
        /\ table' = [table EXCEPT ![l][h] = Register(s, job[l])]
        /\ UNCHANGED <<loaded, pc, job, ready, call>>
    BY <1>0, <1>1, <1>3 DEF RegisterHook, LazyInv, LoadsOnce
  <2>2. table[l] \in [Points -> Seq(Plugins)] /\ \A i \in Points : Sorted(table[l][i])
    BY <1>0 DEF LazyInv, ChainsSorted
  <2>3. table'[l] = [table[l] EXCEPT ![h] = Register(s, job[l])]
    BY <1>1, <1>2, <2>1 DEF TableType
  <2>4. h \in Points => Register(s, job[l]) \in Seq(Plugins) /\ Sorted(Register(s, job[l]))
    BY <2>1, <2>2, RegisterSorted
  <2> HIDE DEF h, s
  <2>5. ChainsSorted(l)'
    <3>1. table'[l] \in [Points -> Seq(Plugins)] BY <2>2, <2>3, <2>4
    <3>2. ASSUME NEW i \in Points PROVE Sorted(table'[l][i])
      <4>1. CASE i = h BY <2>2, <2>3, <2>4, <4>1
      <4>2. CASE i # h
        <5>1. table'[l][i] = table[l][i] BY <2>2, <2>3, <4>2
        <5> QED BY <2>2, <5>1
      <4> QED BY <4>1, <4>2
    <3> QED BY <3>1, <3>2 DEF ChainsSorted, Sorted
  <2>6. LoadsOnce(l)' BY <1>0, <2>1 DEF LazyInv, LoadsOnce
  <2>7. CallFollows(l)' BY <1>0, <2>1 DEF LazyInv, LoadsOnce, CallFollows
  <2> QED BY <2>5, <2>6, <2>7 DEF LazyInv
<1>4. ASSUME ~RegisterHook(l) PROVE UNCHANGED table
  BY <1>0, <1>4 DEF LoadStep, LazyInv, LoadsOnce, PickUnload, Unload, UnloadLoopOver, Visit,
     PassOver, ImportFails, Loaded, FirstRun
<1>5. ASSUME UNCHANGED table PROVE ChainsSorted(l)'
  BY <1>0, <1>5 DEF LazyInv, ChainsSorted, Sorted
<1>6. ASSUME ~RegisterHook(l) PROVE LoadsOnce(l)'
  <2> USE <1>0, <1>1, <1>2 DEF LazyInv, LoadsOnce, LoadedType, PcType, JobType, Goto
  <2>1. CASE PickUnload(l) BY <2>1 DEF PickUnload
  <2>2. CASE Unload(l) BY <2>2 DEF Unload
  <2>3. CASE UnloadLoopOver(l) BY <2>3 DEF UnloadLoopOver
  <2>4. CASE Visit(l)
    <3>1. at[l] <= Len(Order) => Order[at[l]] \in Plugins BY OrderFacts DEF AtType
    <3> QED BY <2>4, <3>1 DEF Visit, Start, Current
  <2>5. CASE PassOver(l) BY <2>5 DEF PassOver
  <2>7. CASE ImportFails(l) BY <2>7 DEF ImportFails, Return
  <2>8. CASE Loaded(l) BY <2>8 DEF Loaded, Return
  <2>9. CASE FirstRun(l) BY <2>9 DEF FirstRun, Enter
  <2> QED BY <1>6, <2>1, <2>2, <2>3, <2>4, <2>5, <2>7, <2>8, <2>9 DEF LoadStep
<1>7. ASSUME ~RegisterHook(l) PROVE CallFollows(l)'
  <2>1. call'[l].value = <<>> /\ pc'[l] # "call"
    <3> USE <1>0, <1>1, <1>2 DEF LazyInv, LoadsOnce, PcType, Goto
    <3>1. UNCHANGED call /\ call[l].value = <<>>
      BY <1>7 DEF LoadStep, PickUnload, Unload, UnloadLoopOver, Visit, PassOver, ImportFails,
         Loaded, FirstRun
    <3>2. pc'[l] # "call"
      BY <1>7 DEF LoadStep, PickUnload, Unload, UnloadLoopOver, Visit, Start, PassOver, ImportFails,
         Loaded, Return, FirstRun, Enter
    <3> QED BY <3>1, <3>2
  <2> QED BY <2>1 DEF CallFollows
<1> QED BY <1>3, <1>4, <1>5, <1>6, <1>7 DEF LazyInv

\* The hook calls of a Lazy process.
LEMMA OwnCall ==
  ASSUME Inv, ChainInv, NEW l \in Lazy,
         Callback(l) \/ Raises(l) \/ \E h \in Points : Run(l, h)
  PROVE  LazyInv(l)'
<1>0. LazyInv(l) BY DEF ChainInv
<1>1. l \in Threads /\ CallType /\ PcType BY OwnRegistry DEF Inv, ChainInv
<1>2. UNCHANGED <<table, loaded, job, ready>> BY DEF Callback, Raises, Run
<1>3. ChainsSorted(l)' BY <1>0, <1>2 DEF LazyInv, ChainsSorted, Sorted
<1>4. LoadsOnce(l)'
  BY <1>0, <1>1, <1>2 DEF LazyInv, LoadsOnce, PcType, Goto, Callback, Raises, Run
<1>5. CASE Callback(l)
  <2> DEFINE chain == table[l][call[l].point]
             k == call[l].invoked + 1
  <2>1. /\ pc[l] = "call" /\ k <= Len(chain) /\ call'[l].point = call[l].point
        /\ call'[l].invoked = k /\ call'[l].value = Append(call[l].value, chain[k])
        /\ k = Len(chain) => pc'[l] = "idle"
        /\ k # Len(chain) => pc'[l] = "call"
    BY <1>1, <1>5 DEF Callback, CallType, PcType, Goto
  <2>2. /\ call[l].point \in Points /\ call[l].value = SubSeq(chain, 1, k - 1)
        /\ chain \in Seq(Plugins) /\ k \in Nat \ {0}
    BY <1>0, <1>1, <2>1 DEF LazyInv, CallFollows, ChainsSorted, CallType
  <2>3. table'[l][call'[l].point] = chain BY <1>2, <2>1
  <2> HIDE DEF chain, k
  <2>4. call'[l].value = SubSeq(chain, 1, k)
    BY <2>1, <2>2, SubSeqRecursiveSecond
  <2>5. k = Len(chain) => SubSeq(chain, 1, k) = chain BY <2>2, SubSeqFull
  <2> QED BY <1>3, <1>4, <2>1, <2>2, <2>3, <2>4, <2>5 DEF LazyInv, CallFollows
<1>6. CASE Raises(l)
  <2>1. call'[l].value = <<>> /\ pc'[l] = "idle"
    BY <1>1, <1>6 DEF Raises, CallType, PcType, Goto
  <2> QED BY <1>3, <1>4, <2>1 DEF LazyInv, CallFollows
<1>7. ASSUME NEW h \in Points, Run(l, h) PROVE LazyInv(l)'
  <2>1. /\ pc'[l] = "call" /\ call'[l] = [point |-> h, invoked |-> 0, value |-> <<>>]
    BY <1>1, <1>7 DEF Run, CallType, PcType, Goto
  <2>2. table'[l][h] \in Seq(Plugins) BY <1>3 DEF ChainsSorted
  <2>3. Len(table'[l][h]) \in Nat /\ SubSeq(table'[l][h], 1, 0) = <<>>
    BY <2>2, LenProperties, SubSeqEmpty
  <2> QED BY <1>3, <1>4, <2>1, <2>3 DEF LazyInv, CallFollows
<1> QED BY <1>5, <1>6, <1>7

LEMMA NextChain == Inv /\ ChainInv /\ [Next]_vars => ChainInv'
<1> SUFFICES ASSUME Inv, ChainInv, [Next]_vars PROVE ChainInv'
  OBVIOUS
<1>1. CASE UNCHANGED vars
  BY <1>1 DEF vars, threadVars, ChainInv, TableType, CallType, LazyInv, ChainsSorted, Sorted,
     LoadsOnce, CallFollows
<1>2. CASE Next
  <2>1. TableType' /\ CallType' BY <1>2, NextTypes
  <2>2. ASSUME NEW l \in Lazy PROVE LazyInv(l)'
    <3>0. LazyInv(l) BY DEF ChainInv
    <3>1. CASE \/ Poll \/ Begin \/ \E p \in Plugins : Enable(p) \/ Disable(p)
               \/ \E t \in Threads : t # l /\ LoadStep(t)
               \/ \E m \in Lazy : m # l /\ LazyStep(m)
      BY <3>0, <3>1, OtherThread, UntouchedLazy
    <3>2. CASE LoadStep(l) \/ FirstRun(l) BY <3>2, OwnLoad
    <3>3. CASE Callback(l) \/ Raises(l) \/ \E h \in Points : Run(l, h) BY <3>3, OwnCall
    <3> QED BY <1>2, <3>1, <3>2, <3>3 DEF Next, LazyStep
  <2> QED BY <2>1, <2>2 DEF ChainInv
<1> QED BY <1>1, <1>2

\* A hook call returns the default or what the whole chain made, in priority order.
THEOREM ChainSafety == Spec => []DefaultOrWholeChain
<1>1. ChainInv => DefaultOrWholeChain
  <2> SUFFICES ASSUME ChainInv, NEW l \in Lazy, pc[l] # "call", call[l].value # <<>>
               PROVE  /\ call[l].value = table[l][call[l].point]
                      /\ Sorted(call[l].value)
    BY DEF DefaultOrWholeChain, Sorted
  <2> QED BY DEF ChainInv, LazyInv, CallFollows, ChainsSorted
<1> QED BY InitInv, NextInv, InitChain, NextChain, <1>1, PTL DEF Spec
=============================================================================
