--------------------------- MODULE PluginRegistry ---------------------------
(***************************************************************************)
(* Loading, unloading and calling of plugins.  plugind keeps one registry  *)
(* that two of its threads work on: the poll loop (load_enabled) and the   *)
(* REST server (enable, disable).  Every other process that calls a hook   *)
(* has a registry of its own, filled once, by its first hooks.run.  The    *)
(* .disabled marker files are all they share.  A step is one decision or   *)
(* one hook registration, so that threads meet in the middle of a load.    *)
(***************************************************************************)
EXTENDS Naturals, Sequences

CONSTANTS
  Order,      \* the plugins, in the order discover finds them
  Deps, Conflicts, \* of each plugin: the plugins its manifest names
  Hooks,      \* of each plugin: the hook points it registers for, in order
  Priority,   \* of each plugin
  Fragile,    \* plugins whose modules may fail to import
  Lazy,       \* the processes that load plugins on their first hook call
  MaxToggles, MaxFailures  \* bounds: requests to enable or disable, failed imports

Plugins == {Order[k] : k \in 1..Len(Order)}
Points == UNION {{Hooks[p][k] : k \in 1..Len(Hooks[p])} : p \in Plugins}
Threads == {"poll", "rest"} \cup Lazy
Registries == {"plugind"} \cup Lazy

ASSUME RegistryAssumption ==
  /\ Order \in Seq(Plugins)
  /\ Deps \in [Plugins -> SUBSET Plugins] /\ Conflicts \in [Plugins -> SUBSET Plugins]
  /\ Fragile \subseteq Plugins /\ Priority \in [Plugins -> Nat]
  /\ Lazy \cap {"plugind", "poll", "rest"} = {} /\ MaxToggles \in Nat /\ MaxFailures \in Nat

VARIABLES
  disabled,  \* plugins with a .disabled marker
  loaded,    \* registry: its plugins with info.loaded
  table,     \* registry: hook point: the plugins registered, in call order
  pc,        \* thread: where it is
  at, pass, pending, \* thread: position, pass and pending of load_enabled
  job, hook, \* thread: the plugin it loads or unloads, the hook it registers next
  ready,     \* the Lazy processes that have loaded (HookRegistry._loaded)
  call,      \* Lazy process: its last hooks.run: the hook point, the callbacks invoked, the value
  steady,    \* plugins disabled since the poll began (history)
  toggles, failures

threadVars == <<pc, at, pass, pending, job, hook>>
vars == <<disabled, loaded, table, threadVars, ready, call, steady, toggles, failures>>

\* Definitions whose name ends in Bug are mutated forms of the next definition.

Init ==
  /\ disabled \in SUBSET Plugins /\ steady = {} /\ toggles = 0 /\ failures = 0
  /\ loaded = [r \in Registries |-> {}]
  /\ table = [r \in Registries |-> [h \in Points |-> <<>>]]
  /\ pc = [t \in Threads |-> "idle"] /\ at = [t \in Threads |-> 1]
  /\ pass = [t \in Threads |-> 1] /\ pending = [t \in Threads |-> FALSE]
  /\ job = [t \in Threads |-> "none"] /\ hook = [t \in Threads |-> 1]
  /\ ready = {} /\ call = [l \in Lazy |-> [point |-> "none", invoked |-> 0, value |-> <<>>]]

-----------------------------------------------------------------------------
(* Helpers.                                                                *)

\* The registry a thread works on.
Reg(t) == IF t \in Lazy THEN t ELSE "plugind"

Current(t) == Order[at[t]]
Goto(t, where) == pc' = [pc EXCEPT ![t] = where]
Advance(t) == at' = [at EXCEPT ![t] = @ + 1]

\* HookRegistry.register: append, then the stable sort by priority.  The list is sorted
\* before, so p ends up behind the last callback of no higher priority.
Behind(s, p) ==
  CHOOSE k \in 0..Len(s) : \A j \in 1..Len(s) : j <= k <=> Priority[s[j]] <= Priority[p]
Register(s, p) == SubSeq(s, 1, Behind(s, p)) \o <<p>> \o SubSeq(s, Behind(s, p) + 1, Len(s))

\* HookRegistry.unregister_all.
Unregister(t, p) == [h \in Points |-> SelectSeq(table[Reg(t)][h], LAMBDA q : q # p)]

\* check_dependencies and check_conflicts, against what is loaded here.
CanLoad(t, p) == Deps[p] \subseteq loaded[Reg(t)] /\ Conflicts[p] \cap loaded[Reg(t)] = {}

-----------------------------------------------------------------------------
(* PluginRegistry.load_enabled, run by the poll loop and, once, by every   *)
(* Lazy process.                                                           *)

EnterBug(t) == Goto(t, "visit") /\ at' = [at EXCEPT ![t] = 1]
\* load_enabled begins.
Enter(t) == Goto(t, "unload") /\ at' = [at EXCEPT ![t] = 1]

\* plugind's loop, about once a second.
Poll ==
  /\ pc["poll"] = "idle" /\ Enter("poll") /\ steady' = disabled
  /\ UNCHANGED <<disabled, loaded, table, pass, pending, job, hook, ready, call, toggles, failures>>

\* _ensure_loaded: the flag is set before the load.
FirstRun(l) ==
  /\ pc[l] = "idle" /\ l \notin ready /\ Enter(l) /\ ready' = ready \cup {l}
  /\ UNCHANGED <<disabled, loaded, table, pass, pending, job, hook, call, steady, toggles,
                 failures>>

\* First loop: a plugin that is loaded and disabled is picked.
PickUnload(t) ==
  /\ pc[t] = "unload" /\ at[t] <= Len(Order)
  /\ IF Current(t) \in disabled \cap loaded[Reg(t)]
       THEN Goto(t, "unloading") /\ job' = [job EXCEPT ![t] = Current(t)] /\ UNCHANGED at
       ELSE Advance(t) /\ UNCHANGED <<pc, job>>
  /\ UNCHANGED <<disabled, loaded, table, pass, pending, hook, ready, call, steady, toggles, failures>>

\* Where a load or an unload returns to.  Locals that are dead are reset.
Return(t, where) ==
  /\ IF t = "rest" THEN Goto(t, "idle") /\ UNCHANGED at ELSE Goto(t, where) /\ Advance(t)
  /\ job' = [job EXCEPT ![t] = "none"] /\ hook' = [hook EXCEPT ![t] = 1]

\* unload_plugin: nothing for a plugin that is not loaded.
Unload(t) ==
  /\ pc[t] = "unloading" /\ Return(t, "unload")
  /\ IF job[t] \in loaded[Reg(t)]
       THEN /\ loaded' = [loaded EXCEPT ![Reg(t)] = @ \ {job[t]}]
            /\ table' = [table EXCEPT ![Reg(t)] = Unregister(t, job[t])]
       ELSE UNCHANGED <<loaded, table>>
  /\ UNCHANGED <<disabled, pass, pending, ready, call, steady, toggles, failures>>

UnloadLoopOverBug(t) ==
  /\ pc[t] = "unload" /\ at[t] > Len(Order)
  /\ Goto(t, "visit") /\ pending' = [pending EXCEPT ![t] = FALSE]
  /\ UNCHANGED <<disabled, loaded, table, at, pass, job, hook, ready, call, steady, toggles, failures>>
UnloadLoopOver(t) ==
  /\ pc[t] = "unload" /\ at[t] > Len(Order)
  /\ Goto(t, "visit") /\ at' = [at EXCEPT ![t] = 1] /\ pending' = [pending EXCEPT ![t] = FALSE]
  /\ UNCHANGED <<disabled, loaded, table, pass, job, hook, ready, call, steady, toggles, failures>>

\* load_plugin begins: its hooks are next.
Start(t, p) ==
  Goto(t, "register") /\ job' = [job EXCEPT ![t] = p] /\ hook' = [hook EXCEPT ![t] = 1]

\* Second loop: disabled and loaded plugins are passed over, a missing dependency is
\* a reason for another pass and a conflict is not.
Visit(t) ==
  /\ pc[t] = "visit" /\ at[t] <= Len(Order)
  /\ \/ /\ Current(t) \in disabled \cup loaded[Reg(t)]
        /\ Advance(t) /\ UNCHANGED <<pc, pending, job, hook>>
     \/ /\ Current(t) \notin disabled \cup loaded[Reg(t)] /\ ~CanLoad(t, Current(t))
        /\ pending' = [pending EXCEPT ![t] = @ \/ ~(Deps[Current(t)] \subseteq loaded[Reg(t)])]
        /\ Advance(t) /\ UNCHANGED <<pc, job, hook>>
     \/ /\ Current(t) \notin disabled \cup loaded[Reg(t)] /\ CanLoad(t, Current(t))
        /\ Start(t, Current(t)) /\ UNCHANGED <<at, pending>>
  /\ UNCHANGED <<disabled, loaded, table, pass, ready, call, steady, toggles, failures>>

\* At most two passes.
PassOver(t) ==
  /\ pc[t] = "visit" /\ at[t] > Len(Order)
  /\ IF pending[t] /\ pass[t] = 1
       THEN pass' = [pass EXCEPT ![t] = 2] /\ UNCHANGED pc
       ELSE pass' = [pass EXCEPT ![t] = 1] /\ Goto(t, "idle")
  /\ at' = [at EXCEPT ![t] = 1] /\ pending' = [pending EXCEPT ![t] = FALSE]
  /\ UNCHANGED <<disabled, loaded, table, job, hook, ready, call, steady, toggles, failures>>

-----------------------------------------------------------------------------
(* PluginRegistry.load_plugin after its checks, by any thread.             *)

\* One module is imported and its callback registered.
RegisterHook(t) ==
  LET h == Hooks[job[t]][hook[t]] IN
  /\ pc[t] = "register" /\ hook[t] <= Len(Hooks[job[t]])
  /\ table' = [table EXCEPT ![Reg(t)][h] = Register(@, job[t])]
  /\ hook' = [hook EXCEPT ![t] = @ + 1]
  /\ UNCHANGED <<disabled, loaded, pc, at, pass, pending, job, ready, call, steady, toggles, failures>>

\* The import raises: not loaded, and what is registered stays.
ImportFails(t) ==
  /\ pc[t] = "register" /\ hook[t] <= Len(Hooks[job[t]]) /\ job[t] \in Fragile
  /\ failures < MaxFailures /\ failures' = failures + 1
  /\ loaded' = [loaded EXCEPT ![Reg(t)] = @ \ {job[t]}] /\ Return(t, "visit")
  /\ UNCHANGED <<disabled, table, pass, pending, ready, call, steady, toggles>>

Loaded(t) ==
  /\ pc[t] = "register" /\ hook[t] > Len(Hooks[job[t]])
  /\ loaded' = [loaded EXCEPT ![Reg(t)] = @ \cup {job[t]}] /\ Return(t, "visit")
  /\ UNCHANGED <<disabled, table, pass, pending, ready, call, steady, toggles, failures>>

-----------------------------------------------------------------------------
(* The REST server: one request at a time.                                 *)

\* PUT enable removes the marker ...
Enable(p) ==
  /\ pc["rest"] = "idle" /\ toggles < MaxToggles /\ toggles' = toggles + 1
  /\ disabled' = disabled \ {p} /\ steady' = steady \ {p}
  /\ Goto("rest", "begin") /\ job' = [job EXCEPT !["rest"] = p]
  /\ UNCHANGED <<loaded, table, at, pass, pending, hook, ready, call, failures>>

\* ... and calls load_plugin.
Begin ==
  /\ pc["rest"] = "begin"
  /\ IF job["rest"] \in loaded["plugind"] \/ ~CanLoad("rest", job["rest"])
       THEN Goto("rest", "idle") /\ job' = [job EXCEPT !["rest"] = "none"] /\ UNCHANGED hook
       ELSE Start("rest", job["rest"])
  /\ UNCHANGED <<disabled, loaded, table, at, pass, pending, ready, call, steady, toggles, failures>>

\* PUT disable writes the marker and calls unload_plugin.
Disable(p) ==
  /\ pc["rest"] = "idle" /\ toggles < MaxToggles /\ toggles' = toggles + 1
  /\ disabled' = disabled \cup {p}
  /\ Goto("rest", "unloading") /\ job' = [job EXCEPT !["rest"] = p]
  /\ UNCHANGED <<loaded, table, at, pass, pending, hook, ready, call, steady, failures>>

-----------------------------------------------------------------------------
(* HookRegistry.run of a Lazy process, callback by callback.  A value is   *)
(* the callbacks that made it; <<>> is the default.                        *)

Run(l, h) ==
  /\ pc[l] = "idle" /\ l \in ready /\ table[l][h] # <<>>
  /\ Goto(l, "call") /\ call' = [call EXCEPT ![l] = [point |-> h, invoked |-> 0, value |-> <<>>]]
  /\ UNCHANGED <<disabled, loaded, table, at, pass, pending, job, hook, ready, steady, toggles, failures>>

Callback(l) ==
  LET chain == table[l][call[l].point]
      k == call[l].invoked + 1 IN
  /\ pc[l] = "call" /\ k <= Len(chain)
  /\ call' = [call EXCEPT ![l].invoked = k, ![l].value = Append(@, chain[k])]
  /\ IF k = Len(chain) THEN Goto(l, "idle") ELSE UNCHANGED pc
  /\ UNCHANGED <<disabled, loaded, table, at, pass, pending, job, hook, ready, steady, toggles, failures>>

RaisesBug(l) ==
  /\ pc[l] = "call" /\ Goto(l, "idle")
  /\ call' = [call EXCEPT ![l].invoked = @ + 1]
  /\ UNCHANGED <<disabled, loaded, table, at, pass, pending, job, hook, ready, steady, toggles, failures>>
\* A callback raises: the default is returned at once.
Raises(l) ==
  /\ pc[l] = "call" /\ Goto(l, "idle")
  /\ call' = [call EXCEPT ![l].invoked = @ + 1, ![l].value = <<>>]
  /\ UNCHANGED <<disabled, loaded, table, at, pass, pending, job, hook, ready, steady, toggles, failures>>

-----------------------------------------------------------------------------
LoadStep(t) ==
  \/ PickUnload(t) \/ Unload(t) \/ UnloadLoopOver(t) \/ Visit(t) \/ PassOver(t)
  \/ RegisterHook(t) \/ ImportFails(t) \/ Loaded(t)

LazyStep(l) == FirstRun(l) \/ Callback(l) \/ Raises(l) \/ \E h \in Points : Run(l, h)

Next ==
  \/ Poll \/ Begin
  \/ \E t \in Threads : LoadStep(t)
  \/ \E l \in Lazy : LazyStep(l)
  \/ \E p \in Plugins : Enable(p) \/ Disable(p)

Spec == Init /\ [][Next]_vars

\* plugind polls and its threads run; requests and hook calls are never owed.
FairSpec ==
  /\ Spec /\ WF_vars(Poll) /\ WF_vars(Begin)
  /\ \A t \in {"poll", "rest"} : WF_vars(LoadStep(t))

-----------------------------------------------------------------------------
Listed(s) == {s[k] : k \in 1..Len(s)}

\* Types and bounds.
TypeOK ==
  /\ disabled \subseteq Plugins /\ steady \subseteq Plugins /\ ready \subseteq Lazy
  /\ loaded \in [Registries -> SUBSET Plugins] /\ toggles \in 0..MaxToggles
  /\ failures \in 0..MaxFailures
  /\ \A r \in Registries, h \in Points : table[r][h] \in Seq(Plugins)
  /\ pc \in [Threads -> {"idle", "unload", "unloading", "visit", "register", "begin", "call"}]
  /\ at \in [Threads -> 1..(Len(Order) + 1)] /\ pass \in [Threads -> 1..2]
  /\ pending \in [Threads -> BOOLEAN] /\ job \in [Threads -> Plugins \cup {"none"}]
  /\ hook \in [Threads -> Nat \ {0}]
  /\ \A l \in Lazy : call[l].invoked \in Nat /\ call[l].value \in Seq(Plugins)

\* A plugin that is disabled when a poll begins, and not enabled meanwhile, is not loaded
\* in plugind when the poll has ended, whatever the REST thread and the poll were loading
\* when the marker was written.
DisabledIsUnloaded == pc["poll"] = "idle" => steady \cap loaded["plugind"] = {}

\* hooks.run returns the default or the result of the whole chain, in priority order:
\* never a value some of the callbacks made.
DefaultOrWholeChain ==
  \A l \in Lazy : LET value == call[l].value IN
    pc[l] # "call" /\ value # <<>> =>
      /\ value = table[l][call[l].point]
      /\ \A j, k \in 1..Len(value) : j < k => Priority[value[j]] <= Priority[value[k]]

\* In plugind an enabled plugin whose manifest is satisfied is in the end loaded, if it
\* imports at all: what one poll passes over a later one loads.
EnabledIsLoaded ==
  \A p \in Plugins \ Fragile :
    <>[](/\ p \notin disabled /\ Deps[p] \subseteq loaded["plugind"]
         /\ Conflicts[p] \cap loaded["plugind"] = {})
      => <>[](p \in loaded["plugind"])

\* unload_plugin, registry.py:186: "Unload a plugin and unregister its hooks."  A plugin
\* disabled for a whole poll has no hook left in plugind.
DisabledHasNoHooks ==
  pc["poll"] = "idle" =>
    \A h \in Points : steady \cap Listed(table["plugind"][h]) = {}
=============================================================================
