--------------------------- MODULE PluginRegistry ---------------------------
(***************************************************************************)
(* PluginRegistry (plugins/registry.py) under StoryCanvas.from_profile and *)
(* close (engine.py): a composition is validated, plugins are started pass *)
(* after pass as what they require becomes active, and whatever was        *)
(* started is stopped again when a start fails, when nothing can start,    *)
(* when the engine cannot be composed, or when it is closed.               *)
(***************************************************************************)
EXTENDS Naturals, Sequences

CONSTANTS
  NumPlugins,    \* plugins of the Profile, numbered in the order of their ids
  Capabilities,  \* capability names
  Wanted,        \* those that from_registry resolves when a plugin has them
  Needed         \* those that it resolves in any case: story.plan

Plugins == 1..NumPlugins

ASSUME CompositionAssumption == NumPlugins \in Nat \ {0} /\ Wanted \cup Needed \subseteq Capabilities

VARIABLES
  provides, requires, \* manifest.provides and .requires of each plugin; they never change
  bindings,  \* Profile bindings: the plugin bound to a capability, 0 for none
  status,    \* status[i]: PluginStatus
  held,      \* held[i]: start() was called, and stop() was not called since
  order,     \* _activation_order
  pc,        \* where the composition is
  at,        \* the plugin that the pass has come to
  progress   \* the local variable of activate_all

composition == <<provides, requires, bindings>>
vars == <<composition, status, held, order, pc, at, progress>>

Status == {"discovered", "waiting", "active", "failed", "disposed"}
PC == {"registered", "pass", "failing", "compose", "open", "dispose", "gone", "rejected"}

TypeOK ==
  /\ provides \in [Plugins -> SUBSET Capabilities] /\ requires \in [Plugins -> SUBSET Capabilities]
  /\ bindings \in [Capabilities -> Plugins \cup {0}]
  /\ status \in [Plugins -> Status]
  /\ held \in [Plugins -> BOOLEAN]
  /\ order \in Seq(Plugins) /\ Len(order) <= NumPlugins
  /\ pc \in PC
  /\ at \in 1..(NumPlugins + 1)
  /\ progress \in BOOLEAN

\* The registered plugins of any Profile that passes its own validation.
Init ==
  /\ provides \in [Plugins -> (SUBSET Capabilities) \ {{}}]
  /\ requires \in [Plugins -> SUBSET Capabilities]
  /\ bindings \in [Capabilities -> Plugins \cup {0}]
  /\ status = [i \in Plugins |-> "discovered"]
  /\ held = [i \in Plugins |-> FALSE]
  /\ order = << >>
  /\ pc = "registered" /\ at = 1 /\ progress = FALSE

Providers(c) == {i \in Plugins : c \in provides[i]}
Single(S) == \E x \in S : S = {x}

\* validate_bindings; permissions are part of it and left out.
ValidBindings ==
  /\ \A c \in Capabilities : bindings[c] # 0 => bindings[c] \in Providers(c)
  /\ \A i \in Plugins : \A c \in requires[i] :
       Providers(c) # {} /\ (bindings[c] # 0 \/ Single(Providers(c)))

\* The plugins that a requirement may rest on: the bound one, else the only provider.
Chosen(c) == IF bindings[c] # 0 THEN {bindings[c]} ELSE Providers(c)

\* Mutant: any active provider satisfies a requirement.
ReadyByAny(i) ==
  \A c \in requires[i] : \E j \in Providers(c) : status[j] = "active"

\* _requirement_ready for all that plugin i requires.
Ready(i) == \A c \in requires[i] : \A j \in Chosen(c) : status[j] = "active"

\* Mutant: a plugin that was started stays pending.
PendingForever == {i \in Plugins : status[i] # "failed"}

Pending == {i \in Plugins : status[i] \in {"discovered", "waiting"}}

-----------------------------------------------------------------------------
Validate ==
  /\ pc = "registered"
  /\ pc' = IF ValidBindings THEN "pass" ELSE "rejected"
  /\ UNCHANGED <<composition, status, held, order, at, progress>>

Wait ==
  /\ pc = "pass" /\ at \in Pending /\ ~Ready(at)
  /\ status' = [status EXCEPT ![at] = "waiting"]
  /\ at' = at + 1
  /\ UNCHANGED <<composition, held, order, pc, progress>>

\* Mutant: a plugin whose start fails is not stopped.
StartWithoutCleanup ==
  /\ pc = "pass" /\ at \in Pending /\ Ready(at)
  /\ held' = [held EXCEPT ![at] = TRUE]
  /\ \/ /\ status' = [status EXCEPT ![at] = "active"]
        /\ order' = Append(order, at)
        /\ at' = at + 1 /\ progress' = TRUE /\ UNCHANGED pc
     \/ /\ status' = [status EXCEPT ![at] = "failed"]
        /\ pc' = "dispose" /\ UNCHANGED <<order, at, progress>>
  /\ UNCHANGED composition

\* plugin.start() returns, or raises with some of its resources taken.
Start ==
  /\ pc = "pass" /\ at \in Pending /\ Ready(at)
  /\ held' = [held EXCEPT ![at] = TRUE]
  /\ \/ /\ status' = [status EXCEPT ![at] = "active"]
        /\ order' = Append(order, at)
        /\ at' = at + 1 /\ progress' = TRUE /\ UNCHANGED pc
     \/ /\ status' = [status EXCEPT ![at] = "failed"]
        /\ pc' = "failing" /\ UNCHANGED <<order, at, progress>>
  /\ UNCHANGED composition

\* The pass was taken over sorted(pending) as it was; who is not in it is passed over.
PassOver ==
  /\ pc = "pass" /\ at \in Plugins \ Pending
  /\ at' = at + 1
  /\ UNCHANGED <<composition, status, held, order, pc, progress>>

\* Mutant: passes go on although nothing was started.
EndPassAgain ==
  /\ pc = "pass" /\ at > NumPlugins
  /\ at' = 1 /\ progress' = FALSE
  /\ pc' = IF Pending = {} THEN "compose" ELSE "pass"
  /\ UNCHANGED <<composition, status, held, order>>

\* The end of a pass: all are active, or another pass is due, or there is a cycle.
EndPass ==
  /\ pc = "pass" /\ at > NumPlugins
  /\ at' = 1 /\ progress' = FALSE
  /\ \/ Pending = {} /\ pc' = "compose"
     \/ Pending # {} /\ progress /\ pc' = "pass"
     \/ Pending # {} /\ ~progress /\ pc' = "dispose"
  /\ UNCHANGED <<composition, status, held, order>>

\* The plugin that failed is stopped, which may fail as well; then all the others.
StopFailed ==
  /\ pc = "failing" /\ pc' = "dispose"
  /\ held' = [held EXCEPT ![at] = FALSE]
  /\ UNCHANGED <<composition, status, order, at, progress>>

\* Mutant: plugins are stopped in the order in which they were started.
DisposeInOrder ==
  /\ pc = "dispose" /\ order # << >>
  /\ order' = Tail(order)
  /\ status' = [status EXCEPT ![order[1]] = "disposed"]
  /\ held' = [held EXCEPT ![order[1]] = FALSE]
  /\ UNCHANGED <<composition, pc, at, progress>>

\* dispose_all, one plugin at a time from the last started; a stop() that raises is recorded
\* and does not keep the others from being stopped.
Dispose ==
  /\ pc = "dispose" /\ order # << >>
  /\ order' = SubSeq(order, 1, Len(order) - 1)
  /\ status' = [status EXCEPT ![order[Len(order)]] = "disposed"]
  /\ held' = [held EXCEPT ![order[Len(order)]] = FALSE]
  /\ UNCHANGED <<composition, pc, at, progress>>

Disposed ==
  /\ pc = "dispose" /\ order = << >>
  /\ pc' = "gone"
  /\ UNCHANGED <<composition, status, held, order, at, progress>>

\* provider_id: the service of a capability is the bound plugin's, else the only one's.
Resolvable(c) == bindings[c] # 0 \/ Single(Providers(c))

\* from_registry; what it cannot resolve makes from_profile dispose of the registry.
Compose ==
  /\ pc = "compose"
  /\ pc' = IF \A c \in Wanted \cup Needed : Resolvable(c) \/ (Providers(c) = {} /\ c \notin Needed)
           THEN "open" ELSE "dispose"
  /\ UNCHANGED <<composition, status, held, order, at, progress>>

Close ==
  /\ pc = "open" /\ pc' = "dispose"
  /\ UNCHANGED <<composition, status, held, order, at, progress>>

Steps ==
  \/ Validate \/ Wait \/ Start \/ PassOver \/ EndPass \/ StopFailed \/ Dispose \/ Disposed
  \/ Compose

Next == Steps \/ Close

Spec == Init /\ [][Next]_vars

\* The code is sequential and every start() and stop() ends; nobody has to close an engine.
FairSpec == Spec /\ WF_vars(Steps)

-----------------------------------------------------------------------------
(***************************************************************************)
(* docs/PLUGIN_ARCHITECTURE.md:42-47: while a plugin runs, the very        *)
(* provider it was started on runs too; it is stopped after all that rest  *)
(* on it (registry.py:97-99, 143-152, 187-199).                            *)
(***************************************************************************)
ProvidersOutlive ==
  \A i \in Plugins : held[i] =>
    \A c \in requires[i] : \A j \in Chosen(c) : held[j] /\ status[j] = "active"

(***************************************************************************)
(* docs/PLUGIN_ARCHITECTURE.md:46: startup failures and dependency cycles  *)
(* dispose resources already started.  Once a composition is given up or   *)
(* closed nothing is held, and one that is open holds all of it.           *)
(***************************************************************************)
AllOrNothing ==
  /\ pc \in {"gone", "rejected"} => \A i \in Plugins : ~held[i]
  /\ pc \in {"compose", "open"} => \A i \in Plugins : held[i] /\ status[i] = "active"

(***************************************************************************)
(* Every composition is settled: it opens or everything is stopped, even   *)
(* when requirements form a cycle (registry.py:89-141).                    *)
(***************************************************************************)
ActivationEnds == <>(pc \in {"open", "gone", "rejected"})
=============================================================================
