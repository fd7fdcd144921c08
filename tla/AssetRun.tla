------------------------------ MODULE AssetRun ------------------------------
(***************************************************************************)
(* What one run owes to the images of a plan: an image is generated only   *)
(* from generated images, no more than Width at a time, one that fails     *)
(* takes only its descendants with it, and the run closes when every image *)
(* is settled.                                                             *)
(***************************************************************************)
EXTENDS FiniteSets, Naturals

CONSTANTS
  Assets,  \* the images of the plan: shared assets and shot keyframes
  Deps,    \* Deps[a]: the images that a needs
  Width    \* policy.max_concurrency

VARIABLES
  open,    \* a run is being executed
  state    \* state[a]: how far image a has come

runVars == <<open, state>>

States == {"waiting", "running", "generated", "failed", "blocked"}
Fresh == [a \in Assets |-> "waiting"]
Lost == {a \in Assets : state[a] \in {"failed", "blocked"}}

RunInit == open = FALSE /\ state = Fresh

Open == ~open /\ open' = TRUE /\ state' = Fresh

\* What may become of one image in one step of the run.
Moves(a) ==
  \/ state'[a] = state[a]
  \/ /\ state[a] = "waiting" /\ state'[a] = "running"
     /\ \A d \in Deps[a] : state[d] = "generated"
  \/ /\ state[a] = "waiting" /\ state'[a] = "blocked"
     /\ Deps[a] \cap Lost' # {}
  \/ state[a] = "running" /\ state'[a] \in {"generated", "failed"}

Proceed ==
  /\ open /\ UNCHANGED open
  /\ state' \in [Assets -> States]
  /\ \A a \in Assets : Moves(a)
  /\ Cardinality({a \in Assets : state'[a] = "running"}) <= Width

Close ==
  /\ open /\ open' = FALSE
  /\ \A a \in Assets : state[a] \in {"generated", "failed", "blocked"}
  /\ UNCHANGED state

\* The process dies: nothing is left of the run but its files.
Abort == open /\ open' = FALSE /\ state' = Fresh

RunNext == Open \/ Proceed \/ Close \/ Abort
RunSpec == RunInit /\ [][RunNext]_runVars
=============================================================================
