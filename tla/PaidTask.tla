------------------------------ MODULE PaidTask ------------------------------
(***************************************************************************)
(* What a resumable provider promises about one billable video task: the   *)
(* intent is durable before the payment, there is one payment at most, and *)
(* a task id that was learned is never replaced.                           *)
(***************************************************************************)
EXTENDS Naturals

CONSTANTS TaskIds, NoTask

VARIABLES
  phase,  \* what the state file proves: nothing, an intent, an ambiguity, a task id
  paid,   \* how often a task creation was requested
  id      \* the durable task id

taskVars == <<phase, paid, id>>

PaidInit == phase = "none" /\ paid = 0 /\ id = NoTask

Intend == phase = "none" /\ phase' = "intent" /\ UNCHANGED <<paid, id>>

Pay == phase = "intent" /\ paid = 0 /\ paid' = 1 /\ UNCHANGED <<phase, id>>

Learn ==
  /\ phase = "intent" /\ paid = 1
  /\ phase' = "known"
  /\ id' \in TaskIds
  /\ UNCHANGED paid

\* No later step leaves the ambiguity: it is for a person to reconcile.
GiveUp == phase = "intent" /\ paid = 1 /\ phase' = "ambiguous" /\ UNCHANGED <<paid, id>>

PaidNext == Intend \/ Pay \/ Learn \/ GiveUp

PaidSpec == PaidInit /\ [][PaidNext]_taskVars
=============================================================================
