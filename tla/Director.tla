------------------------------ MODULE Director ------------------------------
(***************************************************************************)
(* From a request to a plan: a director's draft becomes a plan shot by     *)
(* shot (draft_to_plan), or a caller hands in a plan of its own; the plan  *)
(* is checked, its dependencies are resolved layer by layer, and the Codex *)
(* director moves the generated references to the front.                   *)
(***************************************************************************)
EXTENDS PlanGraph

CONSTANTS
  Inputs,       \* requests: shots with their own references, references of the story
  Drafts,       \* answers of a language model
  CallerPlans,  \* plans that callers hand in
  DefaultIds,   \* DefaultIds[i]: "shot-001", ...
  StyleBible,   \* the asset id "style-bible"
  AllowedShots  \* policy.max_shots

ASSUME AllowedShotsAssumption == AllowedShots \in 1..MaxShots
ASSUME InputsAssumption ==
  \A in \in Inputs :
    /\ in.refs \in Seq(ToSet(in.refs)) /\ in.shots \in Seq(ToSet(in.shots))
    /\ \A s \in ToSet(in.shots) :
         /\ s.refs \in Seq(ToSet(s.refs))
         /\ \A f \in s.fixed : f \in Seq(ToSet(f))
ASSUME DraftsAssumption ==
  \A d \in Drafts :
    /\ d.shared \in Seq(ToSet(d.shared)) /\ d.shots \in Seq(ToSet(d.shots))
    /\ \A s \in ToSet(d.shots) : s.shared \in Seq(ToSet(s.shared))
ASSUME CallerPlansAssumption ==
  \A p \in CallerPlans :
    /\ p = [shared |-> p.shared, shots |-> p.shots]
    /\ p.shared \in Seq(ToSet(p.shared)) /\ p.shots \in Seq(ToSet(p.shots))
    /\ \A s \in ToSet(p.shots) :
         /\ s = PlannedShot(s.id, s.order, s.asset, s.previous, s.refs, s.deps)
         /\ s.refs \in Seq(ToSet(s.refs))
         /\ \A r \in ToSet(s.refs) : r.source = {} \/ \E a \in r.source : r.source = {a}

VARIABLES
  origin,     \* who plans: openai, codex, deterministic or caller
  input, draft,
  phase,      \* request, drafting, check, resolve, planned or refused
  reason,     \* why it was refused
  plan,       \* the plan so far
  remaining,  \* validate_graph: the images not resolved yet
  resolved    \* and those whose dependencies are

planVars == <<origin, input, draft, phase, reason, plan, remaining, resolved>>

NoPlan == [shared |-> << >>, shots |-> << >>]

\* The first reference of each id.
Distinct(refs) ==
  FoldLeft(LAMBDA kept, r : IF Contains(kept, r) THEN kept ELSE Append(kept, r), << >>, refs)

\* _all_user_references: a fixed_reference_plan selects and ranks, its last mention counts.
AllUserReferences(story, shot) ==
  LET merged == Distinct(shot.refs \o story)
  IN  IF shot.fixed = {} THEN merged
      ELSE LET ranked == Reverse(Distinct(Reverse(CHOOSE f \in shot.fixed : TRUE)))
           IN  Only(ranked, LAMBDA r : Contains(merged, r))

\* DeterministicDirector.plan
DeterministicDraft(in) ==
  [shared |-> << [asset |-> StyleBible, fact |-> FALSE, visual |-> FALSE] >>,
   shots |-> [i \in DOMAIN in.shots |-> [previous |-> i > 1, shared |-> <<StyleBible>>]]]

PlanInit ==
  /\ remaining = {} /\ resolved = {} /\ reason = "none"
  /\ \/ /\ origin \in {"openai", "codex"} /\ input \in Inputs /\ draft \in Drafts
        /\ phase = "request" /\ plan = NoPlan
     \/ /\ origin = "deterministic" /\ input \in Inputs /\ draft = DeterministicDraft(input)
        /\ phase = "request" /\ plan = NoPlan
     \/ /\ origin = "caller" /\ input = << >> /\ draft = << >>
        /\ phase = "check" /\ plan \in CallerPlans

Refuse(why) ==
  /\ phase' = "refused" /\ reason' = why
  /\ UNCHANGED <<origin, input, draft, plan, remaining, resolved>>

\* The check of the Codex director, _user_shots and the start of draft_to_plan.
RequestProblem ==
  LET odd == origin = "codex"
             /\ [k \in DOMAIN draft.shared |-> draft.shared[k].asset] # <<StyleBible>>
      many == Len(input.shots) > AllowedShots
  IN  IF odd THEN "draft" ELSE IF many THEN "policy"
      ELSE IF Len(draft.shots) # Len(input.shots) THEN "draft" ELSE "none"

BeginDraft ==
  /\ phase = "request"
  /\ \/ RequestProblem # "none" /\ Refuse(RequestProblem)
     \/ /\ RequestProblem = "none" /\ phase' = "drafting"
        /\ plan' = [NoPlan EXCEPT !.shared =
                      [k \in DOMAIN draft.shared |->
                         SharedAsset(draft.shared[k].asset, << >>, {}, draft.shared[k].fact,
                                     draft.shared[k].visual)]]
        /\ UNCHANGED <<origin, input, draft, reason, remaining, resolved>>

UserRefs(source) ==
  LET ids == AllUserReferences(input.refs, source)
  IN  [k \in DOMAIN ids |-> Reference(ids[k], {}, TRUE, FALSE)]

\* The shot before, while a slot is free.
PreviousRefs(wanted, refs) ==
  IF ~wanted \/ plan.shots = << >> \/ Len(refs) >= MaxReferences THEN << >>
  ELSE << Reference(PreviousRef(Last(plan.shots).id), {Last(plan.shots).asset}, FALSE, FALSE) >>

\* As many of the shared images as slots are free; those further back are dropped.
Taken(wanted, refs) == SubSeq(wanted, 1, Min({Len(wanted), MaxReferences - Len(refs)}))
SharedRefs(taken) == [k \in DOMAIN taken |-> Reference(AssetRef(taken[k]), {taken[k]}, FALSE, TRUE)]

\* Mutant: a shared image becomes a dependency before the free slots are counted.
NextShotEager ==
  LET i == Len(plan.shots) + 1
      source == input.shots[i]
      id == IF source.id = {} THEN DefaultIds[i] ELSE CHOOSE s \in source.id : TRUE
      user == UserRefs(source)
      previous == PreviousRefs(draft.shots[i].previous, user)
      refs == Numbered(user \o previous
                       \o SharedRefs(Taken(draft.shots[i].shared, user \o previous)))
  IN  PlannedShot(id, i, KeyframeOf(id), IF previous = << >> THEN {} ELSE {Last(plan.shots).id},
                  refs, (UNION {r.source : r \in ToSet(refs)}) \cup ToSet(draft.shots[i].shared))

\* What the next iteration of the loop over the shots puts together.
NextShot ==
  LET i == Len(plan.shots) + 1
      source == input.shots[i]
      id == IF source.id = {} THEN DefaultIds[i] ELSE CHOOSE s \in source.id : TRUE
      user == UserRefs(source)
      previous == PreviousRefs(draft.shots[i].previous, user)
      refs == Numbered(user \o previous
                       \o SharedRefs(Taken(draft.shots[i].shared, user \o previous)))
  IN  PlannedShot(id, i, KeyframeOf(id), IF previous = << >> THEN {} ELSE {Last(plan.shots).id},
                  refs, UNION {r.source : r \in ToSet(refs)})

\* shared_by_id
Known == {a.asset : a \in ToSet(plan.shared)}

ShotProblem(shot) ==
  IF \E r \in ToSet(shot.refs) : r.made /\ ~(r.source \subseteq Known) THEN "unknown"
  ELSE IF Len(shot.refs) > MaxReferences THEN "fields" ELSE "none"

DraftShot ==
  /\ phase = "drafting" /\ Len(plan.shots) < Len(input.shots)
  /\ \/ ShotProblem(NextShot) # "none" /\ Refuse(ShotProblem(NextShot))
     \/ /\ ShotProblem(NextShot) = "none"
        /\ plan' = [plan EXCEPT !.shots = Append(@, NextShot)]
        /\ UNCHANGED <<origin, input, draft, phase, reason, remaining, resolved>>

EndDraft ==
  /\ phase = "drafting" /\ Len(plan.shots) = Len(input.shots)
  /\ phase' = "check"
  /\ UNCHANGED <<origin, input, draft, reason, plan, remaining, resolved>>

\* validate_graph up to the search for a cycle.
CheckGraph ==
  /\ phase = "check"
  /\ \/ Problem(plan) # "none" /\ Refuse(Problem(plan))
     \/ /\ Problem(plan) = "none" /\ phase' = "resolve"
        /\ remaining' = AssetIds(plan) /\ resolved' = {}
        /\ UNCHANGED <<origin, input, draft, reason, plan>>

Ready == {a \in remaining : DepsOf(plan, a) \subseteq resolved}

\* Mutant: the loop ends as soon as nothing is ready.
ResolveLayerGiveUp ==
  /\ phase = "resolve" /\ remaining # {}
  /\ resolved' = resolved \cup Ready
  /\ remaining' = IF Ready = {} THEN {} ELSE remaining \ Ready
  /\ UNCHANGED <<origin, input, draft, phase, reason, plan>>

\* while remaining: one layer of the images whose dependencies are resolved.
ResolveLayer ==
  /\ phase = "resolve" /\ remaining # {}
  /\ \/ Ready = {} /\ Refuse("cycle")
     \/ /\ Ready # {}
        /\ resolved' = resolved \cup Ready /\ remaining' = remaining \ Ready
        /\ UNCHANGED <<origin, input, draft, phase, reason, plan>>

\* CodexDirector.plan: generated references first, both parts in their order.
MadeFirst(refs) ==
  Numbered(Only(refs, LAMBDA r : r.made) \o Only(refs, LAMBDA r : ~r.made))
GeneratedFirst(p) ==
  [p EXCEPT !.shots = [i \in DOMAIN p.shots |-> [p.shots[i] EXCEPT !.refs = MadeFirst(@)]]]

Accept ==
  /\ phase = "resolve" /\ remaining = {}
  /\ phase' = "planned"
  /\ plan' = IF origin = "codex" THEN GeneratedFirst(InOrder(plan)) ELSE InOrder(plan)
  /\ UNCHANGED <<origin, input, draft, reason, remaining, resolved>>

PlanNext == BeginDraft \/ DraftShot \/ EndDraft \/ CheckGraph \/ ResolveLayer \/ Accept

-----------------------------------------------------------------------------
(* Properties                                                                *)

\* A plan is accepted only if no set of its images waits for itself and nothing waits for what the
\* plan does not make, so that an execution can reach every image; and it is refused for
\* a cycle only if it has one (schemas.py, validate_graph).
Verdict ==
  /\ phase = "planned" =>
       \A S \in SUBSET AssetIds(plan) :
         /\ ~Cycle(plan, S)
         /\ \A a \in S : DepsOf(plan, a) \subseteq AssetIds(plan)
  /\ phase = "refused" /\ reason = "cycle" => \E S \in SUBSET AssetIds(plan) : Cycle(plan, S)
=============================================================================
