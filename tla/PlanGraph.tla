------------------------------ MODULE PlanGraph ------------------------------
(***************************************************************************)
(* The plan of schemas.py as a value: shared images and shots, each with   *)
(* the assets it depends on and its ordered references, and the checks of  *)
(* CanvasPlan.validate_graph.  An optional field is a set with at most one *)
(* element.  An item's asset is asset_id of a shared image and             *)
(* keyframe_asset_id of a shot.                                            *)
(***************************************************************************)
EXTENDS FiniteSets, Integers, Sequences, SequencesExt

MaxReferences == 5
MaxShots == 24

\* The names that the program derives from others.
KeyframeOf(shot) == <<"keyframe", shot>>
VideoOf(shot) == <<"video", shot>>
StoryVideo == VideoOf("story")
PreviousRef(shot) == <<"previous", shot>>
AssetRef(asset) == <<"asset", asset>>

\* PlannedReference; made: its provenance is image_generation.
Reference(id, source, path, made) ==
  [order |-> 0, id |-> id, source |-> source, path |-> path, made |-> made]
Numbered(refs) == [k \in DOMAIN refs |-> [refs[k] EXCEPT !.order = k]]

\* PlannedAsset; fact and visual: it has a search_query, a visual_search_query.
SharedAsset(asset, refs, deps, fact, visual) ==
  [asset |-> asset, refs |-> refs, deps |-> deps, fact |-> fact, visual |-> visual]

\* PlannedShot
PlannedShot(id, order, asset, previous, refs, deps) ==
  [id |-> id, order |-> order, asset |-> asset, previous |-> previous, refs |-> refs,
   deps |-> deps]

\* The references that pass the test, in their order: a comprehension with a condition.
Only(refs, Test(_)) ==
  FoldLeft(LAMBDA kept, r : IF Test(r) THEN Append(kept, r) ELSE kept, << >>, refs)

Items(p) == p.shared \o p.shots
AssetIds(p) == {item.asset : item \in ToSet(Items(p))}
DepsOf(p, a) == UNION {item.deps : item \in {i \in ToSet(Items(p)) : i.asset = a}}

\* The lengths that the fields allow.
FieldsFit(p) ==
  /\ Len(p.shots) \in 1..MaxShots
  /\ \A item \in ToSet(Items(p)) : Len(item.refs) <= MaxReferences

IdsUnique(p) ==
  /\ IsInjective([i \in DOMAIN p.shots |-> p.shots[i].id])
  /\ IsInjective([i \in DOMAIN Items(p) |-> Items(p)[i].asset])
  /\ AssetIds(p) \cap ({StoryVideo} \cup {VideoOf(s.id) : s \in ToSet(p.shots)}) = {}

OrdersContiguous(p) ==
  LET orders == [i \in DOMAIN p.shots |-> p.shots[i].order]
  IN  IsInjective(orders) /\ ToSet(orders) = DOMAIN p.shots

DependenciesKnown(p) == \A item \in ToSet(Items(p)) : item.deps \subseteq AssetIds(p)

ReferencesDeclared(p) ==
  \A item \in ToSet(Items(p)) :
    /\ \A k \in DOMAIN item.refs :
         /\ item.refs[k].order = k
         /\ item.refs[k].source # {} \/ item.refs[k].path
         /\ item.refs[k].source \subseteq item.deps
    /\ IsInjective([k \in DOMAIN item.refs |-> item.refs[k].id])

PreviousEarlier(p) ==
  \A s \in ToSet(p.shots) : \A q \in s.previous :
    \E t \in ToSet(p.shots) : t.id = q /\ t.order < s.order /\ t.asset \in s.deps

\* The first check that fails, in the order of the code; the search for a cycle follows.
Problem(p) ==
  IF ~FieldsFit(p) THEN "fields"
  ELSE IF ~(IdsUnique(p) /\ OrdersContiguous(p)) THEN "ids"
  ELSE IF ~DependenciesKnown(p) THEN "dependency"
  ELSE IF ~ReferencesDeclared(p) THEN "reference"
  ELSE IF ~PreviousEarlier(p) THEN "previous" ELSE "none"

\* object.__setattr__(self, "shots", sorted(...))
InOrder(p) ==
  [p EXCEPT !.shots = [k \in DOMAIN @ |-> CHOOSE s \in ToSet(p.shots) : s.order = k]]

\* A set of images each of which waits for another one of the set.
Cycle(p, S) == S # {} /\ \A a \in S : DepsOf(p, a) \cap S # {}
=============================================================================
