-------------------------- MODULE MCWorkflowCompile --------------------------
(* Requests with files up to and beyond the limit, drafts that repeat, miss or misname an image, *)
(* and plans of a caller with every dependency relation between one shared image and two shots.  *)
EXTENDS WorkflowCompile

MCStyleBible == <<"shared", "style-bible">>
MCProp == <<"shared", "prop">>
MCDefaultIds == <<"s1", "s2", "s3">>

User(n) == [k \in 1..n |-> <<"user", <<"a", "b", "c", "d", "e", "f">>[k]>>]
Source(id, refs, fixed) == [id |-> id, refs |-> refs, fixed |-> fixed]
Plain == Source({}, << >>, {})
MCSources ==
  { Plain, Source({}, User(2), {<< <<"user", "b">>, <<"user", "z">>, <<"user", "b">>, <<"user", "a">> >>}),
    Source({}, User(4), {}), Source({}, User(5), {}), Source({"s1"}, User(1), {}),
    Source({}, << AssetRef(MCStyleBible) >>, {}), Source({"story"}, << >>, {}) }
MCInputs ==
  [shots : {<<s>> : s \in MCSources} \cup {<<s, t>> : s \in MCSources, t \in {Plain, Source({"s1"}, User(1), {})}}
           \cup {<<Plain, t, Plain>> : t \in MCSources} \cup {<<Plain, Plain, Plain, Plain>>},
   refs : {<< >>, << <<"user", "f">> >>}]

DraftOf(asset) == [asset |-> asset, fact |-> FALSE, visual |-> FALSE]
DraftShots ==
  [previous : BOOLEAN, shared : {<< >>, <<MCStyleBible>>, <<MCProp, MCStyleBible>>}]
OddShots ==
  { [previous |-> FALSE, shared |-> <<MCStyleBible, MCStyleBible>>],
    [previous |-> TRUE, shared |-> <<KeyframeOf("s1")>>] }
MCDrafts ==
  [shared : {<<DraftOf(MCStyleBible)>>, <<DraftOf(MCStyleBible), DraftOf(MCProp)>>,
             <<DraftOf(MCProp), DraftOf(KeyframeOf("s1"))>>},
   shots : {<<s>> : s \in DraftShots \cup OddShots}
           \cup {<<[previous |-> FALSE, shared |-> <<MCProp>>], t>> : t \in DraftShots \cup OddShots}
           \cup {<<s, t, [previous |-> TRUE, shared |-> <<MCStyleBible>>]>> :
                   s \in DraftShots, t \in {[previous |-> TRUE, shared |-> <<MCProp, MCStyleBible>>]}}]

\* Every relation between three images; an image is a reference of what depends on it, or of nothing.
Trio == <<MCStyleBible, KeyframeOf("s1"), KeyframeOf("s2")>>
ToRefs(S) == Numbered([k \in 1..Cardinality(S) |->
                         Reference(AssetRef(SetToSeq(S)[k]), {SetToSeq(S)[k]}, FALSE, TRUE)])
MCCallerPlans ==
  { [shared |-> << SharedAsset(Trio[1], << >>, deps[1], FALSE, FALSE) >>,
     shots |-> << PlannedShot("s1", orders[1], Trio[2], previous, ToRefs(deps[2] \cap named), deps[2]),
                  PlannedShot("s2", orders[2], Trio[3], {}, ToRefs(deps[3] \cap named), deps[3]) >>] :
      deps \in [1..3 -> SUBSET ToSet(Trio)], named \in {ToSet(Trio), {Trio[1]}},
      orders \in {<<1, 2>>, <<2, 1>>}, previous \in {{}, {"s2"}} }
  \cup { [shared |-> << >>, shots |-> << PlannedShot("s1", o, KeyframeOf("s1"), {}, refs, {}) >>] :
           o \in {1, 2},
           refs \in { << Reference(<<"user", "a">>, {}, TRUE, FALSE) >>,
                      Numbered(<< Reference(<<"user", "a">>, {}, FALSE, FALSE) >>),
                      Numbered(<< Reference(<<"asset", "x">>, {MCProp}, FALSE, TRUE) >>) } }
  \cup { [shared |-> << >>, shots |-> << PlannedShot("s1", 1, key, {}, << >>, deps) >>] :
           key \in {VideoOf("s1"), KeyframeOf("s1")}, deps \in {{}, {MCProp}} }
=============================================================================
