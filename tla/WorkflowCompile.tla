--------------------------- MODULE WorkflowCompile ---------------------------
(***************************************************************************)
(* compile_workflow (workflow.py) of the plan that Director planned: the   *)
(* UI graph, where each shot is an instance of a subgraph, and after it    *)
(* the API workflow, where every node is on one level.  Nodes, links and   *)
(* slots are numbered from 1.  Widgets and positions are left out, but a   *)
(* slot that a widget fills is counted.                                    *)
(***************************************************************************)
EXTENDS Director

VARIABLES
  stage,     \* idle, ui, api, done or failed
  ui,        \* top-level nodes and links
  subgraphs, \* the definition of each shot
  uiMade,    \* shared_nodes and shot_nodes: the node whose first output is the image
  api,       \* the nodes of the API workflow
  apiMade,   \* asset_nodes
  videos     \* shot_video_nodes of _compile_api

compileVars == <<stage, ui, subgraphs, uiMade, api, apiMade, videos>>
vars == <<planVars, compileVars>>

\* What a node is: its class, the shot and the thing it is about, and reference_count.
Kind(class, shot, about, count) == [class |-> class, shot |-> shot, about |-> about, count |-> count]
Single(class) == Kind(class, {}, << >>, 0)
Shared(asset) == Kind("SharedVisualAsset", {}, asset, 0)
Direct(shot, ref) == Kind("ReferenceAsset", {shot}, ref, 0)
Keyframe(shot) == Kind("ReferenceAsset", {shot.id}, shot.asset, 0)
CanvasPack(shot, count) == Kind("ReferencePack", {shot}, <<"canvas">>, count)
PromptOf(shot) == Kind("H3PromptCompiler", {shot}, << >>, 0)
VideoNode(shot) == Kind("MiniMaxH3API", {shot}, << >>, 0)
VideoPack(shot, count) == Kind("ReferencePack", {shot}, <<"h3">>, count)

\* One level of a graph: nodes with the link of each input (0: none) and the links of each
\* output, and the links themselves.  inputs[i] lists the links of the i-th input of a subgraph,
\* outputs[i] those of its outputs; on its level they are the outputs of node 0 and the
\* inputs of node -1.
NoLevel == [nodes |-> << >>, links |-> << >>, inputs |-> << >>, outputs |-> << >>]
NewNode(kind, ins, outs) ==
  [kind |-> kind, ins |-> ins, outs |-> [k \in 1..outs |-> << >>]]
AddNode(g, kind, ins, outs) == [g EXCEPT !.nodes = Append(@, NewNode(kind, ins, outs))]
AddLink(g, o, os, t, ts) ==
  [g EXCEPT !.links = Append(@, [origin |-> o, oslot |-> os, target |-> t, tslot |-> ts])]

\* The last link is entered at an output of a node, at an input of a node, at an input or
\* an output of the subgraph.
AtOutput(g, n, os) == [g EXCEPT !.nodes[n].outs[os] = Append(@, Len(g.links))]
AtInput(g, n, ts) == [g EXCEPT !.nodes[n].ins[ts] = Len(g.links)]
AtEntry(g, i) == [g EXCEPT !.inputs[i] = Append(@, Len(g.links))]
AtExit(g, i) == [g EXCEPT !.outputs[i] = Append(@, Len(g.links))]

Zeros(n) == [k \in 1..n |-> 0]
Put(f, x, v) == [y \in DOMAIN f \cup {x} |-> IF y = x THEN v ELSE f[y]]

-----------------------------------------------------------------------------
(* The subgraph of a shot                                                    *)

Entering(g, i, t, ts) == AtEntry(AddLink(g, 0, i, t, ts), i)
\* Mutant: always entered at nodes[-1].
FromNodeLast(g, o, back, t, ts) == AtOutput(AddLink(g, o, 1, t, ts), Len(g.nodes), 1)
\* From node o, entered at nodes[-back].
FromNode(g, o, back, t, ts) == AtOutput(AddLink(g, o, 1, t, ts), Len(g.nodes) + 1 - back, 1)
Upcoming(g, k) == Len(g.links) + k   \* next_link + k - 1

\* plan, policy, and one input for each reference that another node makes.
EmptySubgraph(shot) ==
  [NoLevel EXCEPT !.outputs = << << >>, << >> >>,
                  !.inputs = [i \in 1..2 + Len(Only(shot.refs, LAMBDA r : r.source # {}))
                                |-> << >>]]

\* The references: <<0, input>> for those from outside, <<node, 1>> for the files.
WithReferences(shot) ==
  LET step(acc, r) ==
        LET node == AddNode(acc.g, Direct(shot.id, r.id),
                            <<Upcoming(acc.g, 1), Upcoming(acc.g, 2), 0, 0, 0>>, 1)
            n == Len(node.nodes)
        IN  IF r.source # {}
            THEN [acc EXCEPT !.sources = Append(@, <<0, acc.outside>>), !.outside = @ + 1]
            ELSE [acc EXCEPT !.sources = Append(@, <<n, 1>>),
                             !.g = Entering(Entering(node, 1, n, 1), 2, n, 2)]
  IN  FoldLeft(step, [g |-> EmptySubgraph(shot), sources |-> << >>, outside |-> 3], shot.refs)

\* graph.connect
Connect(g, o, os, t, ts) == AtInput(AtOutput(AddLink(g, o, os, t, ts), o, os), t, ts)

\* The sources are linked to the slots of node t that follow slot first.
LinkAll(g, sources, t, first) ==
  LET step(h, k) ==
        LET o == sources[k][1]
            os == sources[k][2]
        IN  IF o = 0 THEN AtInput(Entering(h, os, t, first + k), t, first + k)
            ELSE Connect(h, o, os, t, first + k)
  IN  FoldLeft(step, g, [k \in DOMAIN sources |-> k])

\* Ordered Canvas References, and the keyframe made from them.
WithKeyframe(shot, g, sources) ==
  LET n == Len(g.nodes) + 1
      packed == LinkAll(AddNode(g, CanvasPack(shot.id, Len(sources)), Zeros(1 + Len(sources)), 1),
                     sources, n, 1)
      bare == AddNode(packed, Keyframe(shot),
                      <<Upcoming(packed, 1), Upcoming(packed, 2), 0, 0, 0,
                        IF sources = << >> THEN 0 ELSE Upcoming(packed, 3)>>, 1)
      fed == Entering(Entering(bare, 1, n + 1, 1), 2, n + 1, 2)
  IN  IF sources = << >> THEN fed ELSE FromNode(fed, n, 2, n + 1, 6)

\* Mutant: the references are counted from the keyframe's slot.
WithVideoPackShifted(shot, g, sources, k) ==
  LET n == k + 1
      pack == AddNode(g, VideoPack(shot.id, 1 + Len(sources)), Zeros(2 + Len(sources)), 1)
  IN  LinkAll(AtInput(FromNode(pack, k, 2, n, 2), n, 2), sources, n, 1)

\* H3 Ordered References (Canvas First); k is the keyframe.
WithVideoPack(shot, g, sources, k) ==
  LET n == k + 1
      pack == AddNode(g, VideoPack(shot.id, 1 + Len(sources)), Zeros(2 + Len(sources)), 1)
  IN  LinkAll(AtInput(FromNode(pack, k, 2, n, 2), n, 2), sources, n, 2)

\* Prompt, video and the two outputs.
WithVideo(shot, g, k) ==
  LET prompt == AddNode(g, PromptOf(shot.id),
                        <<Upcoming(g, 1), Upcoming(g, 2), 0>>, 1)
      g1 == FromNode(Entering(prompt, 1, k + 2, 1), k + 1, 2, k + 2, 2)
      video == AddNode(g1, VideoNode(shot.id),
                       <<Upcoming(g1, 1), Upcoming(g1, 2), Upcoming(g1, 3), Upcoming(g1, 4), 0>>, 1)
      g2 == FromNode(Entering(video, 1, k + 3, 1), k + 2, 2, k + 3, 2)
      g3 == Entering(FromNode(g2, k + 1, 3, k + 3, 3), 2, k + 3, 4)
      g4 == AtOutput(AtExit(AddLink(g3, k, 1, -1, 1), 1), k, 1)
  IN  AtOutput(AtExit(AddLink(g4, k + 3, 1, -1, 2), 2), Len(g4.nodes), 1)

SubgraphForShot(shot) ==
  LET refs == WithReferences(shot)
      canvas == WithKeyframe(shot, refs.g, refs.sources)
      k == Len(canvas.nodes)
  IN  WithVideo(shot, WithVideoPack(shot, canvas, refs.sources, k), k)

-----------------------------------------------------------------------------
(* compile_workflow                                                          *)

\* plan and policy, of nodes 3 and 2
Attach(g, t) == Connect(Connect(g, 3, 1, t, 1), 2, 1, t, 2)

UiHead ==
  LET input1 == AddNode(NoLevel, Single("Input"), Zeros(2), 1)
      policy == AddNode(input1, Single("ExecutionPolicy"), Zeros(1), 1)
      director == AddNode(policy, Single("Director"), Zeros(4), 1)
  IN  Connect(Connect(director, 1, 1, 3, 1), 2, 1, 3, 2)

SharedNodes(g) ==
  FoldLeft(LAMBDA h, a : Attach(AddNode(h, Shared(a.asset), Zeros(3), 1), Len(h.nodes) + 1),
           g, plan.shared)

\* What compile_workflow refuses before it builds anything.
Compilable ==
  /\ Problem(plan) = "none"
  /\ \A a \in ToSet(plan.shared) : a.deps = {} /\ a.refs = << >>
  /\ \A s \in ToSet(plan.shots) : s.deps \subseteq UNION {r.source : r \in ToSet(s.refs)}

CompileInit ==
  /\ stage = "idle"
  /\ ui = NoLevel /\ subgraphs = << >> /\ uiMade = << >>
  /\ api = << >> /\ apiMade = << >> /\ videos = << >>

Fail == stage' = "failed" /\ UNCHANGED <<planVars, ui, subgraphs, uiMade, api, apiMade, videos>>

BeginCompile ==
  /\ phase = "planned" /\ stage = "idle"
  /\ \/ ~Compilable /\ Fail
     \/ /\ Compilable /\ stage' = "ui"
        /\ ui' = SharedNodes(UiHead)
        /\ uiMade' = [a \in {plan.shared[k].asset : k \in DOMAIN plan.shared} |->
                        3 + CHOOSE k \in DOMAIN plan.shared : plan.shared[k].asset = a]
        /\ UNCHANGED <<planVars, subgraphs, api, apiMade, videos>>

SourcesOf(shot) == FlattenSeq([k \in DOMAIN shot.refs |-> SetToSeq(shot.refs[k].source)])

\* The loop over the shots: an instance of the subgraph, fed by the images made before.
UiShot ==
  LET i == Len(subgraphs) + 1
      shot == plan.shots[i]
      g == SubgraphForShot(shot)
      n == Len(ui.nodes) + 1
      instance == Attach(AddNode(ui, Kind("Shot", {shot.id}, << >>, 0), Zeros(Len(g.inputs)), 2), n)
      sources == SourcesOf(shot)
  IN  /\ stage = "ui" /\ i <= Len(plan.shots)
      /\ \/ ~(ToSet(sources) \subseteq DOMAIN uiMade) /\ Fail
         \/ /\ ToSet(sources) \subseteq DOMAIN uiMade
            /\ ui' = LinkAll(instance, [k \in DOMAIN sources |-> <<uiMade[sources[k]], 1>>], n, 2)
            /\ subgraphs' = Append(subgraphs, g)
            /\ uiMade' = Put(uiMade, shot.asset, n)
            /\ UNCHANGED <<planVars, stage, api, apiMade, videos>>

\* A node of the API workflow: what it is, and the node at each linked slot.
ApiNode(kind, ins) == [kind |-> kind, ins |-> ins]
FromPlan == {<<1, 3>>, <<2, 2>>}

ApiHead ==
  << ApiNode(Single("Input"), {}), ApiNode(Single("ExecutionPolicy"), {}),
     ApiNode(Single("Director"), {<<1, 1>>, <<2, 2>>}) >>
  \o [k \in DOMAIN plan.shared |-> ApiNode(Shared(plan.shared[k].asset), FromPlan)]

\* Assembly and manifest, and _compile_api up to its loop.
UiEnd ==
  LET a == Len(ui.nodes) + 1
      assemble == Attach(AddNode(ui, Single("StoryAssemble"), Zeros(3 + Len(plan.shots)), 1), a)
      fed == LinkAll(assemble, [i \in DOMAIN plan.shots |-> <<3 + Len(plan.shared) + i, 2>>], a, 3)
      manifest == Attach(AddNode(fed, Single("RunManifest"), Zeros(3), 1), a + 1)
  IN  /\ stage = "ui" /\ Len(subgraphs) = Len(plan.shots) /\ stage' = "api"
      /\ ui' = Connect(manifest, a, 1, a + 1, 3)
      /\ api' = ApiHead
      /\ apiMade' = [x \in {plan.shared[k].asset : k \in DOMAIN plan.shared} |->
                       3 + CHOOSE k \in DOMAIN plan.shared : plan.shared[k].asset = x]
      /\ UNCHANGED <<planVars, subgraphs, uiMade, videos>>

-----------------------------------------------------------------------------
(* The loop of _compile_api                                                  *)

\* Mutant: the generated references are collected before the files.
DependencyAssetsGrouped(shot) ==
  LET files == Only(shot.refs, LAMBDA r : r.source = {})
      made == Only(shot.refs, LAMBDA r : r.source # {})
  IN  [nodes |-> api \o [k \in DOMAIN files |-> ApiNode(Direct(shot.id, files[k].id), FromPlan)],
       deps |-> [k \in DOMAIN made |-> apiMade[CHOOSE a \in made[k].source : TRUE]]
                \o [k \in DOMAIN files |-> Len(api) + k]]

\* dependency_assets: a node for each file, the node of its maker for every other reference.
DependencyAssets(shot) ==
  FoldLeft(LAMBDA acc, r :
             IF r.source # {}
             THEN [acc EXCEPT !.deps = Append(@, apiMade[CHOOSE a \in r.source : TRUE])]
             ELSE [nodes |-> Append(acc.nodes, ApiNode(Direct(shot.id, r.id), FromPlan)),
                   deps |-> Append(acc.deps, Len(acc.nodes) + 1)],
           [nodes |-> api, deps |-> << >>], shot.refs)

\* The shot's loop; that every maker has a node was already checked for the UI graph.
ApiShot ==
  LET shot == plan.shots[Len(videos) + 1]
      found == DependencyAssets(shot)
      deps == found.deps
      n == Len(found.nodes) + 1
  IN  /\ stage = "api" /\ Len(videos) < Len(plan.shots)
      /\ api' = found.nodes \o
           << ApiNode(CanvasPack(shot.id, Len(deps)), {<<1 + k, deps[k]>> : k \in DOMAIN deps}),
              ApiNode(Keyframe(shot), FromPlan \cup {<<6, n>>}),
              ApiNode(VideoPack(shot.id, 1 + Len(deps)),
                      {<<2, n + 1>>} \cup {<<2 + k, deps[k]>> : k \in DOMAIN deps}),
              ApiNode(PromptOf(shot.id), {<<1, 3>>, <<2, n + 2>>}),
              ApiNode(VideoNode(shot.id), {<<1, 3>>, <<2, n + 3>>, <<3, n + 2>>, <<4, 2>>}) >>
      /\ apiMade' = Put(apiMade, shot.asset, n + 1)
      /\ videos' = Append(videos, n + 4)
      /\ UNCHANGED <<planVars, stage, ui, subgraphs, uiMade>>

ApiEnd ==
  /\ stage = "api" /\ Len(videos) = Len(plan.shots) /\ stage' = "done"
  /\ api' = api \o
       << ApiNode(Single("StoryAssemble"), FromPlan \cup {<<3 + i, videos[i]>> : i \in DOMAIN videos}),
          ApiNode(Single("RunManifest"), FromPlan \cup {<<3, Len(api) + 1>>}) >>
  /\ UNCHANGED <<planVars, ui, subgraphs, uiMade, apiMade, videos>>

CompileNext == BeginCompile \/ UiShot \/ UiEnd \/ ApiShot \/ ApiEnd

Init == PlanInit /\ CompileInit

Spec ==
  /\ Init
  /\ [][(PlanNext /\ UNCHANGED compileVars) \/ CompileNext]_vars

-----------------------------------------------------------------------------
(* Properties                                                                *)

\* What a director drafts and the checks accept always compiles: only a plan that a caller wrote
\* can name an image of a later shot, or a dependency without a reference.
DraftsCompile == stage = "failed" => origin = "caller"

\* Every link is listed exactly at the output it leaves and at the input it enters, although
\* the code counts links ahead and finds nodes from the end of the list (workflow.py:365-476).
Leaving(g) ==
  UNION ({{<<p[1], p[2], l>> : l \in ToSet(g.nodes[p[1]].outs[p[2]])} :
            p \in {q \in (DOMAIN g.nodes) \X {1, 2} : q[2] \in DOMAIN g.nodes[q[1]].outs}}
         \cup {{<<0, i, l>> : l \in ToSet(g.inputs[i])} : i \in DOMAIN g.inputs})
Entered(g) ==
  UNION ({{<<n, s, g.nodes[n].ins[s]>> : s \in DOMAIN g.nodes[n].ins} : n \in DOMAIN g.nodes}
         \cup {{<<-1, i, l>> : l \in ToSet(g.outputs[i])} : i \in DOMAIN g.outputs})
LinksPaired ==
  \A g \in {ui} \cup ToSet(subgraphs) :
    /\ Leaving(g) = {<<g.links[l].origin, g.links[l].oslot, l>> : l \in DOMAIN g.links}
    /\ {e \in Entered(g) : e[3] # 0}
         = {<<g.links[l].target, g.links[l].tslot, l>> : l \in DOMAIN g.links}

\* The UI graph, each instance replaced by its subgraph.
LinksOf(g) == ToSet(g.links)
Inside(n) == subgraphs[n - 3 - Len(plan.shared)]
IsShot(n) == ui.nodes[n].kind.class = "Shot"
OriginKind(k) ==
  IF IsShot(k.origin)
  THEN LET g == Inside(k.origin)
           exit == CHOOSE e \in LinksOf(g) : e.target = -1 /\ e.tslot = k.oslot
       IN  g.nodes[exit.origin].kind
  ELSE ui.nodes[k.origin].kind
UiEdges ==
  {<<OriginKind(k), ui.nodes[k.target].kind, k.tslot>> : k \in {x \in LinksOf(ui) : ~IsShot(x.target)}}
  \cup UNION ({{<<OriginKind(k), Inside(k.target).nodes[e.target].kind, e.tslot>> :
                  e \in {y \in LinksOf(Inside(k.target)) : y.origin = 0 /\ y.oslot = k.tslot}} :
                k \in {x \in LinksOf(ui) : IsShot(x.target)}}
              \cup {{<<g.nodes[e.origin].kind, g.nodes[e.target].kind, e.tslot>> :
                  e \in {y \in LinksOf(g) : y.origin > 0 /\ y.target > 0}} : g \in ToSet(subgraphs)})
ApiEdges ==
  UNION {{<<api[i[2]].kind, api[n].kind, i[1]>> : i \in api[n].ins} : n \in DOMAIN api}
\* A shot without references: only the API workflow hands the empty pack to the keyframe.
EmptyPack(edge) == edge[1].class = "ReferencePack" /\ edge[1].count = 0

\* Both outputs are the same graph: the same nodes, each input fed by the same node.
SameGraph ==
  stage = "done" =>
    /\ {api[n].kind : n \in DOMAIN api}
         = {ui.nodes[n].kind : n \in {m \in DOMAIN ui.nodes : ~IsShot(m)}}
           \cup UNION {{g.nodes[n].kind : n \in DOMAIN g.nodes} : g \in ToSet(subgraphs)}
    /\ UiEdges = {e \in ApiEdges : ~EmptyPack(e)}

\* The workflow runs from front to back and shows each generator what the engine would show it
\* (engine.py:971-1003): the keyframe the shot's references in their order, the video the
\* keyframe first and then the same.
MakerOf(shot, r) ==
  IF r.source = {} THEN Direct(shot.id, r.id)
  ELSE LET a == CHOOSE x \in r.source : TRUE
       IN  IF \E s \in ToSet(plan.shots) : s.asset = a
           THEN Keyframe(CHOOSE s \in ToSet(plan.shots) : s.asset = a) ELSE Shared(a)
Into(n, slot) == {i[2] : i \in {j \in api[n].ins : j[1] = slot}}
Shows(n, slot, kinds) ==
  \A p \in Into(n, slot) :
    /\ api[p].kind.count = Len(kinds)
    /\ \A k \in DOMAIN kinds : {api[m].kind : m \in Into(p, 1 + k)} = {kinds[k]}
ShownInOrder ==
  stage = "done" =>
    /\ \A n \in DOMAIN api : \A i \in api[n].ins : i[2] \in 1..(n - 1)
    /\ \A shot \in ToSet(plan.shots) :
         LET wanted == [k \in DOMAIN shot.refs |-> MakerOf(shot, shot.refs[k])]
         IN  \E k, v \in DOMAIN api :
               /\ api[k].kind = Keyframe(shot) /\ Shows(k, 6, wanted)
               /\ api[v].kind = VideoNode(shot.id) /\ Shows(v, 3, <<Keyframe(shot)>> \o wanted)
=============================================================================
