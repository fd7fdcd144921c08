----------------------------- MODULE ComfyNodes -----------------------------
(***************************************************************************)
(* The nodes of comfy_nodes.py on one Run directory.  A ComfyUI server     *)
(* executes what the manifest node rests on, in an order of dependencies,  *)
(* one node at a time; a node that raises ends the prompt and leaves the   *)
(* server as it was; the outputs of finished nodes stay cached until the   *)
(* server dies.  Servers share the directory: the run id is a hash of plan *)
(* and policy, and no node takes .run.lock.  Reference packs and prompts   *)
(* are functions of cached outputs and have no step of their own; files of *)
(* the user do not change.                                                 *)
(***************************************************************************)
EXTENDS PlanGraph

CONSTANTS
  Servers,
  Plans,        \* plans that compile
  MaxContents,  \* bound: contents that are made for one image
  MaxMishaps    \* bound: files that are damaged or removed from outside

ASSUME PlansAssumption ==
  \A p \in Plans :
    /\ p.shared \in Seq(ToSet(p.shared)) /\ p.shots \in Seq(ToSet(p.shots))
    /\ Problem(p) = "none"
    /\ \A a \in ToSet(p.shared) : a.deps = {}
    /\ \A s \in ToSet(p.shots) : s.asset \notin s.deps

VARIABLES
  plan, mode,   \* mode: plan_only, assets, locked (full without paid video) or paid
  disk,         \* the content of assets/<image>.png; 0: missing or damaged
  receipts,     \* the artifacts under receipts/: content and the contents it was made from
  tasks,        \* <shot>.video-task.json, none or one: the request, and whether the id is known
  manifest,     \* run_manifest.json, none or one
  cache,        \* of each server: the outputs of nodes
  at,           \* of each server: the node it executes, the step, and what it has read
  contents,     \* contents made for each image
  creations,    \* paid creations asked for, of each shot
  seen,         \* the servers that have been used
  mishaps

fileVars == <<disk, receipts, tasks, manifest, contents, creations>>
vars == <<plan, mode, fileVars, cache, at, seen, mishaps>>

Shots == ToSet(plan.shots)
SharedIds == {a.asset : a \in ToSet(plan.shared)}
ShotOf(video) == CHOOSE s \in Shots : VideoOf(s.id) = video
\* The images upstream of the manifest: a shared image that no shot refers to is not.
Used == {s.asset : s \in Shots} \cup UNION {s.deps : s \in Shots}
\* The H3 pack: the keyframe, then the references.
PackOf(shot) == {shot.asset} \cup shot.deps

Idle == [step |-> "idle", on |-> << >>, read |-> << >>]
EmptyCache == [images |-> << >>, videos |-> {}, nodes |-> {}]

Init ==
  /\ plan \in Plans /\ mode \in {"plan_only", "assets", "locked", "paid"}
  /\ disk = [a \in AssetIds(plan) |-> 0] /\ contents = disk
  /\ receipts = << >> /\ manifest = {}
  /\ tasks = [s \in {t.id : t \in Shots} |-> {}] /\ creations = [s \in DOMAIN tasks |-> 0]
  /\ cache = [w \in Servers |-> EmptyCache] /\ at = [w \in Servers |-> Idle]
  /\ seen = {} /\ mishaps = 0

\* _runtime_root: the preflight refuses the full mode without paid video.
RuntimeRoot(w) == mode # "locked" /\ seen' = seen \cup {w}

Put(f, x, value) == [y \in DOMAIN f \cup {x} |-> IF y = x THEN value ELSE f[y]]
Go(w, step, on, read) == at' = [at EXCEPT ![w] = [step |-> step, on |-> on, read |-> read]]
Raise(w) == at' = [at EXCEPT ![w] = Idle]
\* The node of image x returns content c.
Output(w, x, c) ==
  /\ at' = [at EXCEPT ![w] = Idle]
  /\ cache' = [cache EXCEPT ![w].images = Put(@, x, c)]
Locked(steps, on) == \E v \in Servers : at[v].step \in steps /\ at[v].on = on

-----------------------------------------------------------------------------
(* Images                                                                    *)

\* Mutant: a receipt of whatever request will do.
ValidOfFile(x, read) == disk[x] # 0 /\ x \in DOMAIN receipts /\ receipts[x].sha = disk[x]
\* The receipt is of this request and of this file.
Valid(x, read) ==
  disk[x] # 0 /\ x \in DOMAIN receipts /\ receipts[x] = [sha |-> disk[x], refs |-> read]

\* _generate_image: under the image's lock the references are checked and the cached image is
\* returned, or the provider is asked.
Generate(w, x, read) ==
  /\ RuntimeRoot(w) /\ ~Locked({"paint", "painted"}, x)
  /\ \A r \in DOMAIN read : disk[r] = read[r]
  /\ \/ Valid(x, read) /\ Output(w, x, disk[x])
     \/ ~Valid(x, read) /\ Go(w, "paint", x, read) /\ UNCHANGED cache
  /\ UNCHANGED <<plan, mode, fileVars, mishaps>>

\* plan_only: the node returns what is planned.
Planned(w, x) ==
  /\ mode = "plan_only" /\ Output(w, x, 0) /\ seen' = seen \cup {w}
  /\ UNCHANGED <<plan, mode, fileVars, mishaps>>

Wanted(w, x) == at[w] = Idle /\ x \in Used \ DOMAIN cache[w].images

\* StoryCanvasSharedVisualAssetNode.resolve
SharedNode(w, x) ==
  /\ Wanted(w, x) /\ x \in SharedIds
  /\ Planned(w, x) \/ (mode # "plan_only" /\ Generate(w, x, << >>))

\* StoryCanvasReferenceAssetNode.resolve of a keyframe
KeyframeNode(w, shot) ==
  /\ Wanted(w, shot.asset) /\ shot.deps \subseteq DOMAIN cache[w].images
  /\ \/ Planned(w, shot.asset)
     \/ /\ mode # "plan_only"
        /\ Generate(w, shot.asset, [r \in shot.deps |-> cache[w].images[r]])

\* The provider writes the file in place; it, or the check of the file after it, may raise.
Paint(w) ==
  LET x == at[w].on
  IN  /\ at[w].step = "paint"
      /\ \/ Raise(w) /\ UNCHANGED <<disk, contents>>
         \/ /\ contents[x] < MaxContents
            /\ contents' = [contents EXCEPT ![x] = @ + 1] /\ disk' = [disk EXCEPT ![x] = contents'[x]]
            /\ Raise(w) \/ Go(w, "painted", x, at[w].read)
      /\ UNCHANGED <<plan, mode, receipts, tasks, manifest, creations, cache, seen, mishaps>>

\* The receipt, the prompt record, and the node returns.
Receive(w) ==
  LET x == at[w].on
  IN  /\ at[w].step = "painted" /\ Output(w, x, disk[x])
      /\ receipts' = Put(receipts, x, [sha |-> disk[x], refs |-> at[w].read])
      /\ UNCHANGED <<plan, mode, disk, tasks, manifest, contents, creations, seen, mishaps>>

-----------------------------------------------------------------------------
(* Videos                                                                    *)

\* StoryCanvasMiniMaxH3APINode.generate up to the provider: every reference is still what it was.
VideoNode(w, shot) ==
  /\ mode = "paid" /\ at[w] = Idle /\ shot.id \notin cache[w].videos
  /\ PackOf(shot) \subseteq DOMAIN cache[w].images
  /\ \A r \in PackOf(shot) : disk[r] = cache[w].images[r]
  /\ RuntimeRoot(w) /\ Go(w, "checked", VideoOf(shot.id), << >>)
  /\ UNCHANGED <<plan, mode, fileVars, cache, mishaps>>

\* Mutant: without the lock.
LookUnlocked(w) ==
  LET shot == ShotOf(at[w].on)
      read == [r \in PackOf(shot) |-> disk[r]]
  IN  /\ at[w].step = "checked"
      /\ \/ tasks[shot.id] = {} /\ Go(w, "new", at[w].on, read)
         \/ tasks[shot.id] = {[refs |-> read, known |-> TRUE]} /\ Go(w, "open", at[w].on, read)
         \/ tasks[shot.id] \notin {{}, {[refs |-> read, known |-> TRUE]}} /\ Raise(w)
      /\ UNCHANGED <<plan, mode, fileVars, cache, seen, mishaps>>

\* The provider, under the lock of the state file, hashes the references again.
Look(w) ==
  LET shot == ShotOf(at[w].on)
      read == [r \in PackOf(shot) |-> disk[r]]
  IN  /\ at[w].step = "checked" /\ ~Locked({"new", "open"}, at[w].on)
      /\ \/ tasks[shot.id] = {} /\ Go(w, "new", at[w].on, read)
         \/ tasks[shot.id] = {[refs |-> read, known |-> TRUE]} /\ Go(w, "open", at[w].on, read)
         \/ tasks[shot.id] \notin {{}, {[refs |-> read, known |-> TRUE]}} /\ Raise(w)
      /\ UNCHANGED <<plan, mode, fileVars, cache, seen, mishaps>>

\* The intent, the request, and the id, which is lost if the request or its answer is.
Create(w) ==
  LET shot == ShotOf(at[w].on)
  IN  /\ at[w].step = "new"
      /\ \E sent, known \in BOOLEAN :
           /\ known => sent
           /\ tasks' = [tasks EXCEPT ![shot.id] = {[refs |-> at[w].read, known |-> known]}]
           /\ creations' = [creations EXCEPT ![shot.id] = @ + (IF sent THEN 1 ELSE 0)]
           /\ IF known THEN Go(w, "open", at[w].on, at[w].read) ELSE Raise(w)
      /\ UNCHANGED <<plan, mode, disk, receipts, manifest, contents, cache, seen, mishaps>>

\* The video is there (cached or downloaded) and is decoded; its artifact names the references as
\* the pack gave them.  Or the task fails or is still running at the deadline.
Poll(w) ==
  LET shot == ShotOf(at[w].on)
  IN  /\ at[w].step = "open" /\ Raise(w)
      /\ \/ UNCHANGED <<receipts, cache>>
         \/ /\ cache' = [cache EXCEPT ![w].videos = @ \cup {shot.id}]
            /\ receipts' = Put(receipts, at[w].on,
                               [sha |-> 1, refs |-> [r \in PackOf(shot) |-> cache[w].images[r]]])
      /\ UNCHANGED <<plan, mode, disk, tasks, manifest, contents, creations, seen, mishaps>>

\* StoryCanvasStoryAssembleNode.assemble; without paid video its output is "locked".
StoryNode(w) ==
  /\ mode = "paid" /\ at[w] = Idle /\ "story" \notin cache[w].nodes
  /\ cache[w].videos = DOMAIN tasks
  /\ RuntimeRoot(w) /\ cache' = [cache EXCEPT ![w].nodes = @ \cup {"story"}]
  /\ UNCHANGED <<plan, mode, fileVars, at, mishaps>>

-----------------------------------------------------------------------------
(* StoryCanvasRunManifestNode.write                                          *)

Upstream(w) == DOMAIN cache[w].images = Used /\ (mode = "paid" => "story" \in cache[w].nodes)

\* artifacts_by_id: the artifacts of the receipts, and the story when it is ready.
ReadReceipts(w) ==
  /\ at[w] = Idle /\ Upstream(w) /\ "manifest" \notin cache[w].nodes
  /\ RuntimeRoot(w)
  /\ Go(w, "listed", << >>,
        IF mode = "paid" THEN Put(receipts, StoryVideo, [sha |-> 1, refs |-> << >>]) ELSE receipts)
  /\ UNCHANGED <<plan, mode, fileVars, cache, mishaps>>

ImagesOf(listed) == DOMAIN listed \cap AssetIds(plan)
\* Mutant: the story counts as a shot.
VideosOfWithStory(listed) == DOMAIN listed \cap {VideoOf(s.id) : s \in Shots}
VideosOf(listed) == (DOMAIN listed \cap {VideoOf(s.id) : s \in Shots}) \ {StoryVideo}

Complete(listed) ==
  \/ mode = "plan_only"
  \/ /\ Cardinality(ImagesOf(listed)) = Len(plan.shared) + Len(plan.shots)
     /\ mode = "paid" => Cardinality(VideosOf(listed)) = Len(plan.shots)

WriteManifest(w) ==
  /\ at[w].step = "listed" /\ Raise(w)
  /\ manifest' = {[complete |-> Complete(at[w].read), listed |-> at[w].read]}
  /\ cache' = [cache EXCEPT ![w].nodes = @ \cup {"manifest"}]
  /\ UNCHANGED <<plan, mode, disk, receipts, tasks, contents, creations, seen, mishaps>>

-----------------------------------------------------------------------------

\* A server dies, in whatever step; its locks are released and its cache is lost.
Crash(w) ==
  /\ at[w] # Idle \/ cache[w] # EmptyCache
  /\ at' = [at EXCEPT ![w] = Idle] /\ cache' = [cache EXCEPT ![w] = EmptyCache]
  /\ UNCHANGED <<plan, mode, fileVars, seen, mishaps>>

\* An image is damaged or removed while no provider writes it.
Damage(x) ==
  /\ disk[x] # 0 /\ mishaps < MaxMishaps /\ ~Locked({"paint", "painted"}, x)
  /\ disk' = [disk EXCEPT ![x] = 0] /\ mishaps' = mishaps + 1
  /\ UNCHANGED <<plan, mode, receipts, tasks, manifest, contents, creations, cache, at, seen>>

Step(w) ==
  \/ \E x \in SharedIds : SharedNode(w, x)
  \/ \E shot \in Shots : KeyframeNode(w, shot) \/ VideoNode(w, shot)
  \/ Paint(w) \/ Receive(w) \/ Look(w) \/ Create(w) \/ Poll(w)
  \/ StoryNode(w) \/ ReadReceipts(w) \/ WriteManifest(w) \/ Crash(w)

Next == (\E w \in Servers : Step(w)) \/ (\E x \in DOMAIN disk : Damage(x))

Spec == Init /\ [][Next]_vars

-----------------------------------------------------------------------------
(* Properties                                                                *)

\* However servers, prompts and crashes interleave, a shot's video is paid for once.
PaidOnce == \A s \in DOMAIN creations : creations[s] <= 1

\* A manifest that is written is complete exactly if the plan can be completed by its workflow: the
\* workflow makes every shared image and no shot's video has the name of the story.
CompleteExactly ==
  \A m \in manifest :
    m.complete <=> \/ mode = "plan_only"
                   \/ /\ SharedIds \subseteq Used
                      /\ mode = "paid" => StoryVideo \notin {VideoOf(s.id) : s \in Shots}

\* What a manifest lists, complete or not, was made from what it lists: when one server was used,
\* however often it died and files were damaged, and when several were and no file was damaged.
ListedLineage ==
  \A m \in manifest :
    mishaps = 0 \/ Cardinality(seen) = 1 =>
      \A a \in DOMAIN m.listed : \A r \in DOMAIN m.listed[a].refs :
        r \in DOMAIN m.listed /\ m.listed[a].refs[r] = m.listed[r].sha
=============================================================================
