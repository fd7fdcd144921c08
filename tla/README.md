# A TLA+ model of StoryCanvas Harness

StoryCanvas turns one shot or a story into a plan (shared images, one keyframe and
one video per shot), executes the plan with image, search and video providers that
may cost money, and keeps everything it did in a Run directory, so that an
execution that was interrupted is continued and not paid for again.  This
directory models the parts of `src/storycanvas_harness/` that make this hard:
locks that are handed between threads, receipts that decide what may be reused,
tasks that must not be created twice, plugins that must be stopped, two compilers
that must agree on one graph, nodes that share a Run directory without its lock, and
media that are published while they may be rewritten.
Paths and line numbers below are those of `src/`.

## 1. The system

| Component | State | Operations | What is hard | Correct when |
|---|---|---|---|---|
| Job service, `service.py` | `jobs/*.json`, `events/*.jsonl`, `jobs/*.lock`, the pool's queue, `_closing`, `_mutex` | `start_run`, `get_run`, `_run_job`, `close` | several processes on one root; a lock taken by one thread and released by another; death at any step | a job has one worker; an orphan is noticed, a live job never taken for one; `close()` drains |
| Video provider, `providers/video.py` | `<shot>.video-task.json`, the video file | `generate` | the answer to a billable request may be lost; polls time out; files are damaged | at most one paid task; its id survives; success only with a video |
| Asset executor, `engine.py:424-955` | images, receipts, attempt journals, search receipts, exemplars | `_execute_assets` and all it calls | out-of-order completion, failures in the middle of a DAG, stale caches, crashes between three files | an image is made of the references it records; failures take only descendants; counters agree with journals |
| Run lifecycle, `engine.py:957-1359` | `run_manifest.json`, `prompts.jsonl`, `.run.lock` | `run_plan`, `complete_videos` | two entry points on one directory, partial results, a failing last write | what a complete manifest says is there, and is not changed behind it |
| Plugin registry, `plugins/` | statuses, `_activation_order` | `validate_bindings`, `activate_all`, `dispose_all`, composition in `engine.py:121-218` | cycles, starts that fail half way, stops that fail | nothing started stays held; providers outlive dependents |
| Plan schema, `schemas.py` | none (pure) | `validate_graph`, `required_calls` | references, order, cycles | what is accepted can be executed from front to back; what is refused as cyclic is cyclic |
| Planning, `providers/director.py` | none | `draft_to_plan`, the deterministic and the Codex director | what a language model answers; five reference slots | every plan that is accepted compiles |
| Workflow compiler, `workflow.py` | none (pure) | `compile_workflow`: `_subgraph_for_shot`, the UI graph, `_compile_api` | links are counted ahead, nodes found from the end of a list, two independent builders | links are paired; both graphs are one graph; generators are shown what the engine shows them |
| ComfyUI nodes, `comfy_nodes.py` | the Run root, shared by all nodes and servers; each server's cache of outputs | `resolve`, `generate`, `assemble`, `write` | nodes execute without `.run.lock`; outputs outlive their files | a video is paid for once; a complete manifest is complete and consistent |
| Journals and files, `storage.py`, `utils.py` | JSONL files, `.interrupted`, temporary files | `append_jsonl`, `read_jsonl`, `atomic_write_text` | torn rows, death while recovering one | a row whose append returned is never lost; a torn one is set aside |
| Canvas export and review, `canvas_export.py`, `review.py` | staged media, the graph and its report | `export_story_canvas`, `_MediaStager`, `import_comfy_review`, `_stage_file` | hard links to files that are rewritten, copies that die midway | what a graph shows is staged with the content it names |
| Image and search providers | none | one remote call each | failures | the file is whole or the call raises |
| Codex client, `providers/codex.py` | a subprocess, request ids | JSON-RPC turns | answers out of order | a turn gets its own answer |
| HTTP API, CLI, onboarding, config | none | thin wrappers | - | - |
| Audit and media tools | none | HTML, ffmpeg | - | - |

How they interact.  `api.py` and `cli.py` call the service or the engine.  A worker
of the service calls `engine.run_plan`; that takes `.run.lock`, writes a running
manifest, and calls the asset executor, then for each shot the video provider,
which takes a lock and a state file of its own.  The engine gets its providers from
the plugin registry when it is built and returns them when it is closed, which the
service does at the end of its own `close()`.  Everything that must survive a crash
goes through atomic file replacement and append-only journals.  Beside the engine
there is a second way through the same code: a plan is compiled to a ComfyUI workflow, whose
nodes call the engine's image and video code one by one on a Run directory that
is named after plan and policy.  Exports and imports read what either way left there.

Hard behaviours are listed one by one, at their lines and with the property that
watches them, under `hazards` in `PROJECT.json`.

## 2. Modules

| Module | Models | Composition |
|---|---|---|
| `RunJobs` | abstract: a job's status, and whether someone will still write its outcome | |
| `JobService` | the job service in several processes | refines `RunJobs` |
| `PaidTask` | abstract: intent, payment, task id | |
| `VideoTask` | the video provider on one state file, with the remote service | refines `PaidTask` |
| `AssetRun` | abstract: what a run owes to the images of a DAG | |
| `AssetDag` | the asset executor on one Run directory | refines `AssetRun` |
| `RunLifecycle` | `run_plan` and `complete_videos` on one Run directory | an image phase and a paid task are one step here, with the outcomes that `AssetDag` and `VideoTask` allow |
| `PluginRegistry` | the registry and the engine's composition | |
| `PlanGraph` | a plan as a value and the checks of `validate_graph` | extended by the next three |
| `Director` | from a request, or a caller's plan, to an accepted plan | |
| `WorkflowCompile` | `compile_workflow` | extends `Director`: it compiles what was planned |
| `ComfyNodes` | the nodes of several servers on one Run directory | extends `PlanGraph`; provider calls are single steps |
| `Journal` | one JSONL file and those who append to it | |
| `MediaStage` | export and import of the media of a Run that goes on | |
| `RunFiles` | the files of a Run: journal and media, which share a directory and no step | extends both |
| `JobServiceProofs`, `AssetDagProofs`, `RunLifecycleProofs`, `PluginRegistryProofs`, `ComfyNodesProofs` | theorems and proofs | extend their component |
| `RunFilesProofs` | theorems about what a Run keeps in files | extends `RunFiles` and `VideoTask`, whose state file is one of them |
| `WorkflowCompileProofs`, `WorkflowGraphProofs` | theorems about plans and the API workflow, and about the graphs | the first extends `WorkflowCompile`, the second the first |
| `MC...` | instances for TLC | extend their component |

Each `Proofs` module holds nothing but lemmas, theorems and the invariants they need; operators whose comment begins with
"Mutant:" are wrong variants of the definition that follows them, kept to show that
each property notices a plausible bug.

### JobService

A caller thread goes through `start_run` or `get_run` step by step (`pc`), where the
steps are cut at every file, lock and mutex operation.  `lock[j]` is the thread that
holds `jobs/<job>.lock`, or the process itself while the lock travels with a task in
the pool's queue (`FileLock(thread_local=False)`).  `jobFile[j]` is status and
fingerprint in the state file, `lastEvent[j]` the last row of the journal.  A job id
is only the first 16 digits of the fingerprint, so two requests may share one
(`JobOf`).  Every write may fail (an `OSError`).  `Crash(s)` frees what a process
held and keeps the files.  A worker that cannot read its job file goes on with a state
that has only the two ids (`service.py:119-121`) and writes that back in the end: `jobFile[j].sha`
is then `None`, which no request has.  `run_plan` is one step: it returns a manifest status,
raises, or is interrupted.

### VideoTask

`disk` is the state file, `mem[p]` the dictionary `state` of a call, `dest` the
destination file, `remote[t]` the remote task, `posts` the number of create requests
sent (history).  A call that returns a video ends in `ReturnCached` or `Record`, every other
end raises; a write of the state file that fails leaves it as it was and raises, which has the
effect of `Crash`.  A request that is sent creates the task or not, and is answered or
not, in all combinations.  Remote tasks end when they like, or never.

### AssetDag

Contents are numbers: the n-th provider call for an image makes content n, and 0 is
an absent or damaged file.  `png`, `receipt`, `rows` (the attempts journal), `source`
and `noted` (exemplar and its receipt), `found` (search receipts) are on disk;
`stage[a]` is where the worker of image `a` is.  A request identity is the contents
of the references and of the exemplar; prompt, model and policy are constants of a
Run directory, whose name is derived from them.  An append to the journal and
a write of a receipt may fail: the worker raises, its image has failed, and the run goes on and counts.  An append
that raises may have left the whole row.  Image calls that fail, reads and writes that fail, crashes and damage are the
mishaps that `MaxMishaps` bounds.  Four variables are history: `sent[a]`, the requests sent for image `a`; `called`, the
images that this run called for; `lost`, those of them whose row is missing; `spoiled`, those whose last call failed, could not be recorded, or
made a file that was damaged since.  Which of the ready images start
first is left open, so that the order in the plan does not matter.

### RunLifecycle

`manifest`, `prompts`, `files`, `task` are on disk; `mem`, `rows`, `erred`, `shot`
belong to the holder of `.run.lock`.  A file of a video has the content of the keyframe it
was made from.  `task[s].phase` says how much the state file knows of a paid task.
An execution can be cut off in each of its parts (`CutImages`, `CutVideo`, `CutStory`): by an exception that the
loops over images and shots do not catch (`Abort`), or by a `KeyboardInterrupt` or `SystemExit`
(`Interrupt`), also inside `generate()` behind the create request.  Both write the manifest.  `created` counts the
create requests of the present execution (history).
The manifest is written at the points at which the code writes it.

### PluginRegistry

Plugins are numbered in the order of their ids, in which `activate_all` goes through
the pending ones.  The initial states are all compositions of `NumPlugins` plugins.
`held` says that `start()` was called and `stop()` was not: a start that raises may
have taken resources, which is why the code stops that plugin too.

### PlanGraph and Director

A plan is a record of shared images and shots; an item has the assets it depends on and its
references in order.  Asset ids are pairs, because the code derives them
(`KeyframeOf`, `VideoOf`) and two derived names may collide.  `Director` goes through
`draft_to_plan` shot by shot (`DraftShot`: files of the user, the shot before while one of
the five slots is free, shared images while slots are left), through the checks in
the order of the code (`Problem`), and through the search for a cycle layer by layer
(`ResolveLayer`, with `remaining` and `resolved` as in the code).  A caller's plan starts at the checks.
`Accept` sorts the shots and, for Codex, moves generated references to the front.

### WorkflowCompile

`ui` is the graph that is shown, `subgraphs` the definition behind each shot's instance,
`api` the graph that is executed.  A level has nodes with the link of each input and
the links of each output, and the links themselves, so that what the code
does (`_subgraph_for_shot` counts links ahead and enters them at nodes counted from the end of the list) can
disagree with itself in the model as well.  One step is one iteration of a loop over the
shots.  Widgets, titles, positions and colours are left out; a slot a widget
fills is counted.

### ComfyNodes

`cache[w]` is what a ComfyUI server remembers of finished nodes, until it dies; `at[w]`
the node it executes, the step it is in and what it has read.  A node is cut into steps where
another server can come between: `Generate` (under the image's lock: references checked, receipt
compared), `Paint`, `Receive`; `VideoNode` (references checked), `Look` (under the state file's lock, hashed
again), `Create`, `Poll`; `ReadReceipts`, `WriteManifest`.  An image's content is a
number as in `AssetDag`.  A mode `locked` (full without paid video) is refused by the
preflight, so that nothing executes in it.

### Journal, MediaStage and RunFiles

`rows` and `tail` are the journal, `moved` is `.interrupted`; `append[a]` is where a writer is, with
the offset it read.  A fragment which a death leaves in `.interrupted` is not counted: the
row is still at the end of the journal and is moved again.  Death is that of a process, not of the
machine.  In `MediaStage` a file's content is a number, 0 while it is written; `Truncate` and
`Fill` are a rewrite in place, `Replace` is `os.replace`.  `targets` has the staged
files by name; an export's name contains the digest, an import's does not (`Name`).  A hard link
follows a rewrite in place (`WriteThrough`) and keeps the old file at a replacement.

## 3. What is checked

| Run | Instance | Properties |
|---|---|---|
| `jobs` | 2 processes, 3 callers, 2 workers, 2 fingerprints with one job id | at most one execution of a job, lock with it (`OneExecution`); journal and state agree (`LogMatchesState`); `close()` strands nothing (`ShutdownDrains`); a job file never passes to another execution (`IdentityKept`); refinement (`ImplementsRunJobs`) |
| `pool` | 1 process, 1 worker, 2 jobs, fairness | queued jobs end (`JobsEnd`), `close()` returns (`CloseReturns`) |
| `video` | 3 clients, 2 requests, 2 remote ids, fairness | one payment (`AtMostOneCreation`), a trace of it (`DurableTrace`), only an intact, decodable video of the caller's request is returned and an earned one is final (`SuccessIsEarned`), refinement (`ImplementsPaidTask`), `CallsReturn` |
| `assets` | a chain of three images and one aside, 2 concurrent, 2 runs, 2 mishaps, fairness | `Lineage`, `OnlyDescendantsBlocked`, `CountsTell`, `PaidOnce`, refinement (`ImplementsAssetRun`), `RunEnds` |
| `lifecycle` | 2 callers, 2 shots, 2 contents | `CompleteIsWhole`, `VideoOfKeyframe`, `CountsNeverMiss`, `Announced` |
| `plugins` | all compositions of 3 plugins and 2 capabilities, fairness | `ProvidersOutlive`, `AllOrNothing`, `ActivationEnds` |
| `workflow` | three images, up to four shots, 6 references; all relations between three images | `Verdict`, `DraftsCompile`, `LinksPaired`, `SameGraph`, `ShownInOrder` |
| `comfy` | 2 servers; two shots in a chain, an image no shot shows, a shot named `story`; 4 modes | `PaidOnce`, `CompleteExactly`, `ListedLineage` |
| `files` | 2 writers, 3 rows; an image staged twice, a video and a midframe, 2 contents, both devices | `NothingLost`, `StagedTrue` |
| `resubmit`, `counts`, `prompts` | as `jobs` and `lifecycle` | three statements of the docs that the code does not keep, see section 6 |

The comment above each property says what it means for the code.

Bounds, and why they are enough.

- *jobs*: two processes are what the file lock is for; the second caller in the first
  process races within one mutex; one job file with two fingerprints has every race
  between writers of the same file, and jobs with different files do not interact but for
  the pool, which `pool` has.  There is one pool thread for each process: with the
  lock handed over there is at most one task for a job anyway, and the proofs are for
  any number.  The fingerprints and the two callers of the first process are
  interchangeable, which the symmetry set says; it is not used where liveness is checked.
- *video*: one id more than a correct provider needs, so that a second payment would
  have a second id; three clients, so that two wait for a third.
- *assets*: a chain of three has an ancestor that is not a parent; the image aside fills
  the second place of the pool and has a search of its own.  `MaxRuns` = 2 lets a run
  meet what another one left, `MaxMishaps` = 2 lets a file be damaged, or a second write fail, in a
  run that follows a failure or a crash.  `PaidOnce` looks at the image's own history (`spoiled`), so that
  mishaps of other images excuse nothing; a mishap elsewhere with the second run is the case it is for.
- *lifecycle*: two contents tell an image from its replacement; two shots have a
  shot that was made before one that fails; two callers alternate in any order, and
  nothing bounds how often.  The counters start anew with each execution, which has at most
  one creation for each shot.
- *plugins*: three plugins have a chain, a cycle of two or three, and two candidates for one
  capability.
- *workflow*: the inputs are sets of requests, drafts and plans (`MCWorkflowCompile`), and each
  behaviour is one of them from front to back.  Files range from none to five and six with one of the
  story, so that the last slot is free, taken by the shot before or by a shared image, or dropped; drafts
  repeat, miss and misname images; the caller's plans have every relation between three images, which has all
  cycles up to three, both orders, and dependencies without a reference.  At most three shots are
  allowed and a request with four is refused.
- *comfy*: two servers are two processes without a common lock, and a server that died comes back empty; two
  contents of each image and one mishap let a file be remade under a receipt of the old one.  The
  three plans are the chain, in which a stale content could travel, and the two plans whose manifest can
  never be complete.
- *files*: while one writer is inside the lock the other waits.  Three rows are a whole one, a torn one
  behind it, and that of the writer who cuts the torn one off and must keep the whole one.  The journal and the media share no
  variable, so the constraint `OneAtWork` runs each with the other at its start.
  Writers and rows are interchangeable, which the symmetry set says.  The image is
  staged a second time as a reference; two contents are the one that was hashed and its replacement.

Deadlock is checked where the system never stops.  The runs of `AssetDag` stop after
`MaxRuns`, a composition that was rejected or closed has nothing left to do, nor has a compiler that is done;
all contents and rows of `comfy` and `files` may be used up.  Their configurations switch it off.

Fairness.  Threads that can go on do (weak fairness of their steps).  In `JobService` a
pool thread takes a task, and gets the mutex, under strong fairness: the executor's queue is
first in first out, which a bag does not show, and the mutex is always freed again.
In `VideoTask` a caller gets a lock that is freed again and again (strong fairness of
`Acquire`; `filelock` polls), the poll deadline passes, and nothing is assumed of the remote task.
In `AssetDag` the main thread or some worker takes a step as long as one of them can (one weak fairness
for all of them): provider calls end, which the providers' timeouts see to.  Nobody has to make a request,
to close anything or to crash.  `workflow`, `comfy` and `files` check safety only and assume no fairness.

## 4. What is proved

For every value of the constants that the named assumptions of the modules allow.
The assumptions are typing, finiteness and disjointness of the constants, and three things more, named below:
`ConstantsAssumption` (`JobService`), `NoneAssumption` (`VideoTask`), `PlanAssumption`, `AcyclicAssumption` and
`BoundAssumption` (`AssetDag`), `RunAssumption` (`RunLifecycle`) and
`CompositionAssumption` (`PluginRegistry`), `AllowedShotsAssumption`, `InputsAssumption`,
`DraftsAssumption` and `CallerPlansAssumption` (`Director`), `PlansAssumption` (`ComfyNodes`), `StageAssumption` (`MediaStage`).
`PlansAssumption` asks for more than typing: that the plans pass the checks and compile, because only
compiled plans are executed by nodes.  `PlanAssumption` asks that references are
dependencies.  `AcyclicAssumption`, that no set of images waits for itself, is what `Verdict` says of an
accepted plan; only `BlockedByFailure` rests on it.  `CallerPlansAssumption` is typing: a plan has the
fields that the models give it, its lists are sequences, and a reference has one source or none.

- `JobServiceProofs`: `TypeCorrect`, `AtMostOneExecution`, `LogAgrees`, `CloseDrains`,
  `IdentityNeverChanges`.  `OneExecution` is not inductive: that two workers never have one
  job rests on where the job's lock is.  The invariant `IInv` says of every place a
  thread may be at whether it holds its job's lock, that a process holds the lock of a
  job exactly while its queue has one task for it, who is inside the mutex, that a
  closed service has nobody past the closing check, and what file and journal say
  while a worker is in the engine.  `IdentityKept` follows: whoever writes a job file with a fingerprint
  has compared it under the lock, and a worker that could not read the file writes none.  `ServiceImplementsRunJobs` (`ImplementsRunJobs`) maps every step
  to a step of `RunJobs` or a stutter: a thread that owns a job's lock and is not going to write its outcome knows that
  nobody is (`OwnerIdle`), so that what it marks is an orphan and what it submits is not alive; handing
  the lock to the queue and taking it from there leaves the job alive.
- `RunFilesProofs`, of `VideoTask` (`Spec` and `IInv` there are the provider's): `TypeCorrect`, `NoDuplicatePayment`,
  `TraceIsDurable`, `OnlyEarnedSuccess`, `Refinement` (the provider implements `PaidTask`).  The invariant adds to the checked
  parts that only the lock's holder is past `lock`, that its `mem` is what is on
  disk, and that at `upload` nothing was ever sent; a recorded success names a task that ended with a
  video, and a call that polls or downloads has found that the file there is not the recorded one or does not decode.
- `AssetDagProofs`: `TypeCorrect`, `CountsAreCalls` (`CountsTell`), `LineageKept` (`Lineage`), `Refinement` (the executor implements
  `AssetRun`), `BlockedByFailure` (`OnlyDescendantsBlocked`) and `RequestsArePaidOnce` (`PaidOnce`).  The invariant says that a worker is at an image only while it is running, that
  its dependencies are generated from then on, so that no record it read changes any more;
  that the identity it holds is that of those records; and that whatever a receipt
  on disk or a finished worker names was made by a call with that identity, of whichever
  run.  For the refinement it adds which outcomes are possible in which phase of
  the main thread, and the width.  An image is blocked when nothing runs and nothing is ready: had none of
  those upstream of it failed, the pending ones upstream would all wait for each other.  For `PaidOnce` it
  says of each image that was called for and is not spoiled that its worker holds what the call made, or that its receipt
  names the last request and its file is what that call made; a worker that resolves the same request then finds a hit.
  For `CountsTell` each image whose call is over has one row more than before the run, or is in `lost`; the sum is
  taken over the images: that a sum over a finite set of images grows by what one of them grows is shown by a set of least
  size for which it would fail.
- `RunLifecycleProofs`: `TypeCorrect`, `WholeWhenComplete` (`CompleteIsWhole`),
  `VideosMatch` (`VideoOfKeyframe`), `CountsSuffice` (`CountsNeverMiss`) and
  `ResultsAnnounced` (`Announced`).  Whoever is past `.run.lock` holds it; the holder's manifest in memory
  agrees with the files, and while it executes the manifest on disk says running; at each stage, what has
  been reached without an error is whole, and the creations of this execution are at most those counted, plus
  one where it was cut off at a shot (`Missed`).
- `PluginRegistryProofs`: `TypeCorrect`, `Outlive` (`ProvidersOutlive`) and
  `NothingLeft` (`AllOrNothing`), for any number of plugins and capabilities and any
  composition.  The invariant says that `order` has no plugin twice, that what
  is active is what is in it, and that each plugin in it has all providers it rests on
  before itself.
- `WorkflowCompileProofs`: `PlansCanBeMade` (`Verdict`), for plans of any size.  The invariant says
  that `resolved` and `remaining` are the images of the plan without overlap, and that
  `resolved` is closed under dependencies and meets no set that waits for itself: an image
  that becomes ready has all it waits for in `resolved`.  When nothing is ready,
  `remaining` is such a set.  That `Accept` sorts and reorders changes no
  dependency rests on the orders being contiguous, which the checks have established.
  `DraftsAlwaysCompile` (`DraftsCompile`), for every request and every draft: no plan of a director is refused by the
  compiler.  The invariant (`DraftInv`, `Drafted`) says that the orders of a drafted
  plan are its positions, that an image depends exactly on the sources of its references, and that each source is a
  shared image or the keyframe of an earlier shot; and that what has been compiled gave a node to
  every shared image and to every shot gone past.  That Codex's reordering of the references changes no verdict of the checks
  is shown by a bijection between the two lists (`Rearranged`).  What the folds of the model return
  is found by induction on how much of the list is folded (`UpTo`, `FoldExists`).
  `GeneratorsAreShownInOrder` (`ShownInOrder`), for every plan that compiles, of directors and of callers: the
  invariant (`ShownInv`, `Built`) says that the nodes of the API workflow are fed by nodes before them, that
  `asset_nodes` leads to the node of each image made so far, and that each shot gone past is shown what its
  references name.  That every maker has a node when the API workflow asks for it rests on the check that the UI
  graph made (`Fed`): a reference of a shot is to a shared image or an earlier shot.
- `WorkflowGraphProofs`: `LinksArePaired` (`LinksPaired`), for every plan that compiles: in the UI graph and in every subgraph each link is
  listed at the output that it leaves and at the input that it enters, and nowhere else.  The code fills the inputs of
  a subgraph's node with the numbers of links that do not exist yet (`next_link`), and looks for the node that a link leaves from the
  end of the list.  So each helper is shown to keep a level on which every link is paired but for the entries that are
  ahead of their links (`Paired(g, P)`, `P` those entries); that `P` is empty again behind each node is what
  makes the counting right.  `SubgraphDoes` composes these to what a subgraph is, node by node and link by link
  (`Drawn`); `LinksInv` says of the UI graph half built that the nodes that links are going to leave from have the
  outputs for them (`Assembling`).
  `BothOutputsAreOneGraph` (`SameGraph`), for every plan that compiles: both outputs are compared with a third thing, the
  graph of the plan, whose nodes and links are read off the plan (`PlanKinds`, `PlanEdges`, one operator for each
  part of a shot).  `ApiDrawn` says that the API workflow is this graph as far as it is compiled; the parts are
  `HeadEdges`, `ShotEdges` of each shot and `EndEdges`.  `UiDrawn` says the same of the UI graph by position: which node
  is where and exactly which links it has (`Laid`, `Whole`), and of each subgraph which of its nodes every input feeds,
  its inner links and what leaves it (`Shaped`, from `Drawn`).  Replacing each instance by its subgraph turns the links of the UI
  graph into those of the plan but for the empty packs (`UiFlattens`): the input of an instance that carries
  an image is `2 + Rank`, with `Rank` the number of references so far that the run makes, and the input of the generator behind
  it is the reference's place among all of them; that these are the same reference is what the proof turns on.
- `ComfyNodesProofs`: `VideosArePaidOnce` (`PaidOnce`) for any number of servers: what has been paid for
  has a state file, and only the one server past `Look` without one can create.
  `ManifestsTellCompleteness` (`CompleteExactly`): receipts are only of images upstream and of
  videos, a cached output has a receipt (`Backed`), and a server past `ReadReceipts` has read one for everything that
  the workflow makes (`Fit`).  `ManifestsAreClosed` (`ListedLineage`): while no file is damaged, receipts, files and the
  servers' caches agree and an image with a receipt is never made again (`Whole`); a lone server has cached
  what the receipts say and makes everything from its cache (`Solo`).
- `RunFilesProofs`, of `RunFiles` (`FilesSpec`): `JournalKeepsRows` (`NothingLost`): who is past `Open` is alone, the offset it read is
  the length of what is there, and a `tail` is removed only after it was moved.  `StagedMediaIsTrue`
  (`StagedTrue`): what was gone past in `Order` is staged with the listed content, or the Run has rewritten the file
  since and the entry is a link; contents are never used twice.  A review's midframes are in its graph with the digest
  taken when they were staged.

In each case the invariant is shown to hold initially, to be kept by every action (one
lemma for each action, one step for each part it disturbs), and to imply the property.

## 5. What is only model-checked, and what is not modelled

Only model-checked: everything about liveness (`JobsEnd`, `CloseReturns`, `CallsReturn`,
`RunEnds`, `ActivationEnds`), since the provers do not deal with `ENABLED` and fairness.  Every safety invariant that a
passing run checks is also a theorem.
`ListedLineage` is restricted to one server, or to files that nobody damages: with two servers and a damaged file one
of them may go on handing out an output whose file the other one has made anew.

Not modelled in these modules: the text of prompts and of errors; permissions, snapshots and hashes of
compositions; evaluation artifacts and preflight; budgets (a plan is refused before it is executed when it
exceeds them); splitting a free text into shots; layout and redaction of exported graphs.  A torn row
is modelled in `Journal` and an append is one step elsewhere.  `story.mp4`, which two servers may assemble at the same
time, is one content in `ComfyNodes`.  Asset ids that end in `-video` by a caller's choice are not modelled in
`RunLifecycle`.  Contents of different files are distinct in `MediaStage`, so that
two files never share a target of an export.

Not modelled at all: image and search providers, beyond what they may do to a file; the Codex client, whose lock
lets one turn run at a time and whose turns are text; the HTTP API and the command line, which keep no state; audit pages and ffmpeg.

Facts that the models show and no document contradicts.  A job whose state file could not be read when its
worker began loses its fingerprint (`service.py:119-121`, `143-145`): every later request for it, its own too, is refused
as another execution's (`IdentityKept`).  When a row cannot be appended (`engine.py:722`, `736`), the call is
missing in `image_generation`, and when a row or a receipt (`engine.py:764`) cannot be written the next run pays for the image
again (`CountsTell`, `PaidOnce`).  An execution that is interrupted inside `generate()` behind the create request writes a
manifest without that creation, and the next one starts to count anew (`CountsNeverMiss`).  A shared image that no shot refers to
is upstream of nothing in a workflow, so that the manifest node calls the run partial for
ever; the same holds for a shot with the id `story`, whose video has the name of the story's (`CompleteExactly`).  A
server that stays up hands out a cached output whose file has been damaged, and every node that checks it raises until the
server restarts; no property is about that, since what is listed stays as it was.  An exported medium is
a hard link where that is possible, and a Run that rewrites the image changes what the export shows under a name that
contains the digest of the old content; `docs/ARCHITECTURE.md:101` calls these media content-addressed.  `StagedTrue` says
what is kept all the same: copies, and everything that the Run does not rewrite.  That the search for a cycle ends is
not stated either: it takes an image out of `remaining` in each round or stops.

## 6. Where the code and its documents differ

- `resubmit`: `docs/API.md:109` says that repeating a request returns the existing
  queued, running, complete or partial state.  A request that finds the job's lock held
  is answered from the file (`service.py:165-167`), which may say `failed`: the worker
  has written its outcome and has not released the lock yet, or another request is about to queue the job again.
  The caller is told of a failure and nothing is started for it.
- `counts`: `docs/API.md:171` says that `video_generation` counts newly created tasks.
  When `generate()` raises, the engine looks at the state file (`engine.py:1049-1056`),
  and also counts a `creating` or `create_ambiguous` that an earlier execution left.
- `prompts`: `docs/ARCHITECTURE.md:53-58` says that a resumed run validates
  `prompts.jsonl`.  When it was never written, `complete_videos` goes on without it
  and ends complete, with rows for the videos only.

## 7. Order of work

The modules were written in this order, the most important first: `JobService` with `RunJobs`, `VideoTask`
with `PaidTask`, `AssetDag` with `AssetRun`, `RunLifecycle`, `PluginRegistry`; then `PlanGraph`, `Director` and
`WorkflowCompile`, `ComfyNodes`, `Journal` and `MediaStage`.  What could follow:
the order in which the Codex client matches answers to turns,
and `create_plan` and `compile` of the service.
