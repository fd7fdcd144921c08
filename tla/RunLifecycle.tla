---------------------------- MODULE RunLifecycle ----------------------------
(***************************************************************************)
(* One Run directory under run_plan() and complete_videos() (engine.py):   *)
(* callers queue for .run.lock, the holder writes a running manifest,      *)
(* executes images, videos and the story, and finishes with manifest and   *)
(* prompts.jsonl.  How images are scheduled is AssetDag; how a provider    *)
(* creates and resumes a paid task is VideoTask; both are one step here.   *)
(***************************************************************************)
EXTENDS Naturals

CONSTANTS
  Callers,   \* threads and processes that call run_plan or complete_videos
  Images,    \* shared assets and keyframes
  NumShots,  \* plan.shots, in their order
  Keyframe,  \* Keyframe[s]: keyframe_asset_id of shot s
  Story,     \* the artifact "story-video"
  Contents,  \* the contents an image file may have, as hashes tell them apart
  None

Shots == 1..NumShots
Files == Images \cup Shots \cup {Story}

ASSUME RunAssumption ==
  /\ NumShots \in Nat \ {0}
  /\ Keyframe \in [Shots -> Images]
  /\ Contents \subseteq Nat \ {0}
  /\ Images \cap Shots = {} /\ Story \notin Images \cup Shots
  /\ None \notin Callers

VARIABLES
  mode,      \* policy.mode of run_plan; the directory's name is derived from it
  manifest,  \* run_manifest.json
  prompts,   \* the images that prompts.jsonl has rows of; rows of videos are left out
  files,     \* files[f]: the content of an artifact's file, 0: absent or damaged
  task,      \* task[s]: receipts/<shot>.video-task.json
  lock,      \* who holds .run.lock
  pc,        \* where a caller is
  op,        \* the holder's call
  mem,       \* the holder's manifest in memory
  rows,      \* the holder's prompt rows
  erred,     \* the holder has added to manifest.errors
  shot,      \* the shot the holder is at
  created    \* history: create requests sent by this execution

holder == <<mem, rows, erred, shot>>
vars == <<mode, manifest, prompts, files, task, lock, pc, op, holder, created>>

Modes == {"plan_only", "assets", "full"}
Content == Contents \cup {0}
Manifest == [status: {"none", "running", "complete", "partial", "failed"},
             mode: Modes, arts: [Files -> Content], gen: Nat]
Nothing == [f \in Files |-> 0]
Blank(status, m, arts) == [status |-> status, mode |-> m, arts |-> arts, gen |-> 0]
\* known: the task id is on disk; intent: status "creating".
Task == [phase: {"none", "intent", "ambiguous", "known"}, req: Content]
Ops == {"run", "continue"}  \* run_plan and complete_videos
PC == {"idle", "lock", "open", "images", "videos", "story", "conclude", "write", "prompts"}

TypeOK ==
  /\ mode \in Modes
  /\ manifest \in Manifest /\ mem \in Manifest
  /\ prompts \subseteq Images /\ rows \subseteq Images
  /\ files \in [Files -> Content]
  /\ task \in [Shots -> Task]
  /\ lock \in Callers \cup {None}
  /\ pc \in [Callers -> PC]
  /\ op \in Ops
  /\ erred \in BOOLEAN
  /\ shot \in 1..(NumShots + 1)
  /\ created \in Nat

Init ==
  /\ mode \in Modes
  /\ manifest = Blank("none", mode, Nothing)
  /\ prompts = {}
  /\ files = Nothing
  /\ task = [s \in Shots |-> [phase |-> "none", req |-> 0]]
  /\ lock = None
  /\ pc = [p \in Callers |-> "idle"] /\ op = "run"
  /\ mem = manifest /\ rows = {} /\ erred = FALSE /\ shot = 1 /\ created = 0

Step(p, from, to) ==
  /\ pc[p] = from
  /\ pc' = [pc EXCEPT ![p] = to]
  /\ UNCHANGED <<mode, lock, op>>

\* The call returns or raises, or its process dies: the lock is free, what it held is gone.
Exit(p) ==
  /\ pc' = [pc EXCEPT ![p] = "idle"]
  /\ UNCHANGED mode
  /\ IF lock = p
     THEN /\ lock' = None /\ mem' = Blank("none", mode, Nothing) /\ rows' = {}
          /\ erred' = FALSE /\ shot' = 1 /\ created' = 0 /\ op' = "run"
     ELSE UNCHANGED <<lock, op, holder, created>>

-----------------------------------------------------------------------------
Call(p) ==
  /\ pc[p] = "idle"
  /\ pc' = [pc EXCEPT ![p] = "lock"]
  /\ UNCHANGED <<mode, manifest, prompts, files, task, lock, op, holder, created>>

\* FileLock without a timeout: the caller waits; which call it is matters from here on.
Acquire(p, o) ==
  /\ pc[p] = "lock" /\ lock = None
  /\ pc' = [pc EXCEPT ![p] = "open"] /\ lock' = p /\ op' = o
  /\ UNCHANGED <<mode, manifest, prompts, files, task, holder, created>>

\* The execution begins: the manifest on disk says running before anything is executed.
Start(p, fresh, kept, to) ==
  /\ Step(p, "open", to)
  /\ manifest' = fresh /\ mem' = fresh
  /\ rows' = kept /\ erred' = FALSE /\ shot' = 1 /\ created' = 0
  /\ UNCHANGED <<prompts, files, task>>

\* run_plan: a new manifest, whatever was there.
Open(p) ==
  /\ op = "run"
  /\ Start(p, Blank("running", mode, Nothing), {},
           IF mode = "plan_only" THEN "conclude" ELSE "images")

\* Every image is in the manifest and its file has the recorded hash.
Continuable ==
  /\ manifest.status # "none"
  /\ \A i \in Images : manifest.arts[i] # 0 /\ files[i] = manifest.arts[i]

Refuse(p) ==
  /\ pc[p] = "open" /\ op = "continue" /\ ~Continuable
  /\ Exit(p)
  /\ UNCHANGED <<manifest, prompts, files, task>>

ImagesOf(arts) == [f \in Files |-> IF f \in Images THEN arts[f] ELSE 0]

\* Mutant: the old manifest stays on disk while the videos are made.
ContinueSilently(p) ==
  /\ op = "continue" /\ Continuable
  /\ Step(p, "open", "videos")
  /\ mem' = Blank("running", "full", ImagesOf(manifest.arts))
  /\ rows' = prompts /\ erred' = FALSE /\ shot' = 1 /\ created' = 0
  /\ UNCHANGED <<manifest, prompts, files, task>>

\* complete_videos: the images are kept, the videos and their prompt rows are not; the rows
\* are those that happen to be in prompts.jsonl.
Continue(p) ==
  /\ op = "continue" /\ Continuable
  /\ Start(p, Blank("running", "full", ImagesOf(manifest.arts)), prompts, "videos")

-----------------------------------------------------------------------------
(* Execution                                                                 *)

AfterImages == IF mode = "full" THEN "videos" ELSE "conclude"

\* Mutant: an image that fails is not an error of the run.
AssetsForgiven(p) ==
  /\ Step(p, "images", AfterImages)
  /\ \E new \in [Images -> Content], good \in SUBSET Images :
       /\ \A i \in Images : IF i \in good THEN new[i] # 0 ELSE new[i] \in {files[i], 0}
       /\ files' = [f \in Files |-> IF f \in Images THEN new[f] ELSE files[f]]
       /\ mem' = [mem EXCEPT !.arts = [f \in Files |-> IF f \in good THEN new[f] ELSE 0]]
       /\ rows' = good
  /\ UNCHANGED <<manifest, prompts, task, erred, shot, created>>

\* _execute_assets: an image is kept or made anew, or fails and its file may be damaged.
Assets(p) ==
  /\ Step(p, "images", AfterImages)
  /\ \E new \in [Images -> Content], good \in SUBSET Images :
       /\ \A i \in Images : IF i \in good THEN new[i] # 0 ELSE new[i] \in {files[i], 0}
       /\ files' = [f \in Files |-> IF f \in Images THEN new[f] ELSE files[f]]
       /\ mem' = [mem EXCEPT !.arts = [f \in Files |-> IF f \in good THEN new[f] ELSE 0]]
       /\ rows' = good
       /\ erred' = (good # Images)
  /\ UNCHANGED <<manifest, prompts, task, shot, created>>

Made(arts) == \A s \in Shots : arts[s] # 0

\* The shot is done with; after the last one the story is assembled if every shot has a video.
NextShot(p) ==
  /\ shot' = shot + 1
  /\ Step(p, "videos", IF shot < NumShots THEN "videos" ELSE IF Made(mem'.arts) THEN "story"
                                                        ELSE "conclude")
  /\ UNCHANGED <<manifest, prompts>>

SkipVideo(p) ==
  /\ shot \in Shots /\ mem.arts[Keyframe[shot]] = 0
  /\ erred' = TRUE
  /\ UNCHANGED <<files, task, mem, rows, created>>
  /\ NextShot(p)

\* Mutant: the state file does not say which request the task belongs to.
CreatesWithoutRequest(s, k) ==
  IF task[s].phase # "none" THEN {}
  ELSE {[phase |-> "ambiguous", req |-> None], [phase |-> "known", req |-> None]}

\* What generate() may do with the task of shot s for keyframe k: the new task and how many
\* create requests it sent.  A task of another request, or with no id, is never touched.
Creates(s, k) ==
  IF task[s].phase # "none" THEN {}
  ELSE {[phase |-> "ambiguous", req |-> k], [phase |-> "known", req |-> k]}

\* Mutant: a persisted task is resumed whatever request it belongs to.
ResumableAny(s, k) == task[s].phase = "known"

Resumable(s, k) == task[s].phase = "known" /\ task[s].req = k

\* The provider returns: a new task or the old one has a video, or bytes that do not decode.
VideoReturns(p) ==
  LET k == mem.arts[Keyframe[shot]] IN
  /\ shot \in Shots /\ k # 0
  /\ \E new \in BOOLEAN, good \in BOOLEAN :
       LET known == [phase |-> "known", req |-> k]
           content == IF good THEN task'[shot].req ELSE 0
       IN /\ IF new THEN known \in Creates(shot, k) /\ task' = [task EXCEPT ![shot] = known]
             ELSE Resumable(shot, k) /\ UNCHANGED task
          /\ created' = IF new THEN created + 1 ELSE created
          /\ files' = [files EXCEPT ![shot] = content]
          /\ mem' = [mem EXCEPT !.gen = IF new THEN @ + 1 ELSE @, !.arts[shot] = content]
          /\ erred' = (erred \/ ~good)
  /\ UNCHANGED rows
  /\ NextShot(p)

\* Mutant: a call that raises is taken to have created nothing.
VideoRaisesUncounted(p) ==
  LET k == mem.arts[Keyframe[shot]] IN
  /\ shot \in Shots /\ k # 0
  /\ \/ UNCHANGED <<task, created>>
     \/ \E t \in Creates(shot, k) : task' = [task EXCEPT ![shot] = t] /\ created' = created + 1
  /\ erred' = TRUE
  /\ UNCHANGED <<files, rows, mem>>
  /\ NextShot(p)

\* The provider raises.  A creation is counted when there was no task id before and the state
\* file now has an id or a creation that is open.
VideoRaises(p) ==
  LET k == mem.arts[Keyframe[shot]] IN
  /\ shot \in Shots /\ k # 0
  /\ \/ UNCHANGED <<task, created>>
     \/ \E t \in Creates(shot, k) : task' = [task EXCEPT ![shot] = t] /\ created' = created + 1
  /\ mem' = IF task[shot].phase # "known" /\ task'[shot].phase # "none"
            THEN [mem EXCEPT !.gen = @ + 1] ELSE mem
  /\ erred' = TRUE
  /\ NextShot(p)
  /\ UNCHANGED <<files, rows>>

\* The process dies inside generate(): the intent is on disk, or the task id is.
VideoDies(p) ==
  LET k == mem.arts[Keyframe[shot]] IN
  /\ pc[p] = "videos" /\ shot \in Shots /\ k # 0 /\ task[shot].phase = "none"
  /\ \E phase \in {"intent", "known"} :
       task' = [task EXCEPT ![shot] = [phase |-> phase, req |-> k]]
  /\ Exit(p)
  /\ UNCHANGED <<manifest, prompts, files>>

\* The contents of a story are told apart by its first video.
Assemble(p) ==
  /\ Step(p, "story", "conclude")
  /\ files' = [files EXCEPT ![Story] = mem.arts[1]]
  /\ mem' = [mem EXCEPT !.arts[Story] = mem.arts[1]]
  /\ UNCHANGED <<manifest, prompts, task, rows, erred, shot, created>>

Status(s) == mem' = [mem EXCEPT !.status = s]

\* The main thread leaves the images: the workers leave what they made, and the manifest
\* lists what has been collected.
CutImages(p, some, none) ==
  /\ Step(p, "images", "write")
  /\ \E new \in [Images -> Content], good \in SUBSET Images :
       /\ \A i \in good : new[i] # 0
       /\ files' = [f \in Files |-> IF f \in Images THEN new[f] ELSE files[f]]
       /\ mem' = [mem EXCEPT !.status = IF good # {} THEN some ELSE none,
                             !.arts = [f \in Files |-> IF f \in good THEN new[f] ELSE 0]]
  /\ UNCHANGED <<task, created>>

\* It leaves the loop over the shots.  When that happens in or behind generate(), a create
\* request may have been sent that is not counted, and the shot's file may be another.
CutVideo(p, s) ==
  LET k == mem.arts[Keyframe[shot]] IN
  /\ Step(p, "videos", "write")
  /\ \/ UNCHANGED <<files, task, created>>
     \/ /\ shot \in Shots /\ k # 0
        /\ \/ Resumable(shot, k) /\ UNCHANGED <<task, created>>
           \/ /\ task[shot].phase = "none"
              /\ \E phase \in {"intent", "ambiguous", "known"} :
                   task' = [task EXCEPT ![shot] = [phase |-> phase, req |-> k]]
              /\ created' = created + 1
        /\ \E v \in {files[shot], 0} \cup (IF task'[shot].phase = "known" THEN {k} ELSE {}) :
             files' = [files EXCEPT ![shot] = v]
  /\ Status(s)

\* The story may be left damaged, or whole and not listed.
CutStory(p, s) ==
  /\ Step(p, "story", "write")
  /\ \E v \in {files[Story], 0, mem.arts[1]} : files' = [files EXCEPT ![Story] = v]
  /\ Status(s)
  /\ UNCHANGED <<task, created>>

\* An exception that the loops over images and shots do not catch: a journal, a reference or
\* a state file cannot be read, or the story cannot be assembled.
Abort(p) ==
  /\ LET s == IF op = "continue" \/ mem.arts # Nothing THEN "partial" ELSE "failed" IN
     CutImages(p, "partial", "failed") \/ CutVideo(p, s) \/ CutStory(p, s)
  /\ erred' = TRUE
  /\ UNCHANGED <<manifest, prompts, rows, shot>>

\* KeyboardInterrupt or SystemExit, which "except Exception" does not catch: the run is
\* finished as failed, and the exception goes on.
Interrupt(p) ==
  /\ \/ CutImages(p, "failed", "failed")
     \/ CutVideo(p, "failed")
     \/ CutStory(p, "failed")
     \/ Step(p, "conclude", "write") /\ Status("failed") /\ UNCHANGED <<files, task, created>>
  /\ erred' = TRUE
  /\ UNCHANGED <<manifest, prompts, rows, shot>>

\* The status is decided, then an evaluator may find fault with a run that executed something.
Conclude(p) ==
  /\ Step(p, "conclude", "write")
  /\ \/ Status(IF erred THEN "partial" ELSE "complete") /\ UNCHANGED erred
     \/ /\ op = "run" /\ mode # "plan_only"
        /\ Status("partial") /\ erred' = TRUE
  /\ UNCHANGED <<manifest, prompts, files, task, rows, shot, created>>

-----------------------------------------------------------------------------
(* _finish_run                                                               *)

WriteManifest(p) ==
  /\ Step(p, "write", "prompts")
  /\ manifest' = mem
  /\ UNCHANGED <<prompts, files, task, holder, created>>

\* prompts.jsonl and audit.html are written; when one cannot be, the run is partial.
WritePrompts(p) ==
  /\ pc[p] = "prompts"
  /\ \/ prompts' = rows /\ UNCHANGED manifest
     \/ /\ prompts' \in {prompts, rows}
        /\ manifest' = [mem EXCEPT !.status = "partial"]
  /\ Exit(p)
  /\ UNCHANGED <<files, task>>

-----------------------------------------------------------------------------
Crash(p) ==
  /\ pc[p] # "idle"
  /\ Exit(p)
  /\ UNCHANGED <<manifest, prompts, files, task>>

\* Between calls an image is damaged or deleted; a video that is would be fetched again.
Damage(i) ==
  /\ lock = None /\ files[i] # 0
  /\ files' = [files EXCEPT ![i] = 0]
  /\ UNCHANGED <<mode, manifest, prompts, task, lock, pc, op, holder, created>>

Runs(p) ==
  \/ Open(p) \/ Refuse(p) \/ Continue(p)
  \/ Assets(p)
  \/ SkipVideo(p) \/ VideoReturns(p) \/ VideoRaises(p)
  \/ Assemble(p) \/ Abort(p) \/ Conclude(p)
  \/ WriteManifest(p) \/ WritePrompts(p)

Next ==
  \/ \E p \in Callers :
       \/ Call(p) \/ (\E o \in Ops : Acquire(p, o)) \/ Runs(p) \/ VideoDies(p) \/ Interrupt(p) \/ Crash(p)
  \/ \E i \in Images : Damage(i)

Spec == Init /\ [][Next]_vars

-----------------------------------------------------------------------------
(***************************************************************************)
(* Whoever reads a complete manifest, with or without the lock, finds all  *)
(* that its mode promises, and no file of it is replaced behind it by a    *)
(* later execution (engine.py:1213, 1325, 1145).                           *)
(***************************************************************************)
CompleteIsWhole ==
  manifest.status = "complete" =>
    /\ manifest.mode # "plan_only" => \A i \in Images : manifest.arts[i] # 0
    /\ manifest.mode = "full" => Made(manifest.arts) /\ manifest.arts[Story] # 0
    /\ \A f \in Files : manifest.arts[f] # 0 => files[f] \in {manifest.arts[f], 0}

(***************************************************************************)
(* A video that a manifest lists was made from the keyframe it lists, even *)
(* when keyframes were regenerated and paid tasks resumed in between       *)
(* (engine.py:982-1005, providers/video.py:216-219).                       *)
(***************************************************************************)
VideoOfKeyframe ==
  \A s \in Shots :
    manifest.arts[s] # 0 => manifest.arts[s] = manifest.arts[Keyframe[s]]

(***************************************************************************)
(* video_generation misses no create request of an execution that came     *)
(* past its last shot, however the provider's calls ended; one that was    *)
(* cut off misses at most the request of the shot it was at, and the next  *)
(* execution starts to count anew (engine.py:1014-1020, 1049-1056, 1230).  *)
(***************************************************************************)
CountsNeverMiss ==
  \A p \in Callers :
    pc[p] = "prompts" => created <= manifest.gen + (IF shot \in Shots THEN 1 ELSE 0)

(***************************************************************************)
(* docs/API.md:171: video_generation counts newly created video tasks.     *)
(***************************************************************************)
CountsNewTasks == \A p \in Callers : pc[p] = "prompts" => manifest.gen <= created

(***************************************************************************)
(* docs/ARCHITECTURE.md:53-58: a run that resumes validates its manifest   *)
(* and prompts.jsonl.  A continued run that is complete has a prompt row   *)
(* for every image it lists.                                               *)
(***************************************************************************)
PromptsKept ==
  mode = "assets" /\ manifest.mode = "full" /\ manifest.status = "complete" /\ lock = None
    => Images \subseteq prompts

(***************************************************************************)
(* A reader that polls the manifest never sees one result turn into        *)
(* another: a finished manifest is followed by a running one, or by itself *)
(* as partial when prompts.jsonl could not be written (engine.py:1141-1158)*)
(***************************************************************************)
Announced ==
  [][manifest' # manifest /\ manifest.status # "running" =>
       manifest'.status = "running" \/ manifest' = [manifest EXCEPT !.status = "partial"]]_vars
=============================================================================
