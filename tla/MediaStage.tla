----------------------------- MODULE MediaStage -----------------------------
(***************************************************************************)
(* How export_story_canvas and import_comfy_review stage the media of a    *)
(* Run that may be executed again meanwhile.  A file is its name and the   *)
(* number of its content.  Image providers and ffmpeg rewrite their file   *)
(* in place, a shot's video is replaced, and no staging takes .run.lock.   *)
(* An export names its target after the content, an import after the path; *)
(* a target is a hard link, or a copy when the device is another one.      *)
(***************************************************************************)
EXTENDS Naturals, Sequences, FiniteSets, TLC

CONSTANTS
  InPlace,     \* images and the story video
  Replaced,    \* videos of shots
  Midframes,   \* made by the user, not listed by the manifest
  Order,       \* in which files are staged; a file comes again as a reference
  MaxContents  \* bound: contents of one file

Declared == InPlace \cup Replaced
Files == Declared \cup Midframes

ASSUME StageAssumption ==
  /\ Order \in Seq(Files) /\ Files \subseteq {Order[i] : i \in DOMAIN Order}
  /\ InPlace \cap Replaced = {} /\ Declared \cap Midframes = {}

VARIABLES
  kind,      \* export or review
  device,    \* of the target: same or other
  content,   \* of each file; 0: written in part
  made,      \* contents made for each file
  running,   \* the Run is executed
  manifest,  \* the content of each file that it lists
  targets,   \* what is staged, by name: its content, and whether it is a hard link
  temporary, \* the import's temporary file, none or one
  stage,     \* the step, the index in Order, what the manifest listed and, by their digests, the
             \* midframes that were staged, and the digest
  graph      \* the graph, none or one: the content of each medium that it shows

runVars == <<content, made, running, manifest>>
stageVars == <<kind, device, runVars, targets, temporary, stage, graph>>

NoStage == [step |-> "idle", i |-> 1, listed |-> << >>, digest |-> 0]

StageInit ==
  /\ kind \in {"export", "review"} /\ device \in {"same", "other"}
  /\ content = [f \in Files |-> 1] /\ made = content /\ running = FALSE /\ manifest = [f \in Declared |-> 1]
  /\ targets = << >> /\ temporary = {} /\ stage = NoStage /\ graph = {}

-----------------------------------------------------------------------------
(* The Run                                                                   *)

\* run_plan starts from an empty manifest, complete_videos from the images'.
Execute ==
  /\ ~running /\ running' = TRUE
  /\ \E kept \in {{}, {f \in DOMAIN manifest : f \notin Replaced}} :
       manifest' = [f \in kept |-> manifest[f]]
  /\ UNCHANGED <<kind, device, content, made, targets, temporary, stage, graph>>

\* Hard links see what is written in place.
Through(f, c, entry) == IF entry.link THEN [entry EXCEPT !.content = c] ELSE entry
WriteThrough(f, c) ==
  /\ targets' = [n \in DOMAIN targets |-> IF n[1] = f THEN Through(f, c, targets[n]) ELSE targets[n]]
  /\ temporary' = IF stage.i \in DOMAIN Order /\ Order[stage.i] = f
                  THEN {Through(f, c, t) : t \in temporary} ELSE temporary

\* The file is truncated; it is whole again when the provider has written it.
Truncate(f) ==
  /\ running /\ made[f] < MaxContents
  /\ content' = [content EXCEPT ![f] = 0] /\ made' = [made EXCEPT ![f] = @ + 1]
  /\ WriteThrough(f, 0)
  /\ UNCHANGED <<kind, device, running, manifest, stage, graph>>

Fill(f) ==
  /\ running /\ content[f] = 0
  /\ content' = [content EXCEPT ![f] = made[f]] /\ WriteThrough(f, made[f])
  /\ UNCHANGED <<kind, device, made, running, manifest, stage, graph>>

\* os.replace: what is staged keeps the old file.
Replace(f) ==
  LET Old(entry) == [entry EXCEPT !.link = FALSE]
  IN  /\ running /\ made[f] < MaxContents
      /\ made' = [made EXCEPT ![f] = @ + 1] /\ content' = [content EXCEPT ![f] = made'[f]]
      /\ targets' = [n \in DOMAIN targets |-> IF n[1] = f THEN Old(targets[n]) ELSE targets[n]]
      /\ temporary' = IF stage.i \in DOMAIN Order /\ Order[stage.i] = f
                      THEN {Old(t) : t \in temporary} ELSE temporary
      /\ UNCHANGED <<kind, device, running, manifest, stage, graph>>

\* The last manifest lists what is whole; an execution that dies writes none.
Finish ==
  /\ running /\ running' = FALSE
  /\ manifest' = [f \in {g \in Declared : content[g] # 0} |-> content[f]] \/ UNCHANGED manifest
  /\ UNCHANGED <<kind, device, content, made, targets, temporary, stage, graph>>

-----------------------------------------------------------------------------
(* Staging                                                                   *)

Put(f, x, value) == [y \in DOMAIN f \cup {x} |-> IF y = x THEN value ELSE f[y]]
File == Order[stage.i]
Name(f, digest) == <<f, IF kind = "export" THEN digest ELSE 0>>
Go(step) == stage' = [stage EXCEPT !.step = step]
NextFile == stage' = [stage EXCEPT !.step = "file", !.i = @ + 1, !.digest = 0]

\* The plan and the manifest are read.
Begin ==
  /\ stage.step = "idle" /\ stage' = [NoStage EXCEPT !.step = "file", !.listed = manifest]
  /\ UNCHANGED <<kind, device, runVars, targets, temporary, graph>>

\* It raises, for a medium that is missing or does not decode, too, or dies.  An import that raises
\* removes its temporary file; that of one that died has the name of another process.
Abandon ==
  /\ stage.step # "idle" /\ stage' = NoStage /\ temporary' = {}
  /\ UNCHANGED <<kind, device, runVars, targets, graph>>

\* What is not listed is not staged; an import stages the midframes, too.
Skip ==
  /\ stage.step = "file" /\ stage.i \in DOMAIN Order /\ File \notin DOMAIN stage.listed
  /\ File \in Declared \/ kind = "export"
  /\ NextFile
  /\ UNCHANGED <<kind, device, runVars, targets, temporary, graph>>

\* An import stages a path once.
Staged == kind = "review" /\ \E j \in 1..(stage.i - 1) : Order[j] = File

\* The digest is the one the manifest lists, and the medium decodes; a midframe has the digest
\* that is found.
Hash ==
  /\ stage.step = "file" /\ stage.i \in DOMAIN Order /\ content[File] # 0
  /\ \/ File \in DOMAIN stage.listed /\ content[File] = stage.listed[File]
     \/ File \in Midframes \ DOMAIN stage.listed /\ kind = "review"
  /\ stage' = IF Staged THEN [stage EXCEPT !.i = @ + 1]
              ELSE [stage EXCEPT !.step = "place", !.digest = content[File],
                                 !.listed = Put(@, File, content[File])]
  /\ UNCHANGED <<kind, device, runVars, targets, temporary, graph>>

Copied == {content[File]} \cup (IF content[File] = stage.digest THEN {} ELSE {0})

\* Mutant: a target that is there is taken as it is.
ExistingTrusted ==
  /\ stage.step = "place" /\ Name(File, stage.digest) \in DOMAIN targets
  /\ NextFile
  /\ UNCHANGED <<kind, device, runVars, targets, temporary, graph>>

\* A target that is there is hashed.
Existing ==
  LET name == Name(File, stage.digest)
  IN  /\ stage.step = "place" /\ name \in DOMAIN targets /\ targets[name].content = stage.digest
      /\ NextFile
      /\ UNCHANGED <<kind, device, runVars, targets, temporary, graph>>

\* add: the file is linked, or a copy is begun, under its final name.
PlaceExport ==
  LET name == Name(File, stage.digest)
  IN  /\ kind = "export" /\ stage.step = "place" /\ name \notin DOMAIN targets
      /\ targets' = Put(targets, name, [content |-> IF device = "same" THEN content[File] ELSE 0,
                                         link |-> device = "same"])
      /\ IF device = "same" THEN NextFile ELSE Go("copy")
      /\ UNCHANGED <<kind, device, runVars, temporary, graph>>

CopyExport ==
  /\ kind = "export" /\ stage.step = "copy" /\ NextFile
  /\ \E c \in Copied : targets' = [targets EXCEPT ![Name(File, stage.digest)].content = c]
  /\ UNCHANGED <<kind, device, runVars, temporary, graph>>

\* _stage_file: the file is linked or copied under a temporary name.
PlaceReview ==
  /\ kind = "review" /\ stage.step = "place" /\ Name(File, stage.digest) \notin DOMAIN targets
  /\ IF device = "same"
     THEN temporary' = {[content |-> content[File], link |-> TRUE]}
     ELSE \E c \in Copied : temporary' = {[content |-> c, link |-> FALSE]}
  /\ Go("rehash")
  /\ UNCHANGED <<kind, device, runVars, targets, graph>>

\* The temporary file is hashed and gets its name.
Rehash ==
  /\ stage.step = "rehash"
  /\ \E t \in temporary :
       t.content = stage.digest /\ targets' = Put(targets, Name(File, stage.digest), t)
  /\ temporary' = {} /\ NextFile
  /\ UNCHANGED <<kind, device, runVars, graph>>

\* An import wants every medium of the plan, the midframes of its shots among them.  The graph is written, then the report, which repeats
\* what the graph shows.
WriteGraph ==
  /\ stage.step = "file" /\ stage.i = Len(Order) + 1
  /\ kind = "review" => DOMAIN stage.listed = Files
  /\ graph' = {stage.listed} /\ Go("report")
  /\ UNCHANGED <<kind, device, runVars, targets, temporary>>

WriteReport ==
  /\ stage.step = "report" /\ stage' = NoStage
  /\ UNCHANGED <<kind, device, runVars, targets, temporary, graph>>

StageNext ==
  \/ Execute \/ Finish
  \/ \E f \in InPlace : Truncate(f) \/ Fill(f)
  \/ \E f \in Replaced : Replace(f)
  \/ Begin \/ Abandon \/ Skip \/ Hash \/ Existing \/ PlaceExport \/ CopyExport
  \/ PlaceReview \/ Rehash \/ WriteGraph \/ WriteReport

-----------------------------------------------------------------------------

\* What the graph and its report show is staged with the content that it names, unless the Run has
\* changed the file since it was hashed; the copies of an import hold even then.
StagedTrue ==
  \A shown \in graph : \A f \in DOMAIN shown :
    LET name == Name(f, shown[f])
    IN  /\ name \in DOMAIN targets
        /\ \/ targets[name].content = shown[f]
           \/ content[f] # shown[f] /\ (kind = "review" => targets[name].link)
=============================================================================
