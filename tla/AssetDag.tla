------------------------------ MODULE AssetDag ------------------------------
(***************************************************************************)
(* StoryCanvas._execute_assets (engine.py) on one Run directory: the loop  *)
(* that submits images whose dependencies are generated, the worker        *)
(* threads that search, download, resolve references, call the image       *)
(* provider and keep journal and receipt, and the runs that follow a crash *)
(* or a failure and must reuse what is on disk.  The n-th call for an      *)
(* image makes content n; 0 is a file that is absent or damaged.           *)
(***************************************************************************)
EXTENDS FiniteSets, FiniteSetsExt, Integers, Sequences

CONSTANTS
  Assets,         \* asset_id and keyframe_asset_id of the plan
  Deps,           \* Deps[a]: its dependencies
  Refs,           \* Refs[a]: source_asset_id of its references
  FactAsked,      \* the assets with a search_query
  VisualAsked,    \* the assets with a visual_search_query
  Exemplars,      \* the contents that the visual search may find
  MaxConcurrency, \* policy.max_concurrency
  MaxRuns,        \* bound: runs of the plan
  MaxMishaps      \* bound: crashes, failed calls, reads and writes, and damaged files

ASSUME PlanAssumption ==
  /\ IsFiniteSet(Assets)
  /\ Deps \in [Assets -> SUBSET Assets]
  /\ Refs \in [Assets -> SUBSET Assets]
  /\ \A a \in Assets : Refs[a] \subseteq Deps[a]
  /\ FactAsked \subseteq Assets /\ VisualAsked \subseteq Assets
  /\ Exemplars \subseteq Nat \ {0}
\* No set of images waits for itself: what Verdict says of every plan that is accepted.
ASSUME AcyclicAssumption ==
  \A S \in SUBSET Assets : S # {} => \E a \in S : Deps[a] \cap S = {}
ASSUME BoundAssumption == MaxConcurrency \in Nat \ {0} /\ MaxRuns \in Nat /\ MaxMishaps \in Nat

VARIABLES
  \* The Run directory
  found,    \* found[k]: the assets whose search receipt of kind k is on disk
  source,   \* source[a]: the downloaded exemplar of a
  noted,    \* noted[a]: the hash that the receipt of the exemplar records
  png,      \* png[a]: assets/<a>.png
  receipt,  \* receipt[a]: request identity and hash in receipts/<a>.json
  rows,     \* rows[a]: complete rows of receipts/<a>.attempts.jsonl
  \* The process
  phase,    \* where the main thread is in _execute_assets
  outcome,  \* outcome[a]: pending, running, generated, failed or blocked
  record,   \* record[a]: generated[a]: its hash and resolved references
  missed,   \* the generated assets whose metadata["cache"] is "miss"
  stage,    \* stage[a]: where the worker of a is
  key,      \* key[a]: the request identity that the worker of a computed
  before,   \* attempts_before
  counts,   \* manifest.call_counts
  \* History
  sent,     \* sent[a]: the identities sent to the image provider, in order
  called,   \* the assets for which the present run called the provider
  lost,     \* those of them whose row could not be written
  spoiled,  \* the assets whose last call failed, or whose result was not kept
  runs, mishaps

main == <<phase, outcome, record, missed, before, counts>>
past == <<called, lost, spoiled>>
history == <<sent, past, runs, mishaps>>
vars == <<found, source, noted, png, receipt, rows, main, stage, key, history>>

Kinds == {"fact", "visual"}
Key == [refs: [Assets -> Nat], source: Nat]
NoKey == [refs |-> [a \in Assets |-> 0], source |-> 0]
Record == [key: Key, sha: Nat]
NoRecord == [key |-> NoKey, sha |-> 0]
Counts == [generation: Nat, successes: Nat, hits: Nat]
Phases == {"off", "schedule", "wait", "count", "done"}
Outcomes == {"pending", "running", "generated", "failed", "blocked"}
Stages == {"idle", "fact", "visual", "source", "note", "resolve", "call", "succeeded",
           "erred", "receipt", "hit", "made", "raised"}

TypeOK ==
  /\ found \in [Kinds -> SUBSET Assets]
  /\ source \in [Assets -> Nat] /\ noted \in [Assets -> Nat]
  /\ png \in [Assets -> Nat]
  /\ receipt \in [Assets -> Record] /\ record \in [Assets -> Record]
  /\ rows \in [Assets -> Nat] /\ before \in [Assets -> Nat]
  /\ phase \in Phases
  /\ outcome \in [Assets -> Outcomes]
  /\ missed \subseteq Assets
  /\ called \subseteq Assets /\ lost \subseteq Assets /\ spoiled \subseteq Assets
  /\ stage \in [Assets -> Stages]
  /\ key \in [Assets -> Key]
  /\ counts \in Counts
  /\ sent \in [Assets -> Seq(Key)]
  /\ runs \in 0..MaxRuns /\ mishaps \in 0..MaxMishaps

With(o) == {a \in Assets : outcome[a] = o}
Failures == With("failed") \cup With("blocked")

\* The stage after the searches before k.
From(a, k) ==
  IF k = "fact" /\ a \in FactAsked THEN "fact"
  ELSE IF a \in VisualAsked THEN "visual" ELSE "resolve"

AllAre(v) == [a \in Assets |-> v]

Init ==
  /\ found = [k \in Kinds |-> {}]
  /\ source = AllAre(0) /\ noted = AllAre(0) /\ png = AllAre(0) /\ rows = AllAre(0)
  /\ receipt = AllAre(NoRecord)
  /\ phase = "off" /\ outcome = AllAre("pending") /\ record = AllAre(NoRecord)
  /\ missed = {} /\ before = AllAre(0)
  /\ counts = [generation |-> 0, successes |-> 0, hits |-> 0]
  /\ stage = AllAre("idle") /\ key = AllAre(NoKey)
  /\ sent = AllAre(<< >>) /\ called = {} /\ lost = {} /\ spoiled = {} /\ runs = 0 /\ mishaps = 0

-----------------------------------------------------------------------------
(* The main thread                                                           *)

\* The run starts, or starts again on what the last one left.
Begin ==
  /\ phase \in {"off", "done"} /\ phase' = "schedule"
  /\ runs < MaxRuns /\ runs' = runs + 1
  /\ outcome' = AllAre("pending") /\ record' = AllAre(NoRecord)
  /\ missed' = {} /\ called' = {} /\ lost' = {}
  /\ before' = rows
  /\ UNCHANGED <<found, source, noted, png, receipt, rows, stage, key, counts, sent, spoiled,
                 mishaps>>

\* What one pass over the pending assets finds: who is blocked by a failure of an earlier
\* pass, who is ready, and who is left when nobody can run.
Blocked == {a \in With("pending") : Deps[a] \cap Failures # {}}
Ready == {a \in With("pending") \ Blocked : Deps[a] \subseteq With("generated")}
Room == MaxConcurrency - Cardinality(With("running"))

Pass(blocked, started) ==
  /\ outcome' = [a \in Assets |-> IF a \in blocked THEN "blocked"
                                  ELSE IF a \in started THEN "running" ELSE outcome[a]]
  /\ stage' = [a \in Assets |-> IF a \in started THEN From(a, "fact") ELSE stage[a]]
  /\ UNCHANGED <<found, source, noted, png, receipt, rows, record, missed, key, before,
                 counts, history>>

\* Mutant: the first failure stops the run.
ScheduleFailFast ==
  /\ phase = "schedule"
  /\ LET blocked == IF Failures # {} THEN With("pending") ELSE {} IN
     \/ \E S \in SUBSET (Ready \ blocked) :
          /\ Cardinality(S) = Min({Cardinality(Ready \ blocked), Room})
          /\ S \cup With("running") # {}
          /\ Pass(blocked, S) /\ phase' = "wait"
     \/ /\ Ready \ blocked = {} /\ With("running") = {}
        /\ Pass(With("pending"), {}) /\ phase' = "count"

\* Mutant: nobody notices that nothing can run any more.
ScheduleNeverGivesUp ==
  /\ phase = "schedule"
  /\ \E S \in SUBSET Ready :
       /\ Cardinality(S) = Min({Cardinality(Ready), Room})
       /\ Pass(Blocked, S)
       /\ phase' = IF With("pending") \cup With("running") = {} THEN "count" ELSE "wait"

\* Mutant: a dependency that is no longer pending is taken for one that is generated.
ScheduleEarly ==
  /\ phase = "schedule"
  /\ LET ready == {a \in With("pending") \ Blocked : Deps[a] \cap With("pending") = {}} IN
     \/ \E S \in SUBSET ready :
          /\ Cardinality(S) = Min({Cardinality(ready), Room})
          /\ S \cup With("running") # {}
          /\ Pass(Blocked, S) /\ phase' = "wait"
     \/ /\ ready = {} /\ With("running") = {}
        /\ Pass(With("pending"), {}) /\ phase' = "count"

\* One pass of the loop: those who are ready start while there is room, which of them is
\* left open; when nobody is ready or running, all who are pending are given up.
Schedule ==
  /\ phase = "schedule"
  /\ \/ \E S \in SUBSET Ready :
          /\ Cardinality(S) = Min({Cardinality(Ready), Room})
          /\ S \cup With("running") # {}
          /\ Pass(Blocked, S) /\ phase' = "wait"
     \/ /\ Ready = {} /\ With("running") = {}
        /\ Pass(With("pending"), {}) /\ phase' = "count"

\* wait(FIRST_COMPLETED) hands over every future that is done.
Collect ==
  /\ phase = "wait" /\ phase' = "schedule"
  /\ LET good == {a \in Assets : stage[a] \in {"hit", "made"}}
         bad == {a \in Assets : stage[a] = "raised"}
     IN /\ good \cup bad # {}
        /\ outcome' = [a \in Assets |-> IF a \in good THEN "generated"
                                        ELSE IF a \in bad THEN "failed" ELSE outcome[a]]
        /\ record' = [a \in Assets |-> IF a \in good THEN [key |-> key[a], sha |-> png[a]]
                                       ELSE record[a]]
        /\ missed' = missed \cup {a \in good : stage[a] = "made"}
        /\ stage' = [a \in Assets |-> IF a \in good \cup bad THEN "idle" ELSE stage[a]]
  /\ UNCHANGED <<found, source, noted, png, receipt, rows, key, before, counts, history>>

\* Mutant: the journals are subtracted the wrong way round.
CountReversed ==
  /\ phase = "count" /\ phase' = "done"
  /\ counts' = [generation |-> MapThenSumSet(LAMBDA a : before[a] - rows[a], Assets),
                successes |-> Cardinality(missed),
                hits |-> Cardinality(With("generated") \ missed)]
  /\ UNCHANGED <<found, source, noted, png, receipt, rows, outcome, record, missed, stage,
                 key, before, history>>

Count ==
  /\ phase = "count" /\ phase' = "done"
  /\ counts' = [generation |-> MapThenSumSet(LAMBDA a : rows[a] - before[a], Assets),
                successes |-> Cardinality(missed),
                hits |-> Cardinality(With("generated") \ missed)]
  /\ UNCHANGED <<found, source, noted, png, receipt, rows, outcome, record, missed, stage,
                 key, before, history>>

-----------------------------------------------------------------------------
(* The worker of an asset                                                    *)

To(a, from, to) ==
  /\ stage[a] = from
  /\ stage' = [stage EXCEPT ![a] = to]
  /\ UNCHANGED <<main, runs>>

\* One of the bounded number of things that go wrong.
Mishap == mishaps < MaxMishaps /\ mishaps' = mishaps + 1

\* _cached_search: the receipt answers, or the provider does and the receipt is written.
Search(a, k) ==
  /\ \/ /\ To(a, k, IF k = "fact" THEN From(a, "visual") ELSE "source")
        /\ found' = [found EXCEPT ![k] = @ \cup {a}]
     \/ a \notin found[k] /\ To(a, k, "raised") /\ UNCHANGED found
  /\ UNCHANGED <<source, noted, png, receipt, rows, key, sent, past, mishaps>>

\* _visual_source_artifact: an exemplar that has its receipt's hash is kept; a download may
\* fail and may leave a damaged file.
Source(a) ==
  /\ \/ source[a] # 0 /\ source[a] = noted[a] /\ To(a, "source", "resolve") /\ UNCHANGED source
     \/ /\ source[a] = 0 \/ source[a] # noted[a]
        /\ \/ \E v \in Exemplars : source' = [source EXCEPT ![a] = v] /\ To(a, "source", "note")
           \/ \E v \in {source[a], 0} :
                source' = [source EXCEPT ![a] = v] /\ To(a, "source", "raised")
  /\ UNCHANGED <<found, noted, png, receipt, rows, key, sent, past, mishaps>>

\* Its receipt is written, or cannot be.
Note(a) ==
  /\ \/ /\ To(a, "note", "resolve") /\ noted' = [noted EXCEPT ![a] = source[a]]
        /\ UNCHANGED mishaps
     \/ To(a, "note", "raised") /\ Mishap /\ UNCHANGED noted
  /\ UNCHANGED <<found, source, png, receipt, rows, key, sent, past>>

\* _reference_paths: every generated reference still has the hash of its record.
Sound(a) == \A d \in Refs[a] : record[d].sha # 0 /\ png[d] = record[d].sha

KeyOf(a) == [refs |-> [d \in Assets |-> IF d \in Refs[a] THEN record[d].sha ELSE 0],
             source |-> IF a \in VisualAsked THEN source[a] ELSE 0]

Valid(a, k) == png[a] # 0 /\ receipt[a] = [key |-> k, sha |-> png[a]]

\* Mutant: the references are left out of the request identity.
ResolveByPrompt(a) ==
  /\ IF ~Sound(a) THEN To(a, "resolve", "raised") /\ UNCHANGED key
     ELSE /\ key' = [key EXCEPT ![a] = KeyOf(a)]
          /\ To(a, "resolve", IF png[a] # 0 /\ receipt[a].sha = png[a] THEN "hit" ELSE "call")
  /\ UNCHANGED <<found, source, noted, png, receipt, rows, sent, past, mishaps>>

\* Mutant: the receipt is not looked at.
ResolveAnew(a) ==
  /\ IF ~Sound(a) THEN To(a, "resolve", "raised") /\ UNCHANGED key
     ELSE key' = [key EXCEPT ![a] = KeyOf(a)] /\ To(a, "resolve", "call")
  /\ UNCHANGED <<found, source, noted, png, receipt, rows, sent, past, mishaps>>

\* _generate_image_locked up to the cache check: a reference that is not sound raises, and
\* so does a receipt or a journal that cannot be read.
Resolve(a) ==
  /\ \/ ~Sound(a) /\ To(a, "resolve", "raised") /\ UNCHANGED <<key, mishaps>>
     \/ Sound(a) /\ To(a, "resolve", "raised") /\ Mishap /\ UNCHANGED key
     \/ /\ Sound(a) /\ UNCHANGED mishaps
        /\ key' = [key EXCEPT ![a] = KeyOf(a)]
        /\ \/ Valid(a, KeyOf(a)) /\ To(a, "resolve", "hit")
           \/ ~Valid(a, KeyOf(a)) /\ To(a, "resolve", "call")
  /\ UNCHANGED <<found, source, noted, png, receipt, rows, sent, past>>

\* The provider writes the file in place and fails or not; an image that cannot be verified
\* is a failure too.
Call(a) ==
  /\ sent' = [sent EXCEPT ![a] = Append(@, key[a])]
  /\ called' = called \cup {a} /\ UNCHANGED lost
  /\ \/ /\ To(a, "call", "succeeded") /\ spoiled' = spoiled \ {a} /\ UNCHANGED mishaps
        /\ png' = [png EXCEPT ![a] = Len(sent[a]) + 1]
     \/ /\ To(a, "call", "erred") /\ spoiled' = spoiled \cup {a}
        /\ Mishap
        /\ \E v \in {png[a], 0} : png' = [png EXCEPT ![a] = v]
  /\ UNCHANGED <<found, source, noted, receipt, rows, key>>

\* Mutant: only an attempt that succeeds is journaled.
JournalSuccess(a) ==
  /\ \/ To(a, "succeeded", "receipt") /\ rows' = [rows EXCEPT ![a] = @ + 1]
     \/ To(a, "erred", "raised") /\ UNCHANGED rows
  /\ UNCHANGED <<found, source, noted, png, receipt, key, sent, past, mishaps>>

\* The attempt is appended to the journal.  An append that raises may have left the whole
\* row; the worker raises with it, and what the call made gets no receipt.
Journal(a) ==
  /\ \/ /\ To(a, "succeeded", "receipt") \/ To(a, "erred", "raised")
        /\ rows' = [rows EXCEPT ![a] = @ + 1]
        /\ UNCHANGED <<past, mishaps>>
     \/ /\ To(a, "succeeded", "raised") \/ To(a, "erred", "raised")
        /\ Mishap
        /\ spoiled' = spoiled \cup {a} /\ UNCHANGED called
        /\ \/ rows' = [rows EXCEPT ![a] = @ + 1] /\ UNCHANGED lost
           \/ UNCHANGED rows /\ lost' = lost \cup {a}
  /\ UNCHANGED <<found, source, noted, png, receipt, key, sent>>

\* A write that raises leaves the receipt of an earlier call beside the new image.
WriteReceipt(a) ==
  /\ \/ /\ To(a, "receipt", "made")
        /\ receipt' = [receipt EXCEPT ![a] = [key |-> key[a], sha |-> png[a]]]
        /\ UNCHANGED <<past, mishaps>>
     \/ /\ To(a, "receipt", "raised")
        /\ Mishap
        /\ spoiled' = spoiled \cup {a} /\ UNCHANGED <<receipt, called, lost>>
  /\ UNCHANGED <<found, source, noted, png, rows, key, sent>>

-----------------------------------------------------------------------------
(* Mishaps                                                                   *)

\* The process dies; the files stay as they are.
Crash ==
  /\ phase \notin {"off", "done"} /\ phase' = "off"
  /\ Mishap
  /\ outcome' = AllAre("pending") /\ record' = AllAre(NoRecord) /\ missed' = {}
  /\ stage' = AllAre("idle") /\ key' = AllAre(NoKey)
  /\ spoiled' = spoiled \cup {a \in Assets : stage[a] \in {"succeeded", "receipt"}}
  /\ UNCHANGED <<found, source, noted, png, receipt, rows, before, counts, sent, called, lost,
                 runs>>

\* A file that no worker is at is damaged or deleted.
Damage(a) ==
  /\ stage[a] = "idle"
  /\ Mishap
  /\ \/ /\ png[a] # 0 /\ png' = [png EXCEPT ![a] = 0] /\ UNCHANGED source
        /\ spoiled' = spoiled \cup {a}
     \/ /\ source[a] # 0 /\ source' = [source EXCEPT ![a] = 0] /\ UNCHANGED png
        /\ UNCHANGED spoiled
  /\ UNCHANGED <<found, noted, receipt, rows, main, stage, key, sent, called, lost, runs>>

-----------------------------------------------------------------------------
Worker(a) ==
  \/ \E k \in Kinds : Search(a, k)
  \/ Source(a) \/ Note(a) \/ Resolve(a) \/ Call(a) \/ Journal(a) \/ WriteReceipt(a)

Main == Schedule \/ Collect \/ Count

Next == Begin \/ Main \/ Crash \/ \E a \in Assets : Worker(a) \/ Damage(a)

Spec == Init /\ [][Next]_vars

\* As long as the main thread or a worker can go on, one of them does: wait() has no timeout,
\* and every provider call ends, which the timeouts of the providers see to.
FairSpec == Spec /\ WF_vars(Main \/ \E a \in Assets : Worker(a))

-----------------------------------------------------------------------------
(***************************************************************************)
(* A generated image was made by the call that its record describes, from  *)
(* the very references that this run generated: no crash, damage or rerun  *)
(* lets a cached image of other references pass (engine.py:675-686).       *)
(***************************************************************************)
Lineage ==
  \A a \in With("generated") :
    /\ record[a].sha \in DOMAIN sent[a]
    /\ sent[a][record[a].sha] = record[a].key
    /\ \A d \in Refs[a] : record[a].key.refs[d] = record[d].sha

\* The assets that a needs, directly or not.
Ancestors(a) ==
  {d \in Assets : \A S \in SUBSET Assets :
     Deps[a] \subseteq S /\ (\A s \in S : Deps[s] \subseteq S) => d \in S}

(***************************************************************************)
(* docs/ARCHITECTURE.md: failed dependencies block only their descendants. *)
(* An image that was not executed has an ancestor that was, and failed     *)
(* (engine.py:889-922).                                                    *)
(***************************************************************************)
OnlyDescendantsBlocked ==
  \A a \in With("blocked") : Ancestors(a) \cap With("failed") # {}

(***************************************************************************)
(* docs/API.md:169: image_generation counts the attempts, failures and     *)
(* retries included.  What the journals gained is what the run called,     *)
(* less the calls whose row could not be written, and each success or hit  *)
(* is one generated image (engine.py:941-949).                             *)
(***************************************************************************)
CountsTell ==
  phase = "done" =>
    /\ counts.generation = Cardinality(called \ lost)
    /\ counts.successes + counts.hits = Cardinality(With("generated"))
    /\ counts.successes <= counts.generation

\* The request that a sends is the one it sent last.
Again(a) == sent[a] # << >> /\ key[a] = sent[a][Len(sent[a])]

(***************************************************************************)
(* An image is not paid for twice: the request that was sent last is sent  *)
(* again only if that call failed, its row or its receipt could not be     *)
(* written, the process died before the receipt was, or the image was      *)
(* damaged since; never because another image failed, because the run was  *)
(* killed elsewhere, or because the plan is run again (engine.py:675-686). *)
(***************************************************************************)
PaidOnce ==
  [][\A a \in Assets : sent'[a] # sent[a] /\ Again(a) => a \in spoiled]_vars

\* The executor implements AssetRun.
State(a) == IF outcome[a] = "pending" THEN "waiting" ELSE outcome[a]

Promise == INSTANCE AssetRun WITH
  Width <- MaxConcurrency, open <- phase \in {"schedule", "wait", "count"},
  state <- [a \in Assets |-> State(a)]

ImplementsAssetRun == Promise!RunSpec

(***************************************************************************)
(* A run that does not die ends: the loop never waits for nothing and      *)
(* never leaves an image pending (engine.py:888-940).                      *)
(***************************************************************************)
RunEnds == phase = "schedule" ~> phase \in {"off", "done"}
=============================================================================
