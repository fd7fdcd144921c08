--------------------------- MODULE AssetDagProofs ---------------------------
(***************************************************************************)
(* Proofs about AssetDag for every plan, width and number of runs and      *)
(* mishaps.  The inductive invariant says what a worker knows about the    *)
(* identity it computed, what a receipt on disk stands for, and in which   *)
(* phases of the main thread images may be pending or running.             *)
(***************************************************************************)
EXTENDS AssetDag, FiniteSetTheorems, SequenceTheorems, WellFoundedInduction, TLAPS

\* Content n of image a was made by a call with identity k.
MadeBy(a, k, n) == n \in DOMAIN sent[a] /\ sent[a][n] = k

\* Where a worker holds the identity of its request, and where its image has been made.
Keyed == {"call", "succeeded", "receipt", "hit", "made"}
Imaged == {"succeeded", "receipt", "hit", "made"}

Typed ==
  /\ phase \in Phases
  /\ outcome \in [Assets -> Outcomes]
  /\ stage \in [Assets -> Stages]
  /\ png \in [Assets -> Nat] /\ source \in [Assets -> Nat]
  /\ receipt \in [Assets -> Record] /\ record \in [Assets -> Record]
  /\ key \in [Assets -> Key]
  /\ sent \in [Assets -> Seq(Key)]

\* A worker is at an image only while the image runs, which its dependencies allowed.
Allowed(a) ==
  /\ stage[a] # "idle" => outcome[a] = "running"
  /\ outcome[a] \in {"running", "generated"} => Deps[a] \subseteq With("generated")

\* The identity is that of the references of this run; what is announced or cached under an
\* identity was made by a call with it.
Founded(a) ==
  /\ stage[a] \in Keyed => \A d \in Refs[a] : key[a].refs[d] = record[d].sha
  /\ stage[a] \in Imaged => MadeBy(a, key[a], png[a])
  /\ receipt[a].sha # 0 => MadeBy(a, receipt[a].key, receipt[a].sha)

PhaseInv ==
  /\ phase \in {"off", "count", "done"} => With("running") = {}
  /\ phase = "count" => With("pending") = {}
  /\ Cardinality(With("running")) <= MaxConcurrency

IInv == Typed /\ (\A a \in Assets : Allowed(a) /\ Founded(a)) /\ Lineage /\ PhaseInv

USE PlanAssumption, BoundAssumption DEF Phases, Outcomes, Stages, Keyed, Imaged

-----------------------------------------------------------------------------
(* Sets of images                                                            *)

LEMMA MinOfTwo ==
  ASSUME NEW m \in Int, NEW n \in Int
  PROVE  Min({m, n}) <= m /\ Min({m, n}) <= n
<1>1. \E x \in {m, n} : \A y \in {m, n} : x <= y
  OBVIOUS
<1>2. QED
  BY <1>1 DEF Min

LEMMA WithFinite ==
  ASSUME NEW o
  PROVE  IsFiniteSet(With(o)) /\ Cardinality(With(o)) \in Nat
<1>1. With(o) \in SUBSET Assets
  BY DEF With
<1>2. QED
  BY <1>1, FS_Subset, FS_CardinalityType

\* Those who start and those who run are no more than the run has room for.
LEMMA RoomKept ==
  ASSUME NEW S \in SUBSET Ready, PhaseInv,
         Cardinality(S) = Min({Cardinality(Ready), Room})
  PROVE  Cardinality(S \cup With("running")) <= MaxConcurrency
<1>1. /\ Ready \in SUBSET Assets /\ S \in SUBSET Assets
      /\ S \cap With("running") = {}
  BY DEF Ready, With
<1>2. /\ IsFiniteSet(S) /\ Cardinality(S) \in Nat
      /\ IsFiniteSet(Ready) /\ Cardinality(Ready) \in Nat
  BY <1>1, FS_Subset, FS_CardinalityType
<1>3. IsFiniteSet(With("running")) /\ Cardinality(With("running")) \in Nat
  BY WithFinite
<1>4. Cardinality(S \cup With("running")) = Cardinality(S) + Cardinality(With("running"))
  <2>1. Cardinality(S \cap With("running")) = 0
    BY <1>1, FS_EmptySet
  <2>2. Cardinality(S \cup With("running"))
          = Cardinality(S) + Cardinality(With("running")) - Cardinality(S \cap With("running"))
    BY <1>2, <1>3, FS_Union, Zenon
  <2>3. QED
    BY <1>2, <1>3, <2>1, <2>2
<1>5. Room \in Int /\ Room + Cardinality(With("running")) = MaxConcurrency
  BY <1>3 DEF Room
<1>6. Cardinality(S) <= Room
  <2>1. Cardinality(Ready) \in Int
    BY <1>2
  <2>2. Min({Cardinality(Ready), Room}) <= Room
    BY <1>5, <2>1, MinOfTwo, Zenon
  <2>3. QED
    BY <2>2
<1>7. QED
  BY <1>2, <1>3, <1>4, <1>5, <1>6

-----------------------------------------------------------------------------
(* The main thread                                                           *)

LEMMA Initial == Init => IInv
<1>1. SUFFICES ASSUME Init PROVE IInv
  OBVIOUS
<1>2. NoKey \in Key /\ NoRecord \in Record /\ NoRecord.sha = 0
  BY DEF NoKey, Key, NoRecord, Record
<1>3. Typed
  BY <1>1, <1>2 DEF Init, AllAre, Typed
<1>4. \A a \in Assets : /\ stage[a] = "idle" /\ outcome[a] = "pending"
                        /\ receipt[a].sha = 0
  BY <1>1, <1>2 DEF Init, AllAre
<1>5. With("running") = {} /\ With("generated") = {}
  BY <1>4 DEF With
<1>6. \A a \in Assets : Allowed(a) /\ Founded(a)
  BY <1>4 DEF Allowed, Founded
<1>7. PhaseInv
  <2>1. phase = "off" /\ Cardinality(With("running")) = 0
    BY <1>1, <1>5, FS_EmptySet DEF Init
  <2>2. QED
    BY <1>5, <2>1 DEF PhaseInv
<1>8. QED
  BY <1>3, <1>5, <1>6, <1>7 DEF IInv, Lineage

\* The run is over, or not yet begun: every image is pending and nobody is at one.
LEMMA FreshKeeps ==
  ASSUME IInv, outcome' = AllAre("pending"), phase' \in {"off", "schedule"},
         \A a \in Assets : stage'[a] = "idle",
         stage' \in [Assets -> Stages], record' \in [Assets -> Record],
         key' \in [Assets -> Key], UNCHANGED <<png, source, receipt, sent>>
  PROVE  IInv'
<1>1. \A a \in Assets : outcome'[a] = "pending"
  BY DEF AllAre
<1>2. Typed'
  BY DEF IInv, Typed, AllAre
<1>3. With("running")' = {} /\ With("generated")' = {}
  BY <1>1 DEF With
<1>4. ASSUME NEW a \in Assets PROVE Allowed(a)' /\ Founded(a)'
  BY <1>1 DEF IInv, Allowed, Founded, MadeBy
<1>5. PhaseInv'
  BY <1>3, FS_EmptySet DEF PhaseInv
<1>6. QED
  BY <1>2, <1>3, <1>4, <1>5 DEF IInv, Lineage

LEMMA BeginKeeps == IInv /\ Begin => IInv'
<1>1. SUFFICES ASSUME IInv, Begin PROVE IInv'
  OBVIOUS
<1>2. \A a \in Assets : stage[a] = "idle"
  BY <1>1 DEF IInv, Allowed, PhaseInv, With, Begin
<1>3. record' \in [Assets -> Record]
  BY <1>1 DEF Begin, AllAre, NoRecord, Record, NoKey, Key
<1>4. QED
  BY <1>1, <1>2, <1>3, FreshKeeps DEF Begin, IInv, Typed

LEMMA CrashKeeps == IInv /\ Crash => IInv'
<1>1. SUFFICES ASSUME IInv, Crash PROVE IInv'
  OBVIOUS
<1>2. record' \in [Assets -> Record] /\ key' \in [Assets -> Key]
  BY <1>1 DEF Crash, AllAre, NoRecord, Record, NoKey, Key
<1>3. stage' \in [Assets -> Stages] /\ \A a \in Assets : stage'[a] = "idle"
  BY <1>1 DEF Crash, AllAre
<1>4. QED
  BY <1>1, <1>2, <1>3, FreshKeeps DEF Crash

\* A pass of the loop blocks and starts images that are pending, and starts only those
\* whose dependencies are generated.
LEMMA PassKeeps ==
  ASSUME IInv, NEW blocked \in SUBSET With("pending"), NEW started \in SUBSET With("pending"),
         blocked \cap started = {},
         \A a \in started : Deps[a] \subseteq With("generated"),
         Pass(blocked, started), phase' \in Phases
  PROVE  /\ Typed' /\ Lineage'
         /\ \A a \in Assets : Allowed(a)' /\ Founded(a)'
         /\ With("generated")' = With("generated")
         /\ With("running")' = started \cup With("running")
         /\ With("pending")' = With("pending") \ (blocked \cup started)
<1>1. /\ UNCHANGED <<png, source, receipt, record, key, sent>>
      /\ outcome' = [a \in Assets |-> IF a \in blocked THEN "blocked"
                                      ELSE IF a \in started THEN "running" ELSE outcome[a]]
      /\ stage' = [a \in Assets |-> IF a \in started THEN From(a, "fact") ELSE stage[a]]
  BY DEF Pass, history
<1>2. \A a \in Assets : From(a, "fact") \in {"fact", "visual", "resolve"}
  BY DEF From
<1>3. Typed'
  BY <1>1, <1>2 DEF IInv, Typed
<1>4. /\ With("generated")' = With("generated")
      /\ With("running")' = started \cup With("running")
      /\ With("pending")' = With("pending") \ (blocked \cup started)
  BY <1>1 DEF With
<1>5. ASSUME NEW a \in Assets PROVE Allowed(a)'
  BY <1>1, <1>2, <1>4 DEF IInv, Typed, Allowed, With
<1>6. ASSUME NEW a \in Assets PROVE Founded(a)'
  BY <1>1, <1>2 DEF IInv, Founded, MadeBy
<1>7. Lineage'
  BY <1>1, <1>4 DEF IInv, Lineage
<1>8. QED
  BY <1>3, <1>4, <1>5, <1>6, <1>7
LEMMA ScheduleKeeps == IInv /\ Schedule => IInv'
<1>1. SUFFICES ASSUME IInv, Schedule PROVE IInv'
  OBVIOUS
<1>2. /\ Blocked \in SUBSET With("pending")
      /\ Ready \in SUBSET With("pending") /\ Blocked \cap Ready = {}
      /\ \A a \in Ready : Deps[a] \subseteq With("generated")
  BY DEF Blocked, Ready
<1>3. ASSUME NEW S \in SUBSET Ready, Cardinality(S) = Min({Cardinality(Ready), Room}),
             Pass(Blocked, S), phase' = "wait"
      PROVE  IInv'
  <2>1. /\ Typed' /\ Lineage' /\ \A a \in Assets : Allowed(a)' /\ Founded(a)'
        /\ With("running")' = S \cup With("running")
    <3>1. S \in SUBSET With("pending") /\ Blocked \cap S = {}
          /\ \A a \in S : Deps[a] \subseteq With("generated")
      BY <1>2
    <3>2. QED
      BY <1>1, <1>2, <1>3, <3>1, PassKeeps
  <2>2. PhaseInv'
    BY <1>1, <1>3, <2>1, RoomKept DEF IInv, PhaseInv
  <2>3. QED
    BY <2>1, <2>2 DEF IInv
<1>4. ASSUME With("running") = {}, Pass(With("pending"), {}), phase' = "count"
      PROVE  IInv'
  <2>1. /\ Typed' /\ Lineage' /\ \A a \in Assets : Allowed(a)' /\ Founded(a)'
        /\ With("running")' = {} \cup With("running")
        /\ With("pending")' = With("pending") \ (With("pending") \cup {})
    <3>1. /\ With("pending") \in SUBSET With("pending") /\ {} \in SUBSET With("pending")
          /\ With("pending") \cap {} = {} /\ phase' \in Phases
          /\ \A a \in {} : Deps[a] \subseteq With("generated")
      BY <1>4
    <3>2. QED
      BY <1>1, <1>4, <3>1, PassKeeps, Zenon
  <2>2. With("running")' = {} /\ With("pending")' = {}
    BY <1>4, <2>1
  <2>3. PhaseInv'
    BY <1>4, <2>2, FS_EmptySet DEF PhaseInv
  <2>4. QED
    BY <2>1, <2>3 DEF IInv
<1>5. QED
  BY <1>1, <1>3, <1>4 DEF Schedule

LEMMA CollectKeeps == IInv /\ Collect => IInv'
<1>1. SUFFICES ASSUME IInv, Collect PROVE IInv'
  OBVIOUS
<1> DEFINE good == {a \in Assets : stage[a] \in {"hit", "made"}}
           bad == {a \in Assets : stage[a] = "raised"}
<1>2. /\ UNCHANGED <<png, source, receipt, key, sent>> /\ phase' = "schedule"
      /\ outcome' = [a \in Assets |-> IF a \in good THEN "generated"
                                      ELSE IF a \in bad THEN "failed" ELSE outcome[a]]
      /\ record' = [a \in Assets |-> IF a \in good THEN [key |-> key[a], sha |-> png[a]]
                                     ELSE record[a]]
      /\ stage' = [a \in Assets |-> IF a \in good \cup bad THEN "idle" ELSE stage[a]]
  BY <1>1 DEF Collect, history
<1>3. Typed'
  BY <1>1, <1>2 DEF IInv, Typed, Record
<1>4. good \cup bad \subseteq With("running")
  BY <1>1 DEF IInv, Allowed, With
<1>5. /\ With("generated")' = With("generated") \cup good
      /\ With("running")' \subseteq With("running")
  BY <1>2, <1>4 DEF With
<1>6. ASSUME NEW a \in Assets, outcome[a] \in {"running", "generated"}
      PROVE  \A d \in Refs[a] : record'[d] = record[d]
  BY <1>1, <1>2, <1>4, <1>6 DEF IInv, Allowed, With
<1>7. ASSUME NEW a \in Assets PROVE Allowed(a)'
  BY <1>1, <1>2, <1>4, <1>5 DEF IInv, Typed, Allowed, With
<1>8. ASSUME NEW a \in Assets PROVE Founded(a)'
  <2>1. stage'[a] \in Keyed => stage[a] \in Keyed /\ outcome[a] = "running"
    BY <1>1, <1>2 DEF IInv, Allowed
  <2>2. stage'[a] \in Imaged => stage[a] \in Imaged
    BY <1>2
  <2>3. stage'[a] \in Keyed => \A d \in Refs[a] : key'[a].refs[d] = record'[d].sha
    <3>1. SUFFICES ASSUME stage'[a] \in Keyed, NEW d \in Refs[a]
                   PROVE  key'[a].refs[d] = record'[d].sha
      OBVIOUS
    <3>2. record'[d] = record[d] /\ key' = key
      BY <1>2, <1>6, <2>1, <3>1
    <3>3. key[a].refs[d] = record[d].sha
      BY <1>1, <2>1, <3>1 DEF IInv, Founded
    <3>4. QED
      BY <3>2, <3>3
  <2>4. stage'[a] \in Imaged => MadeBy(a, key[a], png[a])'
    BY <1>1, <1>2, <2>2 DEF IInv, Founded, MadeBy
  <2>5. receipt'[a].sha # 0 => MadeBy(a, receipt[a].key, receipt[a].sha)'
    BY <1>1, <1>2 DEF IInv, Founded, MadeBy
  <2>6. QED
    BY <2>3, <2>4, <2>5 DEF Founded
<1>9. Lineage'
  <2>1. SUFFICES ASSUME NEW a \in With("generated")'
                 PROVE  /\ MadeBy(a, record[a].key, record[a].sha)'
                        /\ \A d \in Refs[a] : record'[a].key.refs[d] = record'[d].sha
    BY DEF Lineage, MadeBy
  <2>2. CASE a \in good
    <3>1. record'[a].key = key[a] /\ record'[a].sha = png[a] /\ outcome[a] = "running"
      BY <1>1, <1>2, <2>2 DEF IInv, Allowed
    <3>2. a \in Assets /\ stage[a] \in Keyed /\ stage[a] \in Imaged
      BY <2>2
    <3>3. MadeBy(a, key[a], png[a]) /\ \A d \in Refs[a] : key[a].refs[d] = record[d].sha
      BY <1>1, <3>2 DEF IInv, Founded
    <3>4. sent' = sent /\ \A d \in Refs[a] : record'[d] = record[d]
      BY <1>2, <1>6, <3>1, <3>2
    <3>5. QED
      BY <3>1, <3>3, <3>4 DEF MadeBy
  <2>3. CASE a \in With("generated") /\ a \notin good
    <3>1. /\ MadeBy(a, record[a].key, record[a].sha)
          /\ \A d \in Refs[a] : record[a].key.refs[d] = record[d].sha
      BY <1>1, <2>3 DEF IInv, Lineage, MadeBy
    <3>2. a \in Assets /\ outcome[a] = "generated"
      BY <2>3 DEF With
    <3>3. sent' = sent /\ record'[a] = record[a] /\ \A d \in Refs[a] : record'[d] = record[d]
      BY <1>2, <1>6, <2>3, <3>2
    <3>4. QED
      BY <3>1, <3>3 DEF MadeBy
  <2>4. QED
    BY <1>5, <2>1, <2>2, <2>3
<1>10. Cardinality(With("running")') <= MaxConcurrency
  <2>1. With("running")' \in SUBSET With("running")
    BY <1>5
  <2>2. /\ Cardinality(With("running")') <= Cardinality(With("running"))
        /\ Cardinality(With("running")') \in Nat
    BY <2>1, WithFinite, FS_Subset, FS_CardinalityType
  <2>3. QED
    BY <1>1, <2>2, WithFinite DEF IInv, PhaseInv
<1>11. QED
  BY <1>2, <1>3, <1>7, <1>8, <1>9, <1>10 DEF IInv, PhaseInv

LEMMA CountKeeps == IInv /\ Count => IInv'
<1>1. SUFFICES ASSUME IInv, Count PROVE IInv'
  OBVIOUS
<1>2. /\ UNCHANGED <<png, source, receipt, key, sent, outcome, record, stage>>
      /\ phase = "count" /\ phase' = "done"
  BY <1>1 DEF Count, history
<1>3. \A o \in Outcomes : With(o)' = With(o)
  BY <1>2 DEF With
<1>4. QED
  BY <1>1, <1>2, <1>3 DEF IInv, Typed, Allowed, Founded, MadeBy, Lineage, PhaseInv

-----------------------------------------------------------------------------
(* The workers                                                               *)

\* A step at image a leaves the main thread and every other image alone, and forgets no
\* call; it keeps the invariant if it keeps what is known of a.
LEMMA StepAt ==
  ASSUME IInv, NEW a \in Assets, UNCHANGED main, Typed',
         \A b \in Assets \ {a} : /\ stage'[b] = stage[b] /\ png'[b] = png[b]
                                 /\ key'[b] = key[b] /\ receipt'[b] = receipt[b],
         \A b \in Assets : \A n \in DOMAIN sent[b] :
           n \in DOMAIN sent'[b] /\ sent'[b][n] = sent[b][n],
         outcome[a] = "running" \/ stage'[a] = "idle",
         Founded(a)'
  PROVE  IInv'
<1>1. UNCHANGED <<phase, outcome, record>>
  BY DEF main
<1>2. \A o \in Outcomes : With(o)' = With(o)
  BY <1>1 DEF With
<1>3. ASSUME NEW b \in Assets PROVE Allowed(b)'
  BY <1>1, <1>2 DEF IInv, Allowed
<1>4. ASSUME NEW b \in Assets PROVE Founded(b)'
  BY <1>1 DEF IInv, Founded, MadeBy
<1>5. Lineage' /\ PhaseInv'
  BY <1>1, <1>2 DEF IInv, Lineage, PhaseInv, With
<1>6. QED
  BY <1>3, <1>4, <1>5 DEF IInv

\* A step that leaves identities, images, receipts and calls alone, and after which the
\* worker of a holds nothing that it did not hold before.
LEMMA QuietAt ==
  ASSUME IInv, NEW a \in Assets, UNCHANGED main, outcome[a] = "running",
         NEW t \in Stages, stage' = [stage EXCEPT ![a] = t], source' \in [Assets -> Nat],
         t \in Keyed => stage[a] \in Keyed,
         t \in Imaged => stage[a] \in Imaged,
         UNCHANGED <<png, key, receipt, sent>>
  PROVE  IInv'
<1>1. Typed'
  BY DEF IInv, Typed, main
<1>2. stage'[a] = t /\ \A b \in Assets \ {a} : stage'[b] = stage[b]
  BY DEF IInv, Typed
<1>3. Founded(a)'
  BY <1>2 DEF IInv, Founded, MadeBy, main
<1>4. QED
  BY <1>1, <1>2, <1>3, StepAt

LEMMA WorkerKeeps == ASSUME IInv, NEW a \in Assets, Worker(a) PROVE IInv'
<1>1. /\ UNCHANGED main
      /\ outcome[a] = "running"
  <2>1. UNCHANGED main /\ stage[a] # "idle"
    BY DEF Worker, Search, Source, Note, Resolve, Call, Journal, WriteReceipt, To, Kinds
  <2>2. QED
    BY <2>1 DEF IInv, Allowed
<1>2. CASE \E k \in Kinds : Search(a, k)
  <2>1. /\ UNCHANGED <<png, key, receipt, sent>> /\ UNCHANGED source
        /\ \E t \in {"source", "visual", "resolve", "raised"} : stage' = [stage EXCEPT ![a] = t]
    BY <1>2 DEF Search, To, From
  <2>2. QED
    BY <1>1, <2>1, QuietAt DEF IInv, Typed
<1>3. CASE Source(a)
  <2>1. /\ UNCHANGED <<png, key, receipt, sent>> /\ source' \in [Assets -> Nat]
        /\ \E t \in {"resolve", "note", "raised"} : stage' = [stage EXCEPT ![a] = t]
    BY <1>3 DEF Source, To, IInv, Typed
  <2>2. QED
    BY <1>1, <2>1, QuietAt
<1>4. CASE Note(a)
  <2>1. /\ UNCHANGED <<png, key, receipt, sent, source>>
        /\ \E t \in {"resolve", "raised"} : stage' = [stage EXCEPT ![a] = t]
    BY <1>4 DEF Note, To
  <2> QED BY <1>1, <2>1, QuietAt DEF IInv, Typed
<1>5. CASE Journal(a)
  <2>1. /\ UNCHANGED <<png, key, receipt, sent, source>>
        /\ \/ stage[a] = "succeeded" /\ stage' = [stage EXCEPT ![a] = "receipt"]
           \/ stage' = [stage EXCEPT ![a] = "raised"]
    BY <1>5 DEF Journal, To
  <2>2. QED
    BY <1>1, <2>1, QuietAt DEF IInv, Typed
<1>6. CASE Resolve(a)
  <2>1. UNCHANGED <<png, receipt, sent, source>>
    BY <1>6 DEF Resolve
  <2>2. CASE stage' = [stage EXCEPT ![a] = "raised"] /\ UNCHANGED key
    BY <1>1, <2>1, <2>2, QuietAt DEF IInv, Typed
  <2>3. CASE \E t \in {"hit", "call"} : /\ stage' = [stage EXCEPT ![a] = t]
                                        /\ key' = [key EXCEPT ![a] = KeyOf(a)]
                                        /\ t = "hit" => Valid(a, KeyOf(a))
    <3>1. PICK t \in {"hit", "call"} : /\ stage' = [stage EXCEPT ![a] = t]
                                       /\ key' = [key EXCEPT ![a] = KeyOf(a)]
                                       /\ t = "hit" => Valid(a, KeyOf(a))
      BY <2>3
    <3>2. KeyOf(a) \in Key
      <4>1. \A d \in Assets : record[d].sha \in Nat /\ source[a] \in Nat
        BY DEF IInv, Typed, Record
      <4>2. QED
        BY <4>1 DEF KeyOf, Key
    <3>3. Typed'
      BY <1>1, <2>1, <3>1, <3>2 DEF IInv, Typed, main
    <3>4. /\ key'[a] = KeyOf(a) /\ stage'[a] = t
          /\ \A b \in Assets \ {a} : stage'[b] = stage[b] /\ key'[b] = key[b]
      BY <3>1 DEF IInv, Typed
    <3>5. \A d \in Refs[a] : KeyOf(a).refs[d] = record[d].sha
      BY DEF KeyOf
    <3>6. t = "hit" => MadeBy(a, KeyOf(a), png[a])
      BY <3>1 DEF Valid, IInv, Founded
    <3>7. Founded(a)'
      BY <1>1, <2>1, <3>4, <3>5, <3>6 DEF IInv, Founded, MadeBy, main
    <3>8. QED
      BY <1>1, <2>1, <3>3, <3>4, <3>7, StepAt
  <2>4. QED
    BY <1>6, <2>2, <2>3 DEF Resolve, To
<1>7. CASE Call(a)
  <2>1. /\ UNCHANGED <<source, receipt, key>> /\ stage[a] = "call"
        /\ sent' = [sent EXCEPT ![a] = Append(@, key[a])]
    BY <1>7 DEF Call, To
  <2>2. PICK t \in {"succeeded", "erred"}, v \in Nat :
          /\ stage' = [stage EXCEPT ![a] = t] /\ png' = [png EXCEPT ![a] = v]
          /\ t = "succeeded" => v = Len(sent[a]) + 1
    <3>1. Len(sent[a]) + 1 \in Nat /\ png[a] \in Nat
      BY DEF IInv, Typed
    <3>2. QED
      BY <1>7, <3>1 DEF Call, To
  <2>3. /\ sent[a] \in Seq(Key) /\ key[a] \in Key
        /\ sent'[a] = Append(sent[a], key[a])
        /\ \A b \in Assets \ {a} : sent'[b] = sent[b]
    BY <2>1 DEF IInv, Typed
  <2>4. /\ sent'[a] \in Seq(Key) /\ Len(sent[a]) + 1 \in DOMAIN sent'[a]
        /\ sent'[a][Len(sent[a]) + 1] = key[a]
        /\ \A n \in DOMAIN sent[a] : n \in DOMAIN sent'[a] /\ sent'[a][n] = sent[a][n]
    BY <2>3
  <2>5. Typed'
    BY <1>1, <2>1, <2>2, <2>4 DEF IInv, Typed, main
  <2>6. /\ stage'[a] = t /\ png'[a] = v
        /\ \A b \in Assets \ {a} : stage'[b] = stage[b] /\ png'[b] = png[b]
    BY <2>2 DEF IInv, Typed
  <2>7. Founded(a)'
    BY <1>1, <2>1, <2>2, <2>4, <2>6 DEF IInv, Founded, MadeBy, main
  <2>8. QED
    BY <1>1, <2>1, <2>3, <2>4, <2>5, <2>6, <2>7, StepAt
<1>8. CASE WriteReceipt(a)
  <2>1. UNCHANGED <<source, png, key, sent>> /\ stage[a] = "receipt"
    BY <1>8 DEF WriteReceipt, To
  <2>2. CASE stage' = [stage EXCEPT ![a] = "raised"] /\ UNCHANGED receipt
    BY <1>1, <2>1, <2>2, QuietAt DEF IInv, Typed
  <2>3. CASE /\ stage' = [stage EXCEPT ![a] = "made"]
             /\ receipt' = [receipt EXCEPT ![a] = [key |-> key[a], sha |-> png[a]]]
    <3>1. Typed'
      BY <1>1, <2>1, <2>3 DEF IInv, Typed, Record, main
    <3>2. /\ stage'[a] = "made" /\ receipt'[a].key = key[a] /\ receipt'[a].sha = png[a]
          /\ \A b \in Assets \ {a} : stage'[b] = stage[b] /\ receipt'[b] = receipt[b]
      BY <2>3 DEF IInv, Typed
    <3>3. Founded(a)'
      BY <1>1, <2>1, <3>2 DEF IInv, Founded, MadeBy, main
    <3> QED BY <1>1, <2>1, <3>1, <3>2, <3>3, StepAt
  <2> QED BY <1>8, <2>2, <2>3 DEF WriteReceipt, To
<1>9. QED
  BY <1>2, <1>3, <1>4, <1>5, <1>6, <1>7, <1>8 DEF Worker

LEMMA DamageKeeps == ASSUME IInv, NEW a \in Assets, Damage(a) PROVE IInv'
<1>1. UNCHANGED <<receipt, stage, key, sent, main>> /\ stage[a] = "idle"
  BY DEF Damage
<1>2. /\ png' \in [Assets -> Nat] /\ source' \in [Assets -> Nat]
      /\ \A b \in Assets \ {a} : png'[b] = png[b]
  <2>1. PICK n \in {png[a], 0}, v \in {source[a], 0} :
          png' = [png EXCEPT ![a] = n] /\ source' = [source EXCEPT ![a] = v]
    BY DEF Damage, IInv, Typed
  <2>2. n \in Nat /\ v \in Nat
    BY DEF IInv, Typed
  <2>3. QED
    BY <2>1, <2>2 DEF IInv, Typed
<1>3. Typed'
  BY <1>1, <1>2 DEF IInv, Typed, main
<1>4. Founded(a)'
  BY <1>1 DEF IInv, Founded, MadeBy
<1>5. QED
  BY <1>1, <1>2, <1>3, <1>4, StepAt

LEMMA Step == IInv /\ [Next]_vars => IInv'
<1>1. SUFFICES ASSUME IInv, [Next]_vars PROVE IInv'
  OBVIOUS
<1>2. CASE UNCHANGED vars
  <2>1. UNCHANGED <<phase, outcome, stage, png, source, receipt, record, key, sent>>
    BY <1>2 DEF vars, main, history
  <2>2. \A o \in Outcomes : With(o)' = With(o)
    BY <2>1 DEF With
  <2>3. QED
    BY <1>1, <2>1, <2>2 DEF IInv, Typed, Allowed, Founded, MadeBy, Lineage, PhaseInv
<1>3. QED
  BY <1>1, <1>2, BeginKeeps, ScheduleKeeps, CollectKeeps, CountKeeps, CrashKeeps,
     WorkerKeeps, DamageKeeps DEF Next, Main

THEOREM Invariance == Spec => []IInv
BY Initial, Step, PTL DEF Spec

(***************************************************************************)
(* A generated image was made by the call that its record describes, from  *)
(* the references of this run, for every plan and however the runs crash,  *)
(* fail or find files damaged (engine.py:675-686).                         *)
(***************************************************************************)
THEOREM LineageKept == Spec => []Lineage
BY Invariance, PTL DEF IInv

-----------------------------------------------------------------------------
(* Who is blocked                                                            *)

LEMMA AncestorsClosed ==
  ASSUME NEW a \in Assets
  PROVE  /\ Deps[a] \subseteq Ancestors(a)
         /\ \A d \in Ancestors(a) : Ancestors(d) \subseteq Ancestors(a)
<1>1. Deps[a] \subseteq Ancestors(a)
  BY DEF Ancestors
<1>2. ASSUME NEW d \in Ancestors(a), NEW x \in Ancestors(d)
      PROVE  x \in Ancestors(a)
  <2>1. SUFFICES ASSUME NEW S \in SUBSET Assets, Deps[a] \subseteq S,
                        \A s \in S : Deps[s] \subseteq S
                 PROVE  x \in S
    BY DEF Ancestors
  <2>2. Deps[d] \subseteq S
    BY <2>1 DEF Ancestors
  <2> QED BY <2>1, <2>2 DEF Ancestors
<1> QED BY <1>1, <1>2

\* A failure upstream of a dependency is upstream.
LEMMA FailureUpstream ==
  ASSUME OnlyDescendantsBlocked, NEW a \in Assets, Deps[a] \cap Failures # {}
  PROVE  Ancestors(a) \cap With("failed") # {}
<1>1. PICK d \in Deps[a] : d \in With("failed") \/ d \in With("blocked")
  BY DEF Failures
<1>2. d \in Ancestors(a) /\ Ancestors(d) \subseteq Ancestors(a)
  BY AncestorsClosed
<1> QED BY <1>1, <1>2 DEF OnlyDescendantsBlocked

\* When nobody is ready and nobody runs, the pending images among an image and its ancestors
\* would wait for each other if none of them had a failure upstream.
LEMMA GivenUp ==
  ASSUME IInv, OnlyDescendantsBlocked, Ready = {}, With("running") = {},
         NEW a \in With("pending")
  PROVE  Ancestors(a) \cap With("failed") # {}
<1> SUFFICES ASSUME Ancestors(a) \cap With("failed") = {}
             PROVE  FALSE
  OBVIOUS
<1> DEFINE S == With("pending") \cap ({a} \cup Ancestors(a))
<1>1. S \in SUBSET Assets /\ a \in S /\ a \in Assets
  BY DEF With
<1>2. ASSUME NEW s \in S PROVE Deps[s] \cap S # {}
  <2>1. s \in Assets /\ s \in With("pending") /\ Deps[s] \subseteq Assets
    BY DEF With
  <2>2. Ancestors(s) \subseteq Ancestors(a) /\ Deps[s] \subseteq Ancestors(s)
    BY <1>1, <2>1, AncestorsClosed
  <2>3. s \notin Blocked
    BY <2>1, <2>2, FailureUpstream DEF Blocked
  <2>4. PICK d \in Deps[s] : d \notin With("generated")
    BY <2>1, <2>3 DEF Ready
  <2>5. d \in With("pending")
    BY <2>1, <2>3, <2>4 DEF Blocked, Failures, With, IInv, Typed
  <2> QED BY <2>2, <2>4, <2>5
<1> QED BY <1>1, <1>2, AcyclicAssumption

LEMMA BlockedInitial == Init => OnlyDescendantsBlocked
BY DEF Init, AllAre, OnlyDescendantsBlocked, With

LEMMA BlockedStep == IInv /\ OnlyDescendantsBlocked /\ [Next]_vars => OnlyDescendantsBlocked'
<1> SUFFICES ASSUME IInv, OnlyDescendantsBlocked, [Next]_vars, NEW a \in With("blocked")'
             PROVE  Ancestors(a) \cap With("failed")' # {}
  BY DEF OnlyDescendantsBlocked, Ancestors
<1>1. a \in Assets /\ outcome'[a] = "blocked"
  BY DEF With
<1>2. CASE UNCHANGED outcome
  BY <1>2 DEF OnlyDescendantsBlocked, With
<1>3. CASE Begin \/ Crash
  BY <1>1, <1>3 DEF Begin, Crash, AllAre
<1>4. CASE Collect
  <2>1. \A b \in Assets : stage[b] # "idle" => outcome[b] = "running"
    BY DEF IInv, Allowed
  <2>2. \A b \in Assets : outcome'[b] = IF stage[b] \in {"hit", "made"} THEN "generated"
                                        ELSE IF stage[b] = "raised" THEN "failed" ELSE outcome[b]
    BY <1>4 DEF Collect
  <2>3. a \in With("blocked") /\ With("failed") \subseteq With("failed")'
    BY <1>1, <2>1, <2>2 DEF With
  <2> QED BY <2>3 DEF OnlyDescendantsBlocked
<1>5. CASE Schedule
  <2>1. PICK blocked \in SUBSET With("pending"), started \in SUBSET With("pending") :
          /\ Pass(blocked, started)
          /\ \A b \in blocked : Ancestors(b) \cap With("failed") # {}
    <3>1. CASE \E S \in SUBSET Ready : Pass(Blocked, S)
      <4>1. \A b \in Blocked : Ancestors(b) \cap With("failed") # {}
        BY FailureUpstream DEF Blocked, With
      <4> QED BY <3>1, <4>1 DEF Blocked, Ready
    <3>2. CASE Ready = {} /\ With("running") = {} /\ Pass(With("pending"), {})
      BY <3>2, GivenUp
    <3> QED BY <1>5, <3>1, <3>2 DEF Schedule
  <2>2. \A b \in Assets : outcome'[b] = IF b \in blocked THEN "blocked"
                                        ELSE IF b \in started THEN "running" ELSE outcome[b]
    BY <2>1 DEF Pass
  <2>3. With("failed") \subseteq With("failed")' /\ (a \in blocked \/ a \in With("blocked"))
    BY <1>1, <2>2 DEF With
  <2> QED BY <2>1, <2>3 DEF OnlyDescendantsBlocked
<1>6. UNCHANGED outcome \/ Begin \/ Crash \/ Collect \/ Schedule
  BY DEF Next, Main, Count, Worker, Search, Source, Note, Resolve, Call, Journal, WriteReceipt, To,
         Damage, main, vars
<1> QED BY <1>2, <1>3, <1>4, <1>5, <1>6

(***************************************************************************)
(* An image that was not executed has an ancestor that failed, for every   *)
(* plan without a cycle and every width (engine.py:889-922).               *)
(***************************************************************************)
THEOREM BlockedByFailure == Spec => []OnlyDescendantsBlocked
BY BlockedInitial, BlockedStep, Invariance, PTL DEF Spec

-----------------------------------------------------------------------------
(* What is paid for                                                          *)

\* The identity that was sent last, and where its image is on its way to its receipt.
Latest(a) == sent[a][Len(sent[a])]
Underway == {"succeeded", "receipt"}

\* Unless its result was spoiled, the receipt answers the request that was sent last.
Paid(a) ==
  /\ stage[a] = "call" /\ Again(a) => a \in spoiled
  /\ stage[a] \in Underway => Again(a)
  /\ sent[a] # << >> /\ a \notin spoiled /\ stage[a] \notin Underway => Valid(a, Latest(a))

PaidTypes == noted \in [Assets -> Nat] /\ spoiled \subseteq Assets

PaidInv == PaidTypes /\ \A a \in Assets : Paid(a)

LEMMA PaidInitial == Init => PaidInv
BY DEF Init, AllAre, PaidInv, PaidTypes, Paid, Underway

\* A step that sends nothing for b, keeps its image and receipt, and brings it neither to a
\* call nor away from its receipt unless its result is spoiled.
LEMMA Carried ==
  ASSUME NEW b \in Assets, Paid(b),
         sent'[b] = sent[b], png'[b] = png[b], receipt'[b] = receipt[b],
         b \in spoiled => b \in spoiled',
         stage'[b] \in {"call"} \cup Underway => key'[b] = key[b],
         stage'[b] = "call" => stage[b] = "call",
         stage'[b] \in Underway => stage[b] \in Underway,
         stage[b] \in Underway => stage'[b] \in Underway \/ b \in spoiled'
  PROVE  Paid(b)'
<1>1. stage'[b] \in {"call"} \cup Underway => (Again(b)' <=> Again(b))
  BY DEF Again
<1>2. Valid(b, Latest(b)) => Valid(b, Latest(b))'
  BY DEF Valid, Latest
<1> QED BY <1>1, <1>2 DEF Paid

\* The main thread sends nothing; nobody starts at a call.
LEMMA MainPays == ASSUME IInv, PaidInv, Begin \/ Main PROVE PaidInv'
<1>1. /\ UNCHANGED <<noted, png, receipt, key, sent, spoiled>>
      /\ \A a \in Assets :
           \/ stage'[a] = stage[a]
           \/ stage'[a] = "idle" /\ stage[a] \in {"hit", "made", "raised"}
           \/ stage'[a] = From(a, "fact") /\ stage[a] = "idle"
  <2>1. CASE Begin \/ Count
    BY <2>1 DEF Begin, Count, history, past
  <2>2. CASE Collect
    BY <2>2 DEF Collect, history, past
  <2>3. CASE Schedule
    <3>1. PICK started \in SUBSET With("pending") :
            /\ stage' = [a \in Assets |-> IF a \in started THEN From(a, "fact") ELSE stage[a]]
            /\ UNCHANGED <<noted, png, receipt, key, history>>
      BY <2>3 DEF Schedule, Pass, Ready
    <3>2. \A a \in started : stage[a] = "idle"
      BY DEF IInv, Allowed, With
    <3> QED BY <3>1, <3>2 DEF history, past
  <2> QED BY <2>1, <2>2, <2>3 DEF Main
<1>2. \A a \in Assets : From(a, "fact") \in {"fact", "visual", "resolve"}
  BY DEF From
<1>3. \A a \in Assets : Paid(a)'
  BY <1>1, <1>2, Carried DEF PaidInv, Underway
<1> QED BY <1>1, <1>3 DEF PaidInv, PaidTypes

LEMMA CrashPays == ASSUME PaidInv, Crash PROVE PaidInv'
<1>1. /\ UNCHANGED <<noted, png, receipt, sent>>
      /\ spoiled' = spoiled \cup {a \in Assets : stage[a] \in Underway}
      /\ \A a \in Assets : stage'[a] = "idle"
  BY DEF Crash, AllAre, Underway
<1>2. \A a \in Assets : Paid(a)'
  BY <1>1, Carried DEF PaidInv, Underway
<1> QED BY <1>1, <1>2 DEF PaidInv, PaidTypes

LEMMA DamagePays == ASSUME IInv, PaidInv, NEW a \in Assets, Damage(a) PROVE PaidInv'
<1>1. /\ UNCHANGED <<noted, receipt, stage, key, sent>> /\ stage[a] = "idle"
      /\ \A b \in Assets \ {a} : png'[b] = png[b]
      /\ spoiled \subseteq spoiled' /\ spoiled' \subseteq spoiled \cup {a}
      /\ a \in spoiled' \/ png'[a] = png[a]
  BY DEF Damage, IInv, Typed
<1>2. ASSUME NEW b \in Assets, png'[b] = png[b] PROVE Paid(b)'
  BY <1>1, <1>2, Carried DEF PaidInv
<1>3. a \in spoiled' => Paid(a)'
  BY <1>1 DEF Paid, Underway
<1> QED BY <1>1, <1>2, <1>3 DEF PaidInv, PaidTypes

\* A worker's step leaves the other images alone.
LEMMA AwayPays ==
  ASSUME IInv, PaidInv, NEW a \in Assets,
         \A b \in Assets \ {a} :
           /\ sent'[b] = sent[b] /\ png'[b] = png[b] /\ receipt'[b] = receipt[b]
           /\ stage'[b] = stage[b] /\ key'[b] = key[b]
           /\ b \in spoiled' <=> b \in spoiled,
         noted' \in [Assets -> Nat], spoiled' \subseteq Assets, Paid(a)'
  PROVE  PaidInv'
<1>1. ASSUME NEW b \in Assets \ {a} PROVE Paid(b)'
  BY <1>1, Carried DEF PaidInv
<1> QED BY <1>1 DEF PaidInv, PaidTypes

\* So does one that sends nothing and keeps image, receipt and result.
LEMMA QuietPays ==
  ASSUME IInv, PaidInv, NEW a \in Assets, UNCHANGED <<sent, png, receipt>>,
         NEW t \in Stages, stage' = [stage EXCEPT ![a] = t], t # "call",
         \A b \in Assets \ {a} : key'[b] = key[b],
         spoiled' \in {spoiled, spoiled \cup {a}},
         t \in Underway => stage[a] \in Underway /\ key'[a] = key[a],
         stage[a] \in Underway => t \in Underway \/ a \in spoiled',
         noted' \in [Assets -> Nat]
  PROVE  PaidInv'
<1>1. stage'[a] = t /\ \A b \in Assets \ {a} : stage'[b] = stage[b]
  BY DEF IInv, Typed
<1>2. spoiled' \subseteq Assets
  BY DEF PaidInv, PaidTypes
<1>3. Paid(a)'
  BY <1>1, Carried DEF PaidInv
<1> QED BY <1>1, <1>2, <1>3, AwayPays

\* Before the call, and at the journal, the worker sends nothing.
LEMMA OtherPays ==
  ASSUME IInv, PaidInv, NEW a \in Assets,
         \/ \E k \in Kinds : Search(a, k)
         \/ Source(a) \/ Note(a) \/ Journal(a)
  PROVE  PaidInv'
<1>1. UNCHANGED <<sent, png, receipt, key>>
  BY DEF Search, Source, Note, Journal, To
<1>2. noted' \in [Assets -> Nat]
  BY DEF Search, Source, Note, Journal, PaidInv, PaidTypes, IInv, Typed
<1>3. CASE (\E k \in Kinds : Search(a, k)) \/ Source(a) \/ Note(a)
  <2>1. PICK t \in {"visual", "source", "note", "resolve", "raised"} :
          stage' = [stage EXCEPT ![a] = t]
    BY <1>3 DEF Search, Source, Note, To, From
  <2>2. stage[a] \notin Underway /\ UNCHANGED spoiled
    BY <1>3 DEF Search, Source, Note, To, Kinds, Underway, past
  <2> QED BY <1>1, <1>2, <2>1, <2>2, QuietPays DEF Underway
<1>4. CASE Journal(a)
  <2>1. PICK t \in {"receipt", "raised"} :
          /\ stage' = [stage EXCEPT ![a] = t]
          /\ stage[a] \in {"succeeded", "erred"}
          /\ t = "receipt" => stage[a] = "succeeded"
          /\ \/ UNCHANGED spoiled /\ (stage[a] = "succeeded" => t = "receipt")
             \/ spoiled' = spoiled \cup {a}
    BY <1>4 DEF Journal, To, past
  <2> QED BY <1>1, <1>2, <2>1, QuietPays DEF Underway
<1> QED BY <1>3, <1>4

\* A worker goes on to a call with an identity that its receipt does not answer.
LEMMA ResolvePays == ASSUME IInv, PaidInv, NEW a \in Assets, Resolve(a) PROVE PaidInv'
<1>1. UNCHANGED <<sent, png, receipt, noted, spoiled>> /\ stage[a] = "resolve"
  BY DEF Resolve, To, past
<1>2. Typed /\ PaidTypes /\ Paid(a) /\ stage[a] \notin Underway
  BY <1>1 DEF IInv, PaidInv, Underway
<1>3. CASE stage' = [stage EXCEPT ![a] = "raised"] /\ UNCHANGED key
  BY <1>1, <1>2, <1>3, QuietPays DEF PaidTypes, Underway
<1>4. CASE stage' = [stage EXCEPT ![a] = "hit"] /\ key' = [key EXCEPT ![a] = KeyOf(a)]
  <2>1. \A b \in Assets \ {a} : key'[b] = key[b]
    BY <1>2, <1>4 DEF Typed
  <2> QED BY <1>1, <1>2, <1>4, <2>1, QuietPays DEF PaidTypes, Underway
<1>5. CASE /\ stage' = [stage EXCEPT ![a] = "call"] /\ key' = [key EXCEPT ![a] = KeyOf(a)]
           /\ ~Valid(a, KeyOf(a))
  <2>1. /\ stage'[a] = "call" /\ key'[a] = KeyOf(a)
        /\ \A b \in Assets \ {a} : stage'[b] = stage[b] /\ key'[b] = key[b]
    BY <1>2, <1>5 DEF Typed
  <2>2. Again(a)' => sent[a] # << >> /\ Latest(a) = KeyOf(a)
    BY <1>1, <2>1 DEF Again, Latest
  <2>3. Again(a)' => a \in spoiled
    BY <1>2, <1>5, <2>2 DEF Paid
  <2>4. Valid(a, Latest(a))' <=> Valid(a, Latest(a))
    BY <1>1 DEF Valid, Latest
  <2>5. Paid(a)'
    BY <1>1, <1>2, <2>1, <2>3, <2>4 DEF Paid, Underway
  <2> QED BY <1>1, <1>2, <2>1, <2>5, AwayPays DEF PaidTypes
<1> QED BY <1>3, <1>4, <1>5 DEF Resolve, To

LEMMA ReceiptPays == ASSUME IInv, PaidInv, NEW a \in Assets, WriteReceipt(a) PROVE PaidInv'
<1>1. UNCHANGED <<png, noted, key, sent>> /\ stage[a] = "receipt"
  BY DEF WriteReceipt, To
<1>2. Typed /\ PaidTypes /\ Paid(a)
  BY DEF IInv, PaidInv
<1>3. CASE /\ stage' = [stage EXCEPT ![a] = "raised"] /\ UNCHANGED receipt
           /\ spoiled' = spoiled \cup {a}
  BY <1>1, <1>2, <1>3, QuietPays DEF PaidTypes, Underway
<1>4. CASE /\ stage' = [stage EXCEPT ![a] = "made"] /\ UNCHANGED spoiled
           /\ receipt' = [receipt EXCEPT ![a] = [key |-> key[a], sha |-> png[a]]]
  <2>1. /\ stage'[a] = "made" /\ receipt'[a] = [key |-> key[a], sha |-> png[a]]
        /\ \A b \in Assets \ {a} : stage'[b] = stage[b] /\ receipt'[b] = receipt[b]
    BY <1>2, <1>4 DEF Typed
  <2>2. png[a] # 0
    BY <1>1, <1>2 DEF IInv, Founded, MadeBy, Typed
  <2>3. key[a] = Latest(a)
    BY <1>1, <1>2 DEF Paid, Underway, Again, Latest
  <2>4. Valid(a, Latest(a))'
    BY <1>1, <2>1, <2>2, <2>3 DEF Valid, Latest
  <2>5. Paid(a)'
    BY <2>1, <2>4 DEF Paid, Underway
  <2> QED BY <1>1, <1>2, <1>4, <2>1, <2>5, AwayPays DEF PaidTypes
<1> QED BY <1>3, <1>4 DEF WriteReceipt, To, past

LEMMA CallPays == ASSUME IInv, PaidInv, NEW a \in Assets, Call(a) PROVE PaidInv'
<1>1. UNCHANGED <<receipt, noted, key>> /\ sent' = [sent EXCEPT ![a] = Append(@, key[a])]
  BY DEF Call
<1>2. Typed /\ PaidTypes
  BY DEF IInv, PaidInv
<1>3. PICK t \in {"succeeded", "erred"} :
        /\ stage' = [stage EXCEPT ![a] = t]
        /\ spoiled' = IF t = "erred" THEN spoiled \cup {a} ELSE spoiled \ {a}
        /\ \E v : png' = [png EXCEPT ![a] = v]
  BY DEF Call, To
<1>4. /\ stage'[a] = t
      /\ \A b \in Assets \ {a} : stage'[b] = stage[b] /\ sent'[b] = sent[b] /\ png'[b] = png[b]
  BY <1>1, <1>2, <1>3 DEF Typed
<1>5. Again(a)'
  <2>1. /\ sent[a] \in Seq(Key) /\ key[a] \in Key /\ key'[a] = key[a]
        /\ sent'[a] = Append(sent[a], key[a])
    BY <1>1, <1>2 DEF Typed
  <2>2. sent'[a] # << >> /\ sent'[a][Len(sent'[a])] = key[a]
    BY <2>1
  <2> QED BY <2>1, <2>2 DEF Again
<1>6. Paid(a)'
  BY <1>3, <1>4, <1>5 DEF Paid, Underway
<1> QED BY <1>1, <1>2, <1>3, <1>4, <1>6, AwayPays DEF PaidTypes

LEMMA PaidStep == IInv /\ PaidInv /\ [Next]_vars => PaidInv'
<1> SUFFICES ASSUME IInv, PaidInv, [Next]_vars PROVE PaidInv'
  OBVIOUS
<1>1. CASE UNCHANGED vars
  <2>1. UNCHANGED <<png, noted, stage, key, sent, receipt, spoiled>>
    BY <1>1 DEF vars, history, past
  <2>2. \A a \in Assets : Paid(a)'
    BY <2>1, Carried DEF PaidInv
  <2> QED BY <2>1, <2>2 DEF PaidInv, PaidTypes
<1> QED BY <1>1, MainPays, CrashPays, DamagePays, OtherPays, ResolvePays, CallPays, ReceiptPays
        DEF Next, Worker

\* Only a call sends a request.
LEMMA SentByCall ==
  ASSUME Typed, [Next]_vars, NEW a \in Assets, sent'[a] # sent[a]
  PROVE  stage[a] = "call"
<1>1. PICK b \in Assets : Call(b)
  BY DEF Next, Main, Begin, Schedule, Pass, Collect, Count, Crash, Damage, Worker, Search, Source,
         Note, Resolve, Journal, WriteReceipt, vars, history
<1>2. b = a
  BY <1>1 DEF Call, Typed
<1> QED BY <1>1, <1>2 DEF Call, To

(***************************************************************************)
(* A request for an image that was sent last is sent again only if that    *)
(* call failed, its row or its receipt could not be written, the process   *)
(* died before the receipt was, or the image was damaged since, for every  *)
(* plan, width and number of runs (engine.py:675-686).                     *)
(***************************************************************************)
THEOREM RequestsArePaidOnce == Spec => PaidOnce
<1>1. IInv /\ PaidInv /\ [Next]_vars =>
        [\A a \in Assets : sent'[a] # sent[a] /\ Again(a) => a \in spoiled]_vars
  BY SentByCall DEF IInv, PaidInv, Paid
<1> QED BY <1>1, PaidInitial, PaidStep, Invariance, PTL DEF Spec, PaidOnce

-----------------------------------------------------------------------------
(* Sums over a finite set                                                    *)

\* Any set of numbers has a least one.
LEMMA LeastNumber ==
  ASSUME NEW T \in SUBSET Nat, T # {}
  PROVE  \E m \in T : \A n \in T : m <= n
<1>1. PICK m \in T : \A n \in T : ~(<<n, m>> \in OpToRel(<, Nat))
  BY NatLessThanWellFounded, WFMin
<1>2. ASSUME NEW n \in T PROVE m <= n
  <2>1. ~(n < m)
    <3>1. n \in Nat /\ m \in Nat
      OBVIOUS
    <3>2. n < m => <<n, m>> \in OpToRel(<, Nat)
      BY <3>1 DEF OpToRel
    <3> QED BY <1>1, <3>2
  <2> QED BY <2>1
<1> QED BY <1>2

\* The element that the community modules' sum takes out of a set first, and the equation of
\* a function that sums the d of every subset of S.
Picked(s) == CHOOSE x \in s : TRUE
Sums(h, d, S) == h = [s \in SUBSET S |-> IF s = {} THEN 0 ELSE d[Picked(s)] + h[s \ {Picked(s)}]]

\* The numbers of the ones in the subsets satisfy the equation.
LEMMA OnesSum ==
  ASSUME NEW S, IsFiniteSet(S), NEW d \in [S -> {0, 1}]
  PROVE  Sums([s \in SUBSET S |-> Cardinality({a \in s : d[a] = 1})], d, S)
<1> DEFINE one(s) == {a \in s : d[a] = 1}
           g == [s \in SUBSET S |-> Cardinality(one(s))]
<1>1. ASSUME NEW s \in SUBSET S
      PROVE  g[s] = IF s = {} THEN 0 ELSE d[Picked(s)] + g[s \ {Picked(s)}]
  <2>1. CASE s = {}
    <3>1. one(s) = {}
      BY <2>1
    <3> QED BY <2>1, <3>1, FS_EmptySet
  <2>2. CASE s # {}
    <3> DEFINE p == Picked(s)
    <3>1. p \in s
      BY <2>2 DEF Picked
    <3> HIDE DEF p
    <3>2. IsFiniteSet(one(s \ {p})) /\ Cardinality(one(s \ {p})) \in Nat
      <4>1. one(s \ {p}) \in SUBSET S
        OBVIOUS
      <4> QED BY <4>1, FS_Subset, FS_CardinalityType
    <3>3. CASE d[p] = 1
      <4>1. one(s) = one(s \ {p}) \cup {p} /\ p \notin one(s \ {p})
        BY <3>1, <3>3
      <4>2. Cardinality(one(s)) = Cardinality(one(s \ {p})) + 1
        BY <3>2, <4>1, FS_AddElement
      <4> QED BY <2>2, <3>2, <3>3, <4>2 DEF p
    <3>4. CASE d[p] = 0
      <4>1. one(s) = one(s \ {p})
        BY <3>1, <3>4
      <4>2. g[s] = Cardinality(one(s)) /\ g[s \ {p}] = Cardinality(one(s \ {p}))
        OBVIOUS
      <4>3. g[s] = 0 + g[s \ {p}]
        BY <3>2, <4>1, <4>2
      <4> QED BY <2>2, <3>4, <4>3 DEF p
    <3> QED BY <3>1, <3>3, <3>4
  <2> QED BY <2>1, <2>2
<1> QED BY <1>1 DEF Sums

\* Two functions that satisfy the equation agree: a smallest set on which they differ would
\* have a smaller one.
LEMMA SumsAgree ==
  ASSUME NEW S, IsFiniteSet(S), NEW d, NEW g, NEW h, Sums(g, d, S), Sums(h, d, S)
  PROVE  g[S] = h[S]
<1> DEFINE T == {Cardinality(s) : s \in {s \in SUBSET S : g[s] # h[s]}}
<1>1. T \in SUBSET Nat
  BY FS_Subset, FS_CardinalityType
<1>2. SUFFICES ASSUME T # {} PROVE FALSE
  BY DEF T
<1>3. PICK s \in SUBSET S : g[s] # h[s] /\ \A n \in T : Cardinality(s) <= n
  <2>1. PICK m \in T : \A n \in T : m <= n
    BY <1>1, <1>2, LeastNumber
  <2> QED BY <2>1
<1>4. s # {}
  BY <1>3 DEF Sums
<1> DEFINE p == Picked(s)
<1>5. p \in s
  BY <1>4 DEF Picked
<1> HIDE DEF p
<1>6. g[s] = d[p] + g[s \ {p}] /\ h[s] = d[p] + h[s \ {p}]
  BY <1>4 DEF Sums, p
<1>7. g[s \ {p}] # h[s \ {p}]
  BY <1>3, <1>6
<1>8. Cardinality(s \ {p}) \in T
  BY <1>7
<1>9. IsFiniteSet(s) /\ Cardinality(s) \in Nat /\ Cardinality(s \ {p}) = Cardinality(s) - 1
  BY <1>5, FS_Subset, FS_CardinalityType, FS_RemoveElement
<1>10. Cardinality(s) <= Cardinality(s \ {p})
  BY <1>3, <1>8
<1> QED BY <1>9, <1>10

LEMMA RowsSum ==
  ASSUME \A a \in Assets : rows[a] - before[a] \in {0, 1}
  PROVE  MapThenSumSet(LAMBDA a : rows[a] - before[a], Assets)
           = Cardinality({a \in Assets : rows[a] - before[a] = 1})
<1> DEFINE d == [a \in Assets |-> rows[a] - before[a]]
           g == [s \in SUBSET Assets |-> Cardinality({a \in s : d[a] = 1})]
           P(h) == h = [s \in SUBSET Assets |->
                          IF s = {} THEN 0
                          ELSE (rows[Picked(s)] - before[Picked(s)]) + h[s \ {Picked(s)}]]
           h == CHOOSE h : P(h)
<1>1. d \in [Assets -> {0, 1}]
  OBVIOUS
<1>2. Sums(g, d, Assets)
  BY <1>1, PlanAssumption, OnesSum
<1>3. ASSUME NEW f PROVE P(f) <=> Sums(f, d, Assets)
  <2>1. \A s \in SUBSET Assets : s # {} => Picked(s) \in Assets
    BY DEF Picked
  <2>2. \A s \in SUBSET Assets : s # {} => d[Picked(s)] = rows[Picked(s)] - before[Picked(s)]
    BY <2>1
  <2> HIDE DEF d
  <2> QED BY <2>2 DEF Sums
<1>4. P(h)
  <2>1. P(g)
    BY <1>2, <1>3
  <2> HIDE DEF g, d, P
  <2> QED BY <2>1, Zenon
<1>5. g[Assets] = h[Assets]
  <2>1. Sums(h, d, Assets)
    BY <1>3, <1>4
  <2> HIDE DEF g, d, h, P
  <2> QED BY <1>2, <2>1, PlanAssumption, SumsAgree
<1>6. MapThenSumSet(LAMBDA a : rows[a] - before[a], Assets) = h[Assets]
  BY DEF MapThenSumSet, MapThenFoldSet, Picked
<1>7. g[Assets] = Cardinality({a \in Assets : rows[a] - before[a] = 1})
  <2>1. {a \in Assets : d[a] = 1} = {a \in Assets : rows[a] - before[a] = 1}
    OBVIOUS
  <2> QED BY <2>1
<1> QED BY <1>5, <1>6, <1>7

-----------------------------------------------------------------------------
(* What the run counts                                                       *)

\* The journal of an image gained one row if the run called for it, once the attempt is
\* journaled, unless the row could not be written; an image is called for once.
Booked(a) ==
  /\ rows[a] = before[a] + (IF a \in called \ lost /\ stage[a] \notin {"succeeded", "erred"}
                            THEN 1 ELSE 0)
  /\ stage[a] \in {"succeeded", "erred", "receipt", "made"} => a \in called \ lost
  /\ stage[a] \in {"fact", "visual", "source", "note", "resolve", "call", "hit"} => a \notin called
  /\ outcome[a] \in {"pending", "blocked"} => a \notin called

CountTypes ==
  /\ found \in [Kinds -> SUBSET Assets]
  /\ rows \in [Assets -> Nat] /\ before \in [Assets -> Nat]
  /\ called \subseteq Assets /\ lost \subseteq called
  /\ missed \subseteq (called \ lost) \cap With("generated")
  /\ counts \in Counts
  /\ runs \in 0..MaxRuns /\ mishaps \in 0..MaxMishaps

CountInv == CountTypes /\ (phase # "off" => \A a \in Assets : Booked(a)) /\ CountsTell

LEMMA CountInitial == Init => CountInv
BY DEF Init, AllAre, CountInv, CountTypes, CountsTell, Counts, Kinds

LEMMA BeginCounts == ASSUME IInv, CountInv, Begin PROVE CountInv'
<1>1. \A a \in Assets : stage[a] = "idle"
  BY DEF IInv, Allowed, PhaseInv, With, Begin
<1>2. CountTypes'
  BY DEF Begin, CountInv, CountTypes
<1>3. ASSUME NEW a \in Assets PROVE Booked(a)'
  BY <1>1 DEF Begin, CountInv, CountTypes, Booked
<1> QED BY <1>2, <1>3 DEF Begin, CountInv, CountsTell

LEMMA CrashCounts == ASSUME CountInv, Crash PROVE CountInv'
<1>1. mishaps' \in 0..MaxMishaps
  BY DEF Crash, Mishap, CountInv, CountTypes
<1>2. CountTypes'
  BY <1>1 DEF Crash, CountInv, CountTypes
<1> QED BY <1>2 DEF Crash, CountInv, CountsTell

LEMMA DamageCounts == ASSUME CountInv, NEW a \in Assets, Damage(a) PROVE CountInv'
<1>1. UNCHANGED <<found, rows, stage, called, lost, runs>> /\ UNCHANGED main
      /\ mishaps' \in 0..MaxMishaps
  BY DEF Damage, Mishap, CountInv, CountTypes
<1>2. UNCHANGED <<phase, outcome, missed, before, counts>>
  BY <1>1 DEF main
<1> QED BY <1>1, <1>2 DEF CountInv, CountTypes, Booked, CountsTell, With

LEMMA ScheduleCounts == ASSUME IInv, CountInv, Schedule PROVE CountInv'
<1>1. PICK blocked \in SUBSET With("pending"), started \in SUBSET With("pending") :
        Pass(blocked, started)
  BY DEF Schedule, Blocked, Ready
<1>2. /\ UNCHANGED <<found, rows, before, called, lost, missed, counts, runs, mishaps>>
      /\ outcome' = [a \in Assets |-> IF a \in blocked THEN "blocked"
                                      ELSE IF a \in started THEN "running" ELSE outcome[a]]
      /\ stage' = [a \in Assets |-> IF a \in started THEN From(a, "fact") ELSE stage[a]]
      /\ phase # "off" /\ phase' # "done"
  BY <1>1 DEF Pass, history, past, Schedule
<1>3. \A a \in Assets : /\ From(a, "fact") \in {"fact", "visual", "resolve"}
                        /\ outcome[a] = "pending" => stage[a] = "idle"
  BY DEF From, IInv, Allowed
<1>4. With("generated")' = With("generated")
  BY <1>2 DEF With
<1>5. ASSUME NEW a \in Assets PROVE Booked(a)'
  <2>1. Booked(a)
    BY <1>2 DEF CountInv
  <2>2. CASE a \in blocked \cup started
    BY <1>2, <1>3, <2>1, <2>2 DEF Booked, With
  <2>3. CASE a \notin blocked \cup started
    BY <1>2, <2>1, <2>3 DEF Booked
  <2> QED BY <2>2, <2>3
<1> QED BY <1>2, <1>4, <1>5 DEF CountInv, CountTypes, CountsTell

LEMMA CollectCounts == ASSUME IInv, CountInv, Collect PROVE CountInv'
<1> DEFINE good == {a \in Assets : stage[a] \in {"hit", "made"}}
           bad == {a \in Assets : stage[a] = "raised"}
<1>1. /\ UNCHANGED <<found, rows, before, called, lost, counts, runs, mishaps>>
      /\ phase = "wait" /\ phase' = "schedule"
      /\ outcome' = [a \in Assets |-> IF a \in good THEN "generated"
                                      ELSE IF a \in bad THEN "failed" ELSE outcome[a]]
      /\ missed' = missed \cup {a \in good : stage[a] = "made"}
      /\ stage' = [a \in Assets |-> IF a \in good \cup bad THEN "idle" ELSE stage[a]]
  BY DEF Collect, history, past
<1>2. \A a \in Assets : Booked(a) /\ (a \in bad => outcome[a] = "running")
  BY <1>1 DEF CountInv, IInv, Allowed
<1>3. With("generated") \cup good \subseteq With("generated")'
  BY <1>1, <1>2 DEF With
<1>4. missed' \subseteq (called \ lost) \cap With("generated")'
  BY <1>1, <1>2, <1>3 DEF CountInv, CountTypes, Booked
<1>5. ASSUME NEW a \in Assets PROVE Booked(a)'
  BY <1>1, <1>2 DEF Booked
<1> QED BY <1>1, <1>4, <1>5 DEF CountInv, CountTypes, CountsTell

LEMMA CountCounts == ASSUME IInv, CountInv, Count PROVE CountInv'
<1>1. /\ UNCHANGED <<found, rows, before, called, lost, missed, runs, mishaps, outcome, stage>>
      /\ phase = "count" /\ phase' = "done"
      /\ counts' = [generation |-> MapThenSumSet(LAMBDA a : rows[a] - before[a], Assets),
                    successes |-> Cardinality(missed),
                    hits |-> Cardinality(With("generated") \ missed)]
  BY DEF Count, history, past
<1>2. \A a \in Assets : stage[a] = "idle"
  BY <1>1 DEF IInv, Allowed, PhaseInv, With
<1>3. \A a \in Assets : Booked(a) /\ rows[a] - before[a] = IF a \in called \ lost THEN 1 ELSE 0
  <2> SUFFICES ASSUME NEW a \in Assets
               PROVE  Booked(a) /\ rows[a] - before[a] = IF a \in called \ lost THEN 1 ELSE 0
    OBVIOUS
  <2>1. Booked(a) /\ before[a] \in Nat /\ rows[a] \in Nat
    BY <1>1 DEF CountInv, CountTypes
  <2>2. rows[a] = before[a] + (IF a \in called \ lost THEN 1 ELSE 0)
    BY <1>2, <2>1 DEF Booked
  <2> QED BY <2>1, <2>2
<1>4. counts'.generation = Cardinality(called \ lost)
  <2>1. called \ lost = {a \in Assets : rows[a] - before[a] = 1}
    BY <1>3 DEF CountInv, CountTypes
  <2>2. \A a \in Assets : rows[a] - before[a] \in {0, 1}
    BY <1>3
  <2>3. MapThenSumSet(LAMBDA a : rows[a] - before[a], Assets)
          = Cardinality({a \in Assets : rows[a] - before[a] = 1})
    BY <2>2, RowsSum
  <2> QED BY <1>1, <2>1, <2>3
<1> DEFINE made == With("generated")
<1>5. /\ called \ lost \in SUBSET Assets /\ made \in SUBSET Assets
      /\ missed \in SUBSET made /\ missed \in SUBSET (called \ lost)
  BY DEF CountInv, CountTypes, With
<1> HIDE DEF made
<1>6. IsFiniteSet(called \ lost) /\ IsFiniteSet(made) /\ IsFiniteSet(missed) /\ IsFiniteSet(made \ missed)
  <2>1. IsFiniteSet(called \ lost) /\ IsFiniteSet(made)
    BY <1>5, FS_Subset
  <2>2. made \ missed \in SUBSET made
    OBVIOUS
  <2> QED BY <1>5, <2>1, <2>2, FS_Subset
<1>7. /\ Cardinality(called \ lost) \in Nat /\ Cardinality(missed) \in Nat
      /\ Cardinality(made \ missed) \in Nat /\ Cardinality(made) \in Nat
  BY <1>6, FS_CardinalityType
<1>8. Cardinality(missed) <= Cardinality(called \ lost)
  BY <1>5, <1>6, FS_Subset
<1>9. Cardinality(missed) + Cardinality(made \ missed) = Cardinality(made)
  <2>1. missed \cap (made \ missed) = {} /\ missed \cup (made \ missed) = made
    BY <1>5
  <2>2. Cardinality(missed \cap (made \ missed)) = 0
    BY <2>1, FS_EmptySet
  <2>3. Cardinality(missed \cup (made \ missed))
          = Cardinality(missed) + Cardinality(made \ missed) - Cardinality(missed \cap (made \ missed))
    BY <1>6, FS_Union, Zenon
  <2>4. Cardinality(made) = Cardinality(missed) + Cardinality(made \ missed) - 0
    BY <2>1, <2>2, <2>3, Zenon
  <2> QED BY <1>7, <2>4
<1>10. /\ counts'.successes = Cardinality(missed) /\ counts'.hits = Cardinality(made \ missed)
       /\ counts' \in Counts
  BY <1>1, <1>4, <1>7 DEF Counts, made
<1>11. With("generated")' = made
  BY <1>1 DEF With, made
<1>12. CountsTell'
  BY <1>1, <1>4, <1>8, <1>9, <1>10, <1>11 DEF CountsTell
<1>13. \A a \in Assets : Booked(a)'
  BY <1>1, <1>3 DEF Booked
<1> QED BY <1>1, <1>5, <1>10, <1>11, <1>12, <1>13 DEF CountInv, CountTypes

\* A worker's step tells on its own image only, and the run is not over.
LEMMA AwayCounts ==
  ASSUME IInv, CountInv, NEW a \in Assets, stage[a] # "idle", UNCHANGED main,
         found' \in [Kinds -> SUBSET Assets], rows' \in [Assets -> Nat], UNCHANGED runs,
         mishaps' \in 0..MaxMishaps, called' \in {called, called \cup {a}},
         lost' \in {lost, lost \cup {a}}, lost' \subseteq called',
         \A b \in Assets \ {a} : stage'[b] = stage[b] /\ rows'[b] = rows[b],
         Booked(a) => Booked(a)'
  PROVE  CountInv'
<1>1. UNCHANGED <<phase, outcome, missed, before, counts>>
  BY DEF main
<1>2. phase \in {"schedule", "wait"}
  BY DEF IInv, Typed, Allowed, PhaseInv, With
<1>3. CountTypes'
  <2>1. missed \subseteq (called \ lost) \cap With("generated") /\ a \notin With("generated")
    BY DEF CountInv, CountTypes, IInv, Allowed, With
  <2>2. missed' \subseteq (called' \ lost') \cap With("generated")'
    BY <1>1, <2>1 DEF With
  <2> QED BY <1>1, <2>2 DEF CountInv, CountTypes
<1>4. ASSUME NEW b \in Assets PROVE Booked(b)'
  <2>1. Booked(b)
    BY <1>2 DEF CountInv
  <2>2. b # a => (b \in called' \ lost' <=> b \in called \ lost) /\ (b \in called' <=> b \in called)
    OBVIOUS
  <2> QED BY <1>1, <2>1, <2>2 DEF Booked
<1> QED BY <1>1, <1>2, <1>3, <1>4 DEF CountInv, CountsTell

LEMMA WorkerCounts == ASSUME IInv, CountInv, NEW a \in Assets, Worker(a) PROVE CountInv'
<1>1. stage \in [Assets -> Stages] /\ CountTypes
  BY DEF IInv, Typed, CountInv
<1>2. CASE \/ \E k \in Kinds : Search(a, k)
           \/ Source(a) \/ Note(a) \/ Resolve(a) \/ WriteReceipt(a)
  <2>1. PICK t \in Stages :
          /\ stage' = [stage EXCEPT ![a] = t] /\ stage[a] # "idle" /\ UNCHANGED main
          /\ \/ stage[a] = "receipt" /\ t \in {"made", "raised"}
             \/ /\ stage[a] \in {"fact", "visual", "source", "note", "resolve"}
                /\ t \in {"fact", "visual", "source", "note", "resolve", "call", "hit", "raised"}
    BY <1>2 DEF Search, Source, Note, Resolve, WriteReceipt, To, From, Kinds
  <2>2. UNCHANGED <<rows, called, lost, runs>> /\ found' \in [Kinds -> SUBSET Assets]
    BY <1>1, <1>2 DEF Search, Source, Note, Resolve, WriteReceipt, To, CountTypes, past
  <2>3. stage'[a] = t /\ \A b \in Assets \ {a} : stage'[b] = stage[b]
    BY <1>1, <2>1
  <2>4. Booked(a) => Booked(a)'
    BY <2>1, <2>2, <2>3 DEF Booked, main
  <2>5. mishaps' \in 0..MaxMishaps
    BY <1>1, <1>2 DEF Search, Source, Note, Resolve, WriteReceipt, Mishap, CountTypes
  <2> QED BY <1>1, <2>1, <2>2, <2>3, <2>4, <2>5, AwayCounts DEF CountTypes
<1>3. CASE Call(a)
  <2>1. PICK t \in {"succeeded", "erred"} :
          /\ stage' = [stage EXCEPT ![a] = t] /\ stage[a] = "call" /\ UNCHANGED main
    BY <1>3 DEF Call, To
  <2>2. /\ UNCHANGED <<rows, found, lost, runs>> /\ called' = called \cup {a}
        /\ mishaps' \in 0..MaxMishaps
    BY <1>1, <1>3 DEF Call, To, Mishap, CountTypes
  <2>3. stage'[a] = t /\ \A b \in Assets \ {a} : stage'[b] = stage[b]
    BY <1>1, <2>1
  <2>4. outcome[a] = "running"
    BY <2>1 DEF IInv, Allowed
  <2>5. lost \subseteq called /\ lost' \subseteq called'
    BY <1>1, <2>2 DEF CountTypes
  <2>6. Booked(a) => Booked(a)'
    BY <2>1, <2>2, <2>3, <2>4, <2>5 DEF Booked, main
  <2>7. called' \in {called, called \cup {a}} /\ lost' \in {lost, lost \cup {a}}
    BY <2>2
  <2> QED BY <1>1, <2>1, <2>2, <2>3, <2>5, <2>6, <2>7, AwayCounts DEF CountTypes
<1>4. CASE Journal(a)
  <2>1. PICK t \in {"receipt", "raised"} :
          /\ stage' = [stage EXCEPT ![a] = t] /\ stage[a] \in {"succeeded", "erred"}
          /\ UNCHANGED main
          /\ t = "receipt" => lost' = lost
    BY <1>4 DEF Journal, To, past
  <2>2. /\ UNCHANGED <<called, found, runs>> /\ mishaps' \in 0..MaxMishaps
        /\ \/ rows' = [rows EXCEPT ![a] = @ + 1] /\ lost' = lost
           \/ rows' = rows /\ lost' = lost \cup {a}
    BY <1>1, <1>4 DEF Journal, To, Mishap, past, CountTypes
  <2>3. /\ stage'[a] = t /\ \A b \in Assets \ {a} : stage'[b] = stage[b] /\ rows'[b] = rows[b]
        /\ rows'[a] = IF a \in lost' \ lost THEN rows[a] ELSE rows[a] + 1
        /\ rows' \in [Assets -> Nat]
    <3>1. CASE rows' = [rows EXCEPT ![a] = @ + 1] /\ lost' = lost
      BY <1>1, <2>1, <3>1 DEF CountTypes
    <3>2. CASE rows' = rows /\ lost' = lost \cup {a}
      <4>1. a \notin lost
        BY <2>1 DEF CountInv, Booked, IInv, Typed, Allowed, PhaseInv, With
      <4> QED BY <1>1, <2>1, <3>2, <4>1 DEF CountTypes
    <3> QED BY <2>2, <3>1, <3>2
  <2>4. Booked(a) => Booked(a)'
    <3> SUFFICES ASSUME Booked(a) PROVE Booked(a)'
      OBVIOUS
    <3>1. a \in called \ lost /\ rows[a] = before[a] /\ before[a] \in Nat
      BY <1>1, <2>1 DEF Booked, CountTypes
    <3>2. outcome[a] = "running" /\ outcome' = outcome /\ before' = before
      BY <2>1 DEF IInv, Allowed, main
    <3>3. a \in called' /\ (a \in lost' <=> a \in lost' \ lost)
      BY <2>2, <3>1
    <3>4. rows'[a] = before'[a] + (IF a \in called' \ lost' THEN 1 ELSE 0)
      BY <2>3, <3>1, <3>2, <3>3
    <3> QED BY <2>1, <2>2, <2>3, <3>1, <3>2, <3>3, <3>4 DEF Booked
  <2>5. called' \in {called, called \cup {a}} /\ lost' \in {lost, lost \cup {a}} /\ lost' \subseteq called'
    BY <1>1, <2>1, <2>2 DEF CountInv, CountTypes, Booked, IInv, Typed, Allowed, PhaseInv, With
  <2> QED BY <1>1, <2>1, <2>2, <2>3, <2>4, <2>5, AwayCounts DEF CountTypes
<1> QED BY <1>2, <1>3, <1>4 DEF Worker

LEMMA CountStep == IInv /\ CountInv /\ [Next]_vars => CountInv'
<1> SUFFICES ASSUME IInv, CountInv, [Next]_vars PROVE CountInv'
  OBVIOUS
<1>1. CASE UNCHANGED vars
  <2>1. UNCHANGED <<found, rows, phase, outcome, missed, before, counts, stage, called, lost,
                    runs, mishaps>>
    BY <1>1 DEF vars, main, history, past
  <2> QED BY <2>1 DEF CountInv, CountTypes, Booked, CountsTell, With
<1> QED BY <1>1, BeginCounts, CrashCounts, DamageCounts, ScheduleCounts, CollectCounts, CountCounts,
           WorkerCounts DEF Next, Main

LEMMA CountInvariance == Spec => []CountInv
BY CountInitial, CountStep, Invariance, PTL DEF Spec

(***************************************************************************)
(* image_generation is the number of images that the run called for, less  *)
(* those whose row could not be written, as the rows that the journals     *)
(* gained add up to it, and every success or cache hit is one generated    *)
(* image, for every plan, width and history of mishaps                     *)
(* (engine.py:722-753, 941-949).                                           *)
(***************************************************************************)
THEOREM CountsAreCalls == Spec => []CountsTell
BY CountInvariance, PTL DEF CountInv

(***************************************************************************)
(* The executor's state keeps its types; the counts are never negative     *)
(* although they are differences of two readings of the journals           *)
(* (engine.py:865-870, 941-949).                                           *)
(***************************************************************************)
THEOREM TypeCorrect == Spec => []TypeOK
<1>1. IInv /\ PaidInv /\ CountInv => TypeOK
  BY DEF IInv, Typed, PaidInv, PaidTypes, CountInv, CountTypes, TypeOK
<1>2. Spec => []PaidInv
  BY PaidInitial, PaidStep, Invariance, PTL DEF Spec
<1> QED BY <1>1, <1>2, CountInvariance, Invariance, PTL

-----------------------------------------------------------------------------
(* The executor implements AssetRun                                          *)

LEMMA RunInitial == Init => Promise!RunInit
BY DEF Init, AllAre, Promise!RunInit, Promise!Fresh, State

\* A step that leaves the outcomes alone and neither opens nor closes a run is a stutter.
LEMMA Stutter ==
  ASSUME UNCHANGED outcome, UNCHANGED phase
  PROVE  UNCHANGED Promise!runVars
BY DEF Promise!runVars, State

\* What Promise!Lost is in terms of the executor.
LEMMA LostAre ==
  Promise!Lost = Failures /\ Promise!Lost' = Failures'
BY DEF Promise!Lost, Failures, With, State

LEMMA BeginOpens == IInv /\ Begin => Promise!Open
BY DEF Begin, Promise!Open, Promise!Fresh, State, AllAre

LEMMA CrashAborts == IInv /\ Crash => Promise!Abort
BY DEF IInv, Typed, Crash, Promise!Abort, Promise!Fresh, State, AllAre

LEMMA CountCloses == IInv /\ Count => Promise!Close
<1>1. SUFFICES ASSUME IInv, Count PROVE Promise!Close
  OBVIOUS
<1>2. phase = "count" /\ phase' = "done" /\ UNCHANGED outcome
  BY <1>1 DEF Count
<1>3. \A a \in Assets : outcome[a] \in {"generated", "failed", "blocked"}
  BY <1>1, <1>2 DEF IInv, Typed, PhaseInv, With
<1>4. QED
  BY <1>2, <1>3 DEF Promise!Close, State

\* A step in an open run that moves each image as the promise allows.
LEMMA Proceeds ==
  ASSUME IInv, IInv', phase \in {"schedule", "wait"}, phase' \in {"schedule", "wait", "count"},
         \A a \in Assets :
           \/ outcome'[a] = outcome[a]
           \/ /\ outcome[a] = "pending" /\ outcome'[a] = "running"
              /\ Deps[a] \subseteq With("generated")
           \/ /\ outcome[a] = "pending" /\ outcome'[a] = "blocked"
              /\ Deps[a] \cap Failures' # {}
           \/ outcome[a] = "running" /\ outcome'[a] \in {"generated", "failed"}
  PROVE  Promise!Proceed
<1> DEFINE state == [a \in Assets |-> State(a)]
<1>1. \A a \in Assets : outcome[a] \in Outcomes /\ outcome'[a] \in Outcomes
  BY DEF IInv, Typed
<1>2. state' \in [Assets -> Promise!States]
  BY <1>1 DEF State, Promise!States
<1>3. ASSUME NEW a \in Assets PROVE Promise!Moves(a)
  <2>1. \A d \in Deps[a] : d \in Assets
    OBVIOUS
  <2>2. Deps[a] \subseteq With("generated") => \A d \in Deps[a] : state[d] = "generated"
    BY <2>1 DEF With, State
  <2>3. QED
    BY <1>1, <2>2, LostAre DEF State, Promise!Moves
<1>4. Promise!Cardinality({a \in Assets : state'[a] = "running"}) <= MaxConcurrency
  <2>1. {a \in Assets : state'[a] = "running"} = With("running")'
    BY DEF With, State
  <2>2. Promise!Cardinality(With("running")') = Cardinality(With("running")')
    BY DEF Promise!Cardinality, Cardinality
  <2>3. QED
    BY <2>1, <2>2 DEF IInv, PhaseInv
<1>5. QED
  BY <1>2, <1>3, <1>4 DEF Promise!Proceed

LEMMA CollectProceeds == IInv /\ IInv' /\ Collect => Promise!Proceed
<1>1. SUFFICES ASSUME IInv, IInv', Collect PROVE Promise!Proceed
  OBVIOUS
<1>2. \A a \in Assets : stage[a] # "idle" => outcome[a] = "running"
  BY <1>1 DEF IInv, Allowed
<1>3. \A a \in Assets : \/ outcome'[a] = outcome[a]
                        \/ outcome[a] = "running" /\ outcome'[a] \in {"generated", "failed"}
  <2>1. \A a \in Assets : outcome'[a] = IF stage[a] \in {"hit", "made"} THEN "generated"
                                       ELSE IF stage[a] = "raised" THEN "failed" ELSE outcome[a]
    BY <1>1 DEF Collect
  <2>2. QED
    BY <1>2, <2>1
<1>4. phase = "wait" /\ phase' = "schedule"
  BY <1>1 DEF Collect
<1>5. QED
  BY <1>1, <1>3, <1>4, Proceeds

LEMMA ScheduleProceeds == IInv /\ IInv' /\ Schedule => Promise!Proceed
<1>1. SUFFICES ASSUME IInv, IInv', Schedule PROVE Promise!Proceed
  OBVIOUS
<1>2. phase = "schedule" /\ phase' \in {"wait", "count"}
  BY <1>1 DEF Schedule
<1>3. CASE \E S \in SUBSET Ready : Pass(Blocked, S)
  <2>1. PICK S \in SUBSET Ready : Pass(Blocked, S)
    BY <1>3
  <2>2. ASSUME NEW a \in Assets
        PROVE  outcome'[a] = IF a \in Blocked THEN "blocked"
                             ELSE IF a \in S THEN "running" ELSE outcome[a]
    BY <2>1 DEF Pass
  <2>3. Failures \subseteq Failures'
    BY <2>2 DEF Failures, Blocked, Ready, With
  <2>4. ASSUME NEW a \in Blocked
        PROVE  outcome[a] = "pending" /\ Deps[a] \cap Failures' # {}
    BY <2>3 DEF Blocked, With
  <2>5. ASSUME NEW a \in S
        PROVE  outcome[a] = "pending" /\ Deps[a] \subseteq With("generated")
    BY DEF Ready, With
  <2>6. QED
    BY <1>1, <1>2, <2>2, <2>4, <2>5, Proceeds
<1>4. CASE Ready = {} /\ With("running") = {} /\ Pass(With("pending"), {})
  <2>1. ASSUME NEW a \in Assets
        PROVE  outcome'[a] = IF a \in With("pending") THEN "blocked" ELSE outcome[a]
    BY <1>4 DEF Pass
  <2>2. ASSUME NEW a \in With("pending") PROVE Deps[a] \cap Failures' # {}
    <3>1. a \in Assets /\ Deps[a] \subseteq Assets
      BY DEF With
    <3>2. Deps[a] \cap Failures # {} \/ ~(Deps[a] \subseteq With("generated"))
      BY <1>4, <2>2 DEF Ready, Blocked
    <3>3. PICK d \in Deps[a] : outcome[d] # "generated"
      BY <3>1, <3>2 DEF Failures, With
    <3>4. \A b \in Assets : outcome[b] \in {"pending", "generated", "failed", "blocked"}
      BY <1>1, <1>4 DEF IInv, Typed, With
    <3>5. outcome'[d] \in {"failed", "blocked"}
      BY <2>1, <3>1, <3>3, <3>4 DEF With
    <3>6. QED
      BY <3>1, <3>5 DEF Failures, With
  <2>3. QED
    BY <1>1, <1>2, <2>1, <2>2, Proceeds DEF With
<1>5. QED
  BY <1>1, <1>3, <1>4 DEF Schedule

LEMMA RunStep == IInv /\ IInv' /\ [Next]_vars => [Promise!RunNext]_Promise!runVars
<1>1. SUFFICES ASSUME IInv, IInv', [Next]_vars PROVE [Promise!RunNext]_Promise!runVars
  OBVIOUS
<1>2. CASE UNCHANGED vars
  BY <1>2, Stutter DEF vars, main
<1>3. ASSUME NEW a \in Assets, Worker(a) \/ Damage(a) PROVE UNCHANGED Promise!runVars
  <2>1. UNCHANGED main
    BY <1>3 DEF Worker, Search, Source, Note, Resolve, Call, Journal, WriteReceipt, To, Damage
  <2>2. QED
    BY <2>1, Stutter DEF main
<1>4. QED
  BY <1>1, <1>2, <1>3, BeginOpens, CrashAborts, CountCloses, CollectProceeds, ScheduleProceeds
     DEF Next, Main, Promise!RunNext

(***************************************************************************)
(* Every run of the executor is one of AssetRun: images start only on      *)
(* generated images and within the width, a failure blocks only images     *)
(* that need what is lost, and the run closes with everything settled      *)
(* (engine.py:888-940).                                                    *)
(***************************************************************************)
THEOREM Refinement == Spec => ImplementsAssetRun
BY RunInitial, RunStep, Invariance, PTL DEF Spec, ImplementsAssetRun, Promise!RunSpec
=============================================================================
