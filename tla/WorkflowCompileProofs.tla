----------------------- MODULE WorkflowCompileProofs ------------------------
(***************************************************************************)
(* Proofs that the checks of a plan accept no plan whose images wait for   *)
(* each other and refuse none for a cycle that it does not have, that what *)
(* a director drafts always compiles, and that the API workflow shows each *)
(* generator the references of its shot in their order.                    *)
(***************************************************************************)
EXTENDS WorkflowCompile, FiniteSetTheorems, WellFoundedInduction, TLAPS

IsSequence(s) == \E T : s \in Seq(T)

IsPlan(p) ==
  /\ p = [shared |-> p.shared, shots |-> p.shots]
  /\ IsSequence(p.shared) /\ IsSequence(p.shots)
  /\ \A s \in ToSet(p.shots) : s = PlannedShot(s.id, s.order, s.asset, s.previous, s.refs, s.deps)

\* No set of images that waits for itself has an image that is resolved.
Layered ==
  /\ remaining \cup resolved = AssetIds(plan)
  /\ \A S \in SUBSET AssetIds(plan) : Cycle(plan, S) => S \cap resolved = {}

IInv ==
  /\ phase = "request" => IsSequence(draft.shared)
  /\ phase \in {"request", "drafting", "check", "resolve"} => IsPlan(plan)
  /\ phase = "resolve" => DependenciesKnown(plan) /\ OrdersContiguous(plan) /\ Layered
  /\ Verdict

-----------------------------------------------------------------------------
(* Plans                                                                     *)

LEMMA ToSetConcat ==
  ASSUME NEW T, NEW s \in Seq(T), NEW t \in Seq(T)
  PROVE  ToSet(s \o t) = ToSet(s) \cup ToSet(t)
<1> DEFINE m == Len(s)
           n == Len(t)
           u == s \o t
<1>1. /\ m \in Nat /\ n \in Nat
      /\ DOMAIN s = 1..m /\ DOMAIN t = 1..n /\ DOMAIN u = 1..(m + n)
  OBVIOUS
<1>2. /\ \A i \in 1..m : u[i] = s[i]
      /\ \A i \in 1..(m + n) : i > m => u[i] = t[i - m]
  OBVIOUS
<1> HIDE DEF m, n, u
<1>3. ASSUME NEW x \in ToSet(u)
      PROVE  x \in ToSet(s) \cup ToSet(t)
  <2>1. PICK i \in 1..(m + n) : x = u[i]
    BY <1>1, <1>3 DEF ToSet
  <2>2. CASE i <= m
    BY <1>1, <1>2, <2>1, <2>2 DEF ToSet
  <2>3. CASE i > m
    <3>1. i - m \in 1..n /\ x = t[i - m]
      BY <1>1, <1>2, <2>1, <2>3
    <3>2. QED
      BY <1>1, <3>1 DEF ToSet
  <2>4. QED
    BY <1>1, <2>1, <2>2, <2>3
<1>4. ASSUME NEW x \in ToSet(s)
      PROVE  x \in ToSet(u)
  <2>1. PICK i \in 1..m : x = s[i]
    BY <1>1, <1>4 DEF ToSet
  <2>2. i \in 1..(m + n) /\ x = u[i]
    BY <1>1, <1>2, <2>1
  <2>3. QED
    BY <1>1, <2>2 DEF ToSet
<1>5. ASSUME NEW x \in ToSet(t)
      PROVE  x \in ToSet(u)
  <2>1. PICK i \in 1..n : x = t[i]
    BY <1>1, <1>5 DEF ToSet
  <2>2. m + i \in 1..(m + n) /\ m + i > m /\ (m + i) - m = i
    BY <1>1, <2>1
  <2>3. x = u[m + i]
    BY <1>2, <2>1, <2>2
  <2>4. QED
    BY <1>1, <2>2, <2>3 DEF ToSet
<1>6. QED
  BY <1>3, <1>4, <1>5 DEF u

\* The items of a plan are its shared images and its shots.
LEMMA ItemsOfPlan ==
  ASSUME NEW p, IsSequence(p.shared), IsSequence(p.shots)
  PROVE  ToSet(Items(p)) = ToSet(p.shared) \cup ToSet(p.shots)
<1>1. PICK T1 : p.shared \in Seq(T1)
  BY DEF IsSequence
<1>2. PICK T2 : p.shots \in Seq(T2)
  BY DEF IsSequence
<1>3. p.shared \in Seq(T1 \cup T2) /\ p.shots \in Seq(T1 \cup T2)
  BY <1>1, <1>2
<1>4. QED
  BY <1>3, ToSetConcat DEF Items

\* Two plans whose items have the same images with the same dependencies wait in the same way.
LEMMA SameDependencies ==
  ASSUME NEW p, NEW q,
         \A x \in ToSet(Items(p)) : \E y \in ToSet(Items(q)) : x.asset = y.asset /\ x.deps = y.deps,
         \A y \in ToSet(Items(q)) : \E x \in ToSet(Items(p)) : x.asset = y.asset /\ x.deps = y.deps
  PROVE  /\ AssetIds(p) = AssetIds(q)
         /\ \A a : DepsOf(p, a) = DepsOf(q, a)
<1>1. AssetIds(p) = AssetIds(q)
  BY DEF AssetIds
<1>2. ASSUME NEW a
      PROVE  DepsOf(p, a) = DepsOf(q, a)
  <2>1. ASSUME NEW d \in DepsOf(p, a)
        PROVE  d \in DepsOf(q, a)
    BY <2>1 DEF DepsOf
  <2>2. ASSUME NEW d \in DepsOf(q, a)
        PROVE  d \in DepsOf(p, a)
    BY <2>2 DEF DepsOf
  <2>3. QED
    BY <2>1, <2>2
<1>3. QED
  BY <1>1, <1>2

\* A sorted plan has the same shots.
LEMMA InOrderKeepsShots ==
  ASSUME NEW p, IsPlan(p), OrdersContiguous(p)
  PROVE  /\ IsPlan(InOrder(p))
         /\ InOrder(p).shared = p.shared
         /\ ToSet(InOrder(p).shots) = ToSet(p.shots)
<1> DEFINE sorted == [k \in DOMAIN p.shots |-> CHOOSE s \in ToSet(p.shots) : s.order = k]
<1>1. InOrder(p) = [shared |-> p.shared, shots |-> sorted]
  <2>1. InOrder(p) = [p EXCEPT !.shots = sorted]
    BY DEF InOrder
  <2> HIDE DEF sorted
  <2>2. QED
    BY <2>1 DEF IsPlan
<1>2. PICK T : p.shots \in Seq(T)
  BY DEF IsPlan, IsSequence
<1>3. \A k \in DOMAIN p.shots : \E s \in ToSet(p.shots) : s.order = k
  BY DEF OrdersContiguous, ToSet
<1>4. \A k \in DOMAIN p.shots : sorted[k] \in ToSet(p.shots) /\ sorted[k].order = k
  BY <1>3
<1>5. DOMAIN sorted = DOMAIN p.shots
  OBVIOUS
<1>6. ASSUME NEW s \in ToSet(p.shots)
      PROVE  s \in ToSet(sorted)
  <2>1. PICK i \in DOMAIN p.shots : s = p.shots[i]
    BY <1>6 DEF ToSet
  <2>2. s.order \in DOMAIN p.shots
    BY <2>1 DEF OrdersContiguous, ToSet
  <2>3. PICK j \in DOMAIN p.shots : sorted[s.order] = p.shots[j]
    BY <1>4, <2>2 DEF ToSet
  <2>4. p.shots[j].order = p.shots[i].order
    BY <1>4, <2>1, <2>2, <2>3
  <2>5. i = j
    BY <2>4 DEF OrdersContiguous, IsInjective
  <2>6. QED
    BY <1>5, <2>1, <2>2, <2>3, <2>5 DEF ToSet
<1>7. ToSet(sorted) = ToSet(p.shots)
  <2> HIDE DEF sorted
  <2>1. ASSUME NEW s \in ToSet(sorted)
        PROVE  s \in ToSet(p.shots)
    BY <1>4, <1>5, <2>1 DEF ToSet
  <2>2. QED
    BY <1>6, <2>1
<1>8. DOMAIN p.shots = 1..Len(p.shots) /\ Len(p.shots) \in Nat
  BY <1>2
<1>9. sorted \in Seq(ToSet(p.shots))
  <2>1. sorted \in [1..Len(p.shots) -> ToSet(p.shots)]
    BY <1>4, <1>8
  <2> HIDE DEF sorted
  <2>2. QED
    BY <1>8, <2>1
<1>10. QED
  <2> HIDE DEF sorted
  <2>1. InOrder(p).shared = p.shared /\ InOrder(p).shots = sorted
    BY <1>1
  <2>2. QED
    BY <1>1, <1>7, <1>9, <2>1 DEF IsPlan, IsSequence

\* Sorting a plan, and moving its generated references, leave its dependencies alone.
LEMMA PlannedKeepsDependencies ==
  ASSUME NEW p, IsPlan(p), OrdersContiguous(p), NEW q \in {InOrder(p), GeneratedFirst(InOrder(p))}
  PROVE  /\ AssetIds(q) = AssetIds(p)
         /\ \A a : DepsOf(q, a) = DepsOf(p, a)
<1> DEFINE o == InOrder(p)
<1>1. /\ IsPlan(o) /\ o.shared = p.shared
      /\ ToSet(o.shots) = ToSet(p.shots)
  BY InOrderKeepsShots
<1>2. ToSet(Items(p)) = ToSet(o.shared) \cup ToSet(o.shots)
  BY <1>1, ItemsOfPlan DEF IsPlan
<1>3. ToSet(Items(o)) = ToSet(o.shared) \cup ToSet(o.shots)
  BY <1>1, ItemsOfPlan DEF IsPlan
<1> HIDE DEF o
<1>4. CASE q = o
  BY <1>2, <1>3, <1>4, SameDependencies
<1>5. CASE q = GeneratedFirst(o)
  <2> DEFINE moved(i) == [o.shots[i] EXCEPT !.refs = MadeFirst(@)]
  <2>1. q = [shared |-> o.shared, shots |-> [i \in DOMAIN o.shots |-> moved(i)]]
    <3> DEFINE all == [i \in DOMAIN o.shots |-> moved(i)]
    <3>1. q = [o EXCEPT !.shots = all]
      BY <1>5 DEF GeneratedFirst
    <3> HIDE DEF all
    <3>2. q = [shared |-> o.shared, shots |-> all]
      BY <1>1, <3>1 DEF IsPlan
    <3>3. QED
      BY <3>2 DEF all
  <2>2. ASSUME NEW i \in DOMAIN o.shots
        PROVE  moved(i).asset = o.shots[i].asset /\ moved(i).deps = o.shots[i].deps
    BY <1>1, <2>2 DEF IsPlan, PlannedShot, ToSet
  <2> HIDE DEF moved
  <2>3. q.shared = o.shared /\ q.shots = [i \in DOMAIN o.shots |-> moved(i)]
    BY <2>1
  <2>4. PICK T : o.shots \in Seq(T)
    BY <1>1 DEF IsPlan, IsSequence
  <2>5. DOMAIN o.shots = 1..Len(o.shots) /\ Len(o.shots) \in Nat
    BY <2>4
  <2>6. q.shots \in Seq({moved(i) : i \in DOMAIN o.shots})
    BY <2>3, <2>5
  <2>7. ToSet(Items(q)) = ToSet(o.shared) \cup ToSet(q.shots)
    BY <1>1, <2>3, <2>6, ItemsOfPlan DEF IsPlan, IsSequence
  <2>8. /\ \A x \in ToSet(q.shots) : \E y \in ToSet(o.shots) : x.asset = y.asset /\ x.deps = y.deps
        /\ \A y \in ToSet(o.shots) : \E x \in ToSet(q.shots) : x.asset = y.asset /\ x.deps = y.deps
    BY <2>2, <2>3 DEF ToSet
  <2>9. /\ \A x \in ToSet(Items(q)) : \E y \in ToSet(Items(p)) : x.asset = y.asset /\ x.deps = y.deps
        /\ \A y \in ToSet(Items(p)) : \E x \in ToSet(Items(q)) : x.asset = y.asset /\ x.deps = y.deps
    BY <1>2, <2>7, <2>8
  <2>10. QED
    BY <2>9, SameDependencies
<1>6. QED
  BY <1>4, <1>5 DEF o

-----------------------------------------------------------------------------
(* The steps                                                                 *)

\* A step that refuses for another reason than a cycle.
LEMMA OtherRefusal ==
  ASSUME IInv, NEW why, why # "cycle", Refuse(why)
  PROVE  IInv'
BY DEF IInv, Refuse, Verdict

LEMMA InitInvariant == PlanInit => IInv
<1> SUFFICES ASSUME PlanInit
             PROVE  IInv
  OBVIOUS
<1>1. CASE phase = "request"
  <2>1. IsSequence(draft.shared)
    <3>1. CASE draft \in Drafts
      BY <3>1, DraftsAssumption DEF IsSequence
    <3>2. CASE draft = DeterministicDraft(input)
      <4>1. draft.shared \in Seq({[asset |-> StyleBible, fact |-> FALSE, visual |-> FALSE]})
        BY <3>2 DEF DeterministicDraft
      <4>2. QED
        BY <4>1 DEF IsSequence
    <3>3. QED
      BY <1>1, <3>1, <3>2 DEF PlanInit
  <2>2. plan = NoPlan
    BY <1>1 DEF PlanInit
  <2>3. IsPlan(NoPlan)
    <3>1. << >> \in Seq({})
      OBVIOUS
    <3>2. QED
      BY <3>1 DEF IsPlan, NoPlan, IsSequence, ToSet
  <2>4. QED
    BY <1>1, <2>1, <2>2, <2>3 DEF IInv, Verdict
<1>2. CASE phase = "check"
  <2>1. IsPlan(plan)
    BY <1>2, CallerPlansAssumption DEF PlanInit, IsPlan, IsSequence
  <2>2. QED
    BY <1>2, <2>1 DEF IInv, Verdict
<1>3. QED
  BY <1>1, <1>2 DEF PlanInit

LEMMA BeginDraftInvariant == IInv /\ BeginDraft => IInv'
<1> SUFFICES ASSUME IInv, BeginDraft
             PROVE  IInv'
  OBVIOUS
<1>1. CASE RequestProblem # "none" /\ Refuse(RequestProblem)
  <2>1. RequestProblem # "cycle"
    BY DEF RequestProblem
  <2>2. QED
    BY <1>1, <2>1, OtherRefusal
<1>2. CASE RequestProblem = "none"
  <2> DEFINE image(k) == SharedAsset(draft.shared[k].asset, << >>, {}, draft.shared[k].fact,
                                     draft.shared[k].visual)
             images == [k \in DOMAIN draft.shared |-> image(k)]
  <2>1. phase' = "drafting" /\ plan' = [shared |-> images, shots |-> << >>]
    BY <1>2 DEF BeginDraft, NoPlan
  <2>2. PICK T : draft.shared \in Seq(T)
    BY DEF IInv, BeginDraft, IsSequence
  <2> HIDE DEF image
  <2>3. images \in Seq({image(k) : k \in DOMAIN draft.shared})
    BY <2>2
  <2>4. << >> \in Seq({})
    OBVIOUS
  <2> HIDE DEF images
  <2>5. IsPlan(plan')
    BY <2>1, <2>3, <2>4 DEF IsPlan, IsSequence, ToSet
  <2>6. QED
    BY <2>1, <2>5 DEF IInv, Verdict
<1>3. QED
  BY <1>1, <1>2 DEF BeginDraft

LEMMA DraftShotInvariant == IInv /\ DraftShot => IInv'
<1> SUFFICES ASSUME IInv, DraftShot
             PROVE  IInv'
  OBVIOUS
<1>1. CASE ShotProblem(NextShot) # "none" /\ Refuse(ShotProblem(NextShot))
  <2>1. ShotProblem(NextShot) # "cycle"
    BY DEF ShotProblem
  <2>2. QED
    BY <1>1, <2>1, OtherRefusal
<1>2. CASE ShotProblem(NextShot) = "none"
  <2>1. /\ phase = "drafting" /\ phase' = "drafting"
        /\ plan' = [plan EXCEPT !.shots = Append(@, NextShot)]
    BY <1>2 DEF DraftShot
  <2>2. IsPlan(plan)
    BY <2>1 DEF IInv
  <2>3. PICK T : plan.shots \in Seq(T)
    BY <2>2 DEF IsPlan, IsSequence
  <2>4. NextShot = PlannedShot(NextShot.id, NextShot.order, NextShot.asset, NextShot.previous,
                               NextShot.refs, NextShot.deps)
    BY DEF NextShot, PlannedShot
  <2> HIDE DEF NextShot
  <2>5. plan' = [shared |-> plan.shared, shots |-> Append(plan.shots, NextShot)]
    BY <2>1, <2>2 DEF IsPlan
  <2>6. plan'.shared = plan.shared /\ plan'.shots = Append(plan.shots, NextShot)
    BY <2>5
  <2>7. Append(plan.shots, NextShot) \in Seq(T \cup {NextShot})
    BY <2>3
  <2>8. \A s \in ToSet(Append(plan.shots, NextShot)) : s \in ToSet(plan.shots) \/ s = NextShot
    BY <2>3 DEF ToSet
  <2>9. IsPlan(plan')
    BY <2>2, <2>4, <2>5, <2>6, <2>7, <2>8 DEF IsPlan, IsSequence
  <2>10. QED
    BY <2>1, <2>9 DEF IInv, Verdict
<1>3. QED
  BY <1>1, <1>2 DEF DraftShot

LEMMA EndDraftInvariant == IInv /\ EndDraft => IInv'
BY DEF IInv, EndDraft, Verdict

LEMMA CheckGraphInvariant == IInv /\ CheckGraph => IInv'
<1> SUFFICES ASSUME IInv, CheckGraph
             PROVE  IInv'
  OBVIOUS
<1>1. CASE Problem(plan) # "none" /\ Refuse(Problem(plan))
  <2>1. Problem(plan) # "cycle"
    BY DEF Problem
  <2>2. QED
    BY <1>1, <2>1, OtherRefusal
<1>2. CASE Problem(plan) = "none"
  <2>1. /\ phase = "check" /\ phase' = "resolve" /\ plan' = plan
        /\ remaining' = AssetIds(plan) /\ resolved' = {}
    BY <1>2 DEF CheckGraph
  <2>2. DependenciesKnown(plan) /\ OrdersContiguous(plan)
    BY <1>2 DEF Problem
  <2>3. Layered'
    BY <2>1 DEF Layered
  <2>4. QED
    BY <2>1, <2>2, <2>3 DEF IInv, Verdict
<1>3. QED
  BY <1>1, <1>2 DEF CheckGraph

\* What the plan makes is all that its images wait for.
LEMMA DepsInside ==
  ASSUME NEW p, DependenciesKnown(p)
  PROVE  \A a : DepsOf(p, a) \subseteq AssetIds(p)
BY DEF DependenciesKnown, DepsOf

LEMMA ResolveLayerInvariant == IInv /\ ResolveLayer => IInv'
<1> SUFFICES ASSUME IInv, ResolveLayer
             PROVE  IInv'
  OBVIOUS
<1>1. /\ phase = "resolve" /\ remaining # {}
      /\ IsPlan(plan) /\ DependenciesKnown(plan) /\ OrdersContiguous(plan)
      /\ remaining \cup resolved = AssetIds(plan)
      /\ \A S \in SUBSET AssetIds(plan) : Cycle(plan, S) => S \cap resolved = {}
  BY DEF ResolveLayer, IInv, Layered
<1>2. CASE Ready = {} /\ Refuse("cycle")
  <2>1. phase' = "refused" /\ reason' = "cycle" /\ plan' = plan
    BY <1>2 DEF Refuse
  <2>2. Cycle(plan, remaining)
    <3>1. ASSUME NEW a \in remaining
          PROVE  DepsOf(plan, a) \cap remaining # {}
      <4>1. PICK d \in DepsOf(plan, a) : d \notin resolved
        BY <1>2, <3>1 DEF Ready
      <4>2. d \in AssetIds(plan)
        BY <1>1, <4>1, DepsInside
      <4>3. QED
        BY <1>1, <4>1, <4>2
    <3>2. QED
      BY <1>1, <3>1 DEF Cycle
  <2>3. remaining \in SUBSET AssetIds(plan)
    BY <1>1
  <2>4. QED
    BY <2>1, <2>2, <2>3 DEF IInv, Verdict
<1>3. CASE Ready # {}
  <2>1. /\ phase' = "resolve" /\ plan' = plan
        /\ resolved' = resolved \cup Ready /\ remaining' = remaining \ Ready
    BY <1>1, <1>3 DEF ResolveLayer
  <2>2. ASSUME NEW S \in SUBSET AssetIds(plan), Cycle(plan, S), NEW a \in S \cap resolved'
        PROVE  FALSE
    <3>1. S \cap resolved = {}
      BY <1>1, <2>2
    <3>2. a \in Ready
      BY <2>1, <2>2, <3>1
    <3>3. DepsOf(plan, a) \subseteq resolved
      BY <3>2 DEF Ready
    <3>4. DepsOf(plan, a) \cap S # {}
      BY <2>2 DEF Cycle
    <3>5. QED
      BY <3>1, <3>3, <3>4
  <2>3. remaining' \cup resolved' = AssetIds(plan)
    BY <1>1, <2>1 DEF Ready
  <2>4. Layered'
    BY <2>1, <2>2, <2>3 DEF Layered
  <2>5. QED
    BY <1>1, <2>1, <2>4 DEF IInv, Verdict
<1>4. QED
  BY <1>2, <1>3 DEF ResolveLayer

LEMMA AcceptInvariant == IInv /\ Accept => IInv'
<1> SUFFICES ASSUME IInv, Accept
             PROVE  IInv'
  OBVIOUS
<1>1. /\ phase' = "planned" /\ remaining = {}
      /\ plan' \in {InOrder(plan), GeneratedFirst(InOrder(plan))}
  BY DEF Accept
<1>2. /\ IsPlan(plan) /\ DependenciesKnown(plan) /\ OrdersContiguous(plan)
      /\ resolved = AssetIds(plan)
      /\ \A S \in SUBSET AssetIds(plan) : Cycle(plan, S) => S \cap resolved = {}
  BY DEF Accept, IInv, Layered
<1>3. AssetIds(plan') = AssetIds(plan) /\ \A a : DepsOf(plan', a) = DepsOf(plan, a)
  BY <1>1, <1>2, PlannedKeepsDependencies
<1>4. ASSUME NEW S \in SUBSET AssetIds(plan')
      PROVE  ~Cycle(plan', S)
  <2>1. Cycle(plan', S) = Cycle(plan, S)
    BY <1>3 DEF Cycle
  <2>2. QED
    BY <1>2, <1>3, <1>4, <2>1 DEF Cycle
<1>5. \A a : DepsOf(plan', a) \subseteq AssetIds(plan')
  BY <1>2, <1>3, DepsInside
<1>6. QED
  BY <1>1, <1>4, <1>5 DEF IInv, Verdict

-----------------------------------------------------------------------------
(* Plans can be made                                                         *)

LEMMA AlwaysIInv == Spec => []IInv
<1>1. Init => IInv
  BY InitInvariant DEF Init
<1>2. IInv /\ [(PlanNext /\ UNCHANGED compileVars) \/ CompileNext]_vars => IInv'
  <2> SUFFICES ASSUME IInv, [(PlanNext /\ UNCHANGED compileVars) \/ CompileNext]_vars
               PROVE  IInv'
    OBVIOUS
  <2>1. CASE PlanNext
    BY <2>1, BeginDraftInvariant, DraftShotInvariant, EndDraftInvariant, CheckGraphInvariant,
       ResolveLayerInvariant, AcceptInvariant DEF PlanNext
  <2>2. CASE UNCHANGED planVars
    BY <2>2 DEF planVars, IInv, Verdict, Layered
  <2>3. CompileNext => UNCHANGED planVars
    BY Zenon DEF CompileNext, BeginCompile, Fail, UiShot, UiEnd, ApiShot, ApiEnd
  <2>4. QED
    BY <2>1, <2>2, <2>3 DEF vars
<1>3. QED
  BY <1>1, <1>2, PTL DEF Spec

\* A plan is accepted only if its images can all be made, whatever set of them one looks at, and
\* refused for a cycle only if it has one, for any requests, drafts and plans of callers.
THEOREM PlansCanBeMade == Spec => []Verdict
<1>1. IInv => Verdict
  BY DEF IInv
<1> QED BY <1>1, AlwaysIInv, PTL

-----------------------------------------------------------------------------
(* Induction, and folds over sequences                                       *)

\* A set of numbers up to n that has 0, and with each number the next one, has all.
LEMMA UpTo ==
  ASSUME NEW n \in Nat, NEW S, 0 \in S, \A i \in 1..n : i - 1 \in S => i \in S
  PROVE  \A i \in 0..n : i \in S
<1> DEFINE T == {i \in 0..n : i \notin S}
<1>1. SUFFICES ASSUME T # {} PROVE FALSE
  OBVIOUS
<1>2. T \in SUBSET Nat
  OBVIOUS
<1>3. PICK m \in T : \A i \in T : m <= i
  <2>1. PICK m \in T : \A i \in T : ~(<<i, m>> \in OpToRel(<, Nat))
    BY <1>1, <1>2, NatLessThanWellFounded, WFMin
  <2>2. ASSUME NEW i \in T PROVE m <= i
    <3>1. i \in Nat /\ m \in Nat
      BY <1>2
    <3>2. i < m => <<i, m>> \in OpToRel(<, Nat)
      BY <3>1 DEF OpToRel
    <3> HIDE DEF T
    <3>3. ~(<<i, m>> \in OpToRel(<, Nat))
      BY <2>1, <2>2
    <3>4. ~(i < m)
      BY <3>2, <3>3
    <3> QED BY <3>1, <3>4
  <2> QED BY <2>2
<1>4. m \in 1..n /\ m - 1 \in 0..n
  OBVIOUS
<1>5. m - 1 \notin T
  BY <1>3, <1>4
<1> QED BY <1>4, <1>5

\* A set of positions has a greatest one.
LEMMA GreatestExists ==
  ASSUME NEW n \in Nat, NEW s \in SUBSET (1..n), s # {}
  PROVE  \E y \in s : \A z \in s : y >= z
<1> DEFINE S == {i \in 0..n : \A x \in SUBSET (1..i) : x # {} => \E y \in x : \A z \in x : y >= z}
<1>1. 0 \in S
  <2>1. \A x \in SUBSET (1..0) : x = {}
    OBVIOUS
  <2>2. \A x \in SUBSET (1..0) : x # {} => \E y \in x : \A z \in x : y >= z
    BY <2>1
  <2>3. 0 \in 0..n
    OBVIOUS
  <2> QED BY <2>2, <2>3
<1>2. ASSUME NEW i \in 1..n, i - 1 \in S PROVE i \in S
  <2>1. ASSUME NEW x \in SUBSET (1..i), x # {} PROVE \E y \in x : \A z \in x : y >= z
    <3>1. CASE i \in x
      BY <3>1
    <3>2. CASE i \notin x
      <4>1. x \in SUBSET (1..(i - 1))
        BY <3>2
      <4> QED BY <1>2, <2>1, <4>1
    <3> QED BY <3>1, <3>2
  <2> QED BY <2>1
<1>3. n \in S
  <2> HIDE DEF S
  <2> QED BY <1>1, <1>2, UpTo
<1> QED BY <1>3

\* The greatest element of an initial segment.
LEMMA Initial ==
  ASSUME NEW i \in Nat, i # 0
  PROVE  Max(1..i) = i /\ (1..i) \ {i} = 1..(i - 1) /\ 1..i # {}
<1>1. i \in 1..i /\ \A y \in 1..i : i >= y
  OBVIOUS
<1>2. ASSUME NEW x \in 1..i, \A y \in 1..i : x >= y PROVE x = i
  BY <1>1, <1>2
<1> QED BY <1>1, <1>2 DEF Max

\* g is what op makes of every set of positions, its greatest one last.
Folding(g, n, base, op) ==
  \A s \in SUBSET (1..n) : g[s] = IF s = {} THEN base ELSE op[<<g[s \ {Max(s)}], Max(s)>>]

LEMMA FoldExists ==
  ASSUME NEW n \in Nat, NEW A, NEW base \in A, NEW op \in [A \X (1..n) -> A]
  PROVE  \E g \in [SUBSET (1..n) -> A] : Folding(g, n, base, op)
<1> DEFINE Good(g, m) == \A s \in SUBSET (1..m) :
                           g[s] = IF s = {} THEN base ELSE op[<<g[s \ {Max(s)}], Max(s)>>]
           S == {m \in 0..n : \E g \in [SUBSET (1..m) -> A] : Good(g, m)}
<1>1. 0 \in S
  <2> DEFINE g == [s \in SUBSET (1..0) |-> base]
  <2>1. \A s \in SUBSET (1..0) : s = {}
    OBVIOUS
  <2>2. g \in [SUBSET (1..0) -> A] /\ Good(g, 0)
    BY <2>1
  <2>3. 0 \in 0..n
    OBVIOUS
  <2> HIDE DEF g, Good
  <2> QED BY <2>2, <2>3
<1>2. ASSUME NEW m \in 1..n, m - 1 \in S PROVE m \in S
  <2>1. PICK g \in [SUBSET (1..(m - 1)) -> A] : Good(g, m - 1)
    BY <1>2
  <2> DEFINE f == [s \in SUBSET (1..m) |-> IF m \in s THEN op[<<g[s \ {m}], m>>] ELSE g[s]]
  <2>2. ASSUME NEW s \in SUBSET (1..m) PROVE s \ {m} \in SUBSET (1..(m - 1))
    BY <2>2
  <2>3. f \in [SUBSET (1..m) -> A]
    <3>1. ASSUME NEW s \in SUBSET (1..m) PROVE (IF m \in s THEN op[<<g[s \ {m}], m>>] ELSE g[s]) \in A
      <4>1. CASE m \in s
        <5>1. g[s \ {m}] \in A
          BY <2>1, <2>2
        <5> QED BY <4>1, <5>1
      <4>2. CASE m \notin s
        <5>1. s \in SUBSET (1..(m - 1))
          BY <2>2, <4>2
        <5> QED BY <2>1, <4>2, <5>1
      <4> QED BY <4>1, <4>2
    <3> QED BY <3>1
  <2>4. ASSUME NEW s \in SUBSET (1..m)
        PROVE  f[s] = IF s = {} THEN base ELSE op[<<f[s \ {Max(s)}], Max(s)>>]
    <3>1. CASE m \in s
      <4>1. Max(s) = m
        <5>1. \A y \in s : m >= y
          OBVIOUS
        <5>2. \A x \in s : (\A y \in s : x >= y) => x = m
          BY <3>1, <5>1
        <5> QED BY <3>1, <5>1, <5>2 DEF Max
      <4>2. f[s \ {m}] = g[s \ {m}]
        BY <2>2
      <4> QED BY <3>1, <4>1, <4>2
    <3>2. CASE m \notin s
      <4>1. s \in SUBSET (1..(m - 1)) /\ f[s] = g[s]
        BY <2>2, <3>2
      <4>2. f[s \ {Max(s)}] = g[s \ {Max(s)}]
        BY <3>2
      <4> QED BY <2>1, <4>1, <4>2
    <3> QED BY <3>1, <3>2
  <2> HIDE DEF f
  <2>5. Good(f, m)
    BY <2>4
  <2>6. m \in 0..n
    OBVIOUS
  <2> HIDE DEF Good
  <2> QED BY <2>3, <2>5, <2>6
<1>3. n \in S
  <2> HIDE DEF S
  <2> QED BY <1>1, <1>2, UpTo
<1>4. PICK g \in [SUBSET (1..n) -> A] : Good(g, n)
  BY <1>3
<1>5. Folding(g, n, base, op)
  BY <1>4 DEF Folding
<1> QED BY <1>5

-----------------------------------------------------------------------------
(* Lists that are filtered                                                   *)

\* The function that FoldLeft chooses for a filter of s at the positions I.
Keeps(f, s, I) ==
  f = [x \in SUBSET DOMAIN s |->
         IF x = {} THEN << >>
         ELSE IF Max(x) \in I THEN Append(f[x \ {Max(x)}], s[Max(x)]) ELSE f[x \ {Max(x)}]]

\* k lists what s has at the positions I, in some order.
Kept(k, s, I) ==
  \E m \in Nat : \E p \in Bijection(1..m, I) : k = [j \in 1..m |-> s[p[j]]]

LEMMA KeepsExists ==
  ASSUME NEW T, NEW s \in Seq(T), NEW I
  PROVE  \E f : Keeps(f, s, I)
<1>1. PICK n \in Nat : DOMAIN s = 1..n /\ \A i \in 1..n : s[i] \in T
  <2>1. Len(s) \in Nat /\ DOMAIN s = 1..Len(s) /\ \A i \in 1..Len(s) : s[i] \in T
    OBVIOUS
  <2> QED BY <2>1
<1>2. PICK A : A = Seq(T)
  OBVIOUS
<1>3. PICK op \in [A \X (1..n) -> A] :
        \A a \in A : \A i \in 1..n : op[<<a, i>>] = IF i \in I THEN Append(a, s[i]) ELSE a
  <2> DEFINE h == [q \in A \X (1..n) |-> IF q[2] \in I THEN Append(q[1], s[q[2]]) ELSE q[1]]
  <2>1. h \in [A \X (1..n) -> A]
    BY <1>1, <1>2
  <2>2. \A a \in A : \A i \in 1..n : h[<<a, i>>] = IF i \in I THEN Append(a, s[i]) ELSE a
    OBVIOUS
  <2> HIDE DEF h
  <2> QED BY <2>1, <2>2
<1>4. PICK base \in A : base = << >>
  <2>1. << >> \in Seq(T)
    OBVIOUS
  <2> QED BY <1>2, <2>1
<1>5. PICK g \in [SUBSET (1..n) -> A] : Folding(g, n, base, op)
  BY FoldExists
<1>6. ASSUME NEW x \in SUBSET (1..n), x # {}
      PROVE  Max(x) \in 1..n /\ x \ {Max(x)} \in SUBSET (1..n)
  <2>1. \E y \in x : \A z \in x : y >= z
    BY <1>1, <1>6, GreatestExists
  <2> QED BY <2>1 DEF Max
<1>7. \A x \in SUBSET (1..n) :
        g[x] = IF x = {} THEN << >>
               ELSE IF Max(x) \in I THEN Append(g[x \ {Max(x)}], s[Max(x)]) ELSE g[x \ {Max(x)}]
  BY <1>3, <1>4, <1>5, <1>6 DEF Folding
<1>8. g = [x \in SUBSET (1..n) |-> g[x]]
  BY <1>5
<1>9. Keeps(g, s, I)
  BY <1>1, <1>7, <1>8 DEF Keeps
<1> QED BY <1>9, SMTT(30)

\* What such a function makes of all positions.
LEMMA KeepsDoes ==
  ASSUME NEW T, NEW s \in Seq(T), NEW I \in SUBSET DOMAIN s, NEW f, Keeps(f, s, I)
  PROVE  Kept(f[DOMAIN s], s, I)
<1>1. PICK n \in Nat : n = Len(s) /\ DOMAIN s = 1..n /\ \A i \in 1..n : s[i] \in T
  <2>1. Len(s) \in Nat /\ DOMAIN s = 1..Len(s) /\ \A i \in 1..Len(s) : s[i] \in T
    OBVIOUS
  <2> QED BY <2>1, Zenon
<1> DEFINE Good(i) == Kept(f[1..i], s, I \cap 1..i)
           S == {i \in 0..n : Good(i)}
<1>2. \A i \in 0..n : 1..i \in SUBSET DOMAIN s
  BY <1>1
<1>3. 0 \in S
  <2>1. 1..0 = {} /\ 1..0 \in SUBSET DOMAIN s
    OBVIOUS
  <2>2. f[1..0] = << >>
    BY <2>1 DEF Keeps
  <2> DEFINE p == [j \in 1..0 |-> 0]
  <2>3. I \cap 1..0 = {} /\ p \in [1..0 -> {}] /\ \A a : a \notin 1..0
    OBVIOUS
  <2>4. p \in Bijection(1..0, I \cap 1..0)
    BY <2>3 DEF Bijection, Injection, Surjection, IsInjective
  <2>5. << >> = [j \in 1..0 |-> s[p[j]]] /\ 0 \in Nat
    OBVIOUS
  <2> HIDE DEF p
  <2>6. Good(0)
    BY <2>2, <2>4, <2>5 DEF Kept
  <2>7. 0 \in 0..n
    BY <1>1
  <2> HIDE DEF Good
  <2> QED BY <2>6, <2>7
<1>4. ASSUME NEW i \in 1..n, i - 1 \in S PROVE i \in S
  <2>1. i \in Nat /\ i # 0 /\ 1..i \in SUBSET DOMAIN s
    BY <1>1
  <2>2. f[1..i] = IF i \in I THEN Append(f[1..(i - 1)], s[i]) ELSE f[1..(i - 1)]
    <3>1. PICK x : x = 1..i
      OBVIOUS
    <3>2. x \in SUBSET DOMAIN s /\ x # {} /\ Max(x) = i /\ x \ {i} = 1..(i - 1)
      BY <2>1, <3>1, Initial
    <3>3. f[x] = IF i \in I THEN Append(f[x \ {i}], s[i]) ELSE f[x \ {i}]
      BY <3>2 DEF Keeps
    <3> QED BY <3>1, <3>2, <3>3
  <2>3. PICK m \in Nat : \E p \in Bijection(1..m, I \cap 1..(i - 1)) :
                           f[1..(i - 1)] = [j \in 1..m |-> s[p[j]]]
    BY <1>4 DEF Kept
  <2>4. PICK p \in Bijection(1..m, I \cap 1..(i - 1)) : f[1..(i - 1)] = [j \in 1..m |-> s[p[j]]]
    BY <2>3
  <2>5. /\ p \in [1..m -> I \cap 1..(i - 1)]
        /\ \A a, b \in 1..m : p[a] = p[b] => a = b
        /\ \A x \in I \cap 1..(i - 1) : \E a \in 1..m : p[a] = x
    BY DEF Bijection, Injection, Surjection, IsInjective
  <2> SUFFICES Good(i)
    <3>1. i \in 0..n
      BY <1>1
    <3> HIDE DEF Good
    <3> QED BY <3>1
  <2>6. CASE i \in I
    <3> DEFINE q == [j \in 1..(m + 1) |-> IF j = m + 1 THEN i ELSE p[j]]
    <3>1. \A j \in 1..(m + 1) : j # m + 1 => j \in 1..m
      OBVIOUS
    <3>2. q \in [1..(m + 1) -> I \cap 1..i]
      BY <2>5, <2>6, <3>1
    <3>3. \A a, b \in 1..(m + 1) : q[a] = q[b] => a = b
      <4>1. \A a \in 1..m : p[a] # i
        BY <2>5
      <4> QED BY <2>5, <3>1, <4>1
    <3>4. ASSUME NEW x \in I \cap 1..i PROVE \E a \in 1..(m + 1) : q[a] = x
      <4>1. CASE x = i
        BY <4>1
      <4>2. CASE x # i
        <5>1. x \in I \cap 1..(i - 1)
          BY <4>2
        <5>2. PICK a \in 1..m : p[a] = x
          BY <2>5, <5>1
        <5>3. a \in 1..(m + 1) /\ a # m + 1
          OBVIOUS
        <5> QED BY <5>2, <5>3
      <4> QED BY <4>1, <4>2
    <3>5. q \in Bijection(1..(m + 1), I \cap 1..i)
      BY <3>2, <3>3, <3>4 DEF Bijection, Injection, Surjection, IsInjective
    <3>6. f[1..i] = [j \in 1..(m + 1) |-> s[q[j]]]
      <4>1. f[1..(i - 1)] \in Seq(T) /\ Len(f[1..(i - 1)]) = m
        BY <1>1, <2>4, <2>5
      <4>2. s[i] \in T
        BY <1>1
      <4> QED BY <2>2, <2>4, <2>6, <3>1, <4>1, <4>2
    <3>7. m + 1 \in Nat
      OBVIOUS
    <3> HIDE DEF q
    <3> QED BY <3>5, <3>6, <3>7 DEF Kept
  <2>7. CASE i \notin I
    <3>1. I \cap 1..i = I \cap 1..(i - 1)
      BY <2>7
    <3>2. f[1..i] = f[1..(i - 1)]
      BY <2>2, <2>7
    <3>3. Good(i - 1)
      BY <1>4
    <3> QED BY <3>1, <3>2, <3>3
  <2> QED BY <2>6, <2>7
<1>5. n \in S
  <2> HIDE DEF S, Good
  <2>1. \A i \in 1..n : i - 1 \in S => i \in S
    BY <1>4
  <2>2. \A i \in 0..n : i \in S
    BY <1>3, <2>1, UpTo, Zenon
  <2> QED BY <2>2
<1>6. I \cap 1..n = I
  BY <1>1
<1> QED BY <1>1, <1>5, <1>6, Zenon

\* A set of positions that is not empty has its greatest one, and the others are positions.
LEMMA GreatestPosition ==
  ASSUME NEW T, NEW s \in Seq(T), NEW x \in SUBSET DOMAIN s, x # {}
  PROVE  Max(x) \in DOMAIN s /\ Max(x) \in x /\ x \ {Max(x)} \in SUBSET DOMAIN s
<1>1. PICK n \in Nat : DOMAIN s = 1..n
  <2>1. Len(s) \in Nat /\ DOMAIN s = 1..Len(s)
    OBVIOUS
  <2> QED BY <2>1, Zenon
<1>2. \E y \in x : \A z \in x : y >= z
  BY <1>1, GreatestExists
<1> QED BY <1>2 DEF Max

LEMMA OnlyMade ==
  ASSUME NEW T, NEW refs \in Seq(T)
  PROVE  Kept(Only(refs, LAMBDA r : r.made), refs, {i \in DOMAIN refs : refs[i].made})
<1> DEFINE I == {i \in DOMAIN refs : refs[i].made}
           P(f) == f = [x \in SUBSET DOMAIN refs |->
                          IF x = {} THEN << >>
                          ELSE IF refs[Max(x)].made THEN Append(f[x \ {Max(x)}], refs[Max(x)])
                               ELSE f[x \ {Max(x)}]]
<1>1. ASSUME NEW f PROVE P(f) <=> Keeps(f, refs, I)
  <2>1. \A x \in SUBSET DOMAIN refs : x # {} => (Max(x) \in I <=> refs[Max(x)].made)
    BY GreatestPosition
  <2> HIDE DEF I
  <2> QED BY <2>1 DEF Keeps
<1>2. Only(refs, LAMBDA r : r.made) = (CHOOSE f : P(f))[DOMAIN refs]
  BY DEF Only, FoldLeft, MapThenFoldSet
<1> HIDE DEF P
<1>3. P(CHOOSE f : P(f))
  <2>1. \E f : P(f)
    BY <1>1, KeepsExists
  <2> QED BY <2>1, Zenon
<1>4. PICK f : f = CHOOSE g : P(g)
  OBVIOUS
<1>5. Keeps(f, refs, I)
  BY <1>1, <1>3, <1>4
<1>6. I \in SUBSET DOMAIN refs
  OBVIOUS
<1> HIDE DEF I
<1>7. Kept(f[DOMAIN refs], refs, I)
  BY <1>5, <1>6, KeepsDoes
<1> QED BY <1>2, <1>4, <1>7 DEF I

LEMMA OnlyGiven ==
  ASSUME NEW T, NEW refs \in Seq(T)
  PROVE  Kept(Only(refs, LAMBDA r : ~r.made), refs, {i \in DOMAIN refs : ~refs[i].made})
<1> DEFINE I == {i \in DOMAIN refs : ~refs[i].made}
           P(f) == f = [x \in SUBSET DOMAIN refs |->
                          IF x = {} THEN << >>
                          ELSE IF ~refs[Max(x)].made THEN Append(f[x \ {Max(x)}], refs[Max(x)])
                               ELSE f[x \ {Max(x)}]]
<1>1. ASSUME NEW f PROVE P(f) <=> Keeps(f, refs, I)
  <2>1. \A x \in SUBSET DOMAIN refs : x # {} => (Max(x) \in I <=> ~refs[Max(x)].made)
    BY GreatestPosition
  <2> HIDE DEF I
  <2> QED BY <2>1 DEF Keeps
<1>2. Only(refs, LAMBDA r : ~r.made) = (CHOOSE f : P(f))[DOMAIN refs]
  BY DEF Only, FoldLeft, MapThenFoldSet
<1> HIDE DEF P
<1>3. P(CHOOSE f : P(f))
  <2>1. \E f : P(f)
    BY <1>1, KeepsExists
  <2> QED BY <2>1, Zenon
<1>4. PICK f : f = CHOOSE g : P(g)
  OBVIOUS
<1>5. Keeps(f, refs, I)
  BY <1>1, <1>3, <1>4
<1>6. I \in SUBSET DOMAIN refs
  OBVIOUS
<1> HIDE DEF I
<1>7. Kept(f[DOMAIN refs], refs, I)
  BY <1>5, <1>6, KeepsDoes
<1> QED BY <1>2, <1>4, <1>7 DEF I

Mentioned(refs, list) == Only(refs, LAMBDA r : Contains(list, r))

LEMMA OnlyOf ==
  ASSUME NEW T, NEW refs \in Seq(T), NEW list
  PROVE  Kept(Mentioned(refs, list), refs, {i \in DOMAIN refs : Contains(list, refs[i])})
<1> DEFINE I == {i \in DOMAIN refs : Contains(list, refs[i])}
           P(f) == f = [x \in SUBSET DOMAIN refs |->
                          IF x = {} THEN << >>
                          ELSE IF Contains(list, refs[Max(x)]) THEN Append(f[x \ {Max(x)}], refs[Max(x)])
                               ELSE f[x \ {Max(x)}]]
<1>1. ASSUME NEW f PROVE P(f) <=> Keeps(f, refs, I)
  <2>1. \A x \in SUBSET DOMAIN refs : x # {} => (Max(x) \in I <=> Contains(list, refs[Max(x)]))
    BY GreatestPosition
  <2> HIDE DEF I
  <2> QED BY <2>1 DEF Keeps
<1>2. Mentioned(refs, list) = (CHOOSE f : P(f))[DOMAIN refs]
  BY DEF Mentioned, Only, FoldLeft, MapThenFoldSet
<1> HIDE DEF P
<1>3. P(CHOOSE f : P(f))
  <2>1. \E f : P(f)
    BY <1>1, KeepsExists
  <2> QED BY <2>1, Zenon
<1>4. PICK f : f = CHOOSE g : P(g)
  OBVIOUS
<1>5. Keeps(f, refs, I)
  BY <1>1, <1>3, <1>4
<1>6. I \in SUBSET DOMAIN refs
  OBVIOUS
<1> HIDE DEF I
<1>7. Kept(f[DOMAIN refs], refs, I)
  BY <1>5, <1>6, KeepsDoes
<1> QED BY <1>2, <1>4, <1>7 DEF I

\* What is kept is a list again.
LEMMA KeptList ==
  ASSUME NEW T, NEW s \in Seq(T), NEW I \in SUBSET DOMAIN s, NEW k, Kept(k, s, I)
  PROVE  k \in Seq(T)
<1>1. PICK m \in Nat : \E p \in Bijection(1..m, I) : k = [j \in 1..m |-> s[p[j]]]
  BY DEF Kept
<1>2. PICK p \in Bijection(1..m, I) : k = [j \in 1..m |-> s[p[j]]]
  BY <1>1
<1>3. p \in [1..m -> I]
  BY DEF Bijection, Injection
<1>4. \A i \in DOMAIN s : s[i] \in T
  OBVIOUS
<1>5. \A j \in 1..m : s[p[j]] \in T
  BY <1>3, <1>4
<1> QED BY <1>2, <1>5

LEMMA ConcatAt ==
  ASSUME NEW T, NEW s \in Seq(T), NEW t \in Seq(T)
  PROVE  LET u == s \o t IN
         /\ u \in Seq(T) /\ Len(u) = Len(s) + Len(t) /\ DOMAIN u = 1..(Len(s) + Len(t))
         /\ \A j \in 1..Len(s) : u[j] = s[j]
         /\ \A j \in 1..(Len(s) + Len(t)) : j > Len(s) => u[j] = t[j - Len(s)]
OBVIOUS

\* What is kept at some positions and what is kept at the others are together all, in another order.
LEMMA KeptApart ==
  ASSUME NEW T, NEW s \in Seq(T), NEW I \in SUBSET DOMAIN s,
         NEW a, Kept(a, s, I), NEW b, Kept(b, s, DOMAIN s \ I)
  PROVE  Kept(a \o b, s, DOMAIN s)
<1>1. PICK m \in Nat : \E p \in Bijection(1..m, I) : a = [j \in 1..m |-> s[p[j]]]
  BY DEF Kept
<1>2. PICK p \in Bijection(1..m, I) : a = [j \in 1..m |-> s[p[j]]]
  BY <1>1
<1>3. PICK n \in Nat : \E q \in Bijection(1..n, DOMAIN s \ I) : b = [j \in 1..n |-> s[q[j]]]
  BY DEF Kept
<1>4. PICK q \in Bijection(1..n, DOMAIN s \ I) : b = [j \in 1..n |-> s[q[j]]]
  BY <1>3
<1>5. /\ p \in [1..m -> I]
      /\ \A x, y \in 1..m : p[x] = p[y] => x = y
      /\ \A x \in I : \E y \in 1..m : p[y] = x
  BY DEF Bijection, Injection, Surjection, IsInjective
<1>6. /\ q \in [1..n -> DOMAIN s \ I]
      /\ \A x, y \in 1..n : q[x] = q[y] => x = y
      /\ \A x \in DOMAIN s \ I : \E y \in 1..n : q[y] = x
  BY DEF Bijection, Injection, Surjection, IsInjective
<1> DEFINE r == [j \in 1..(m + n) |-> IF j <= m THEN p[j] ELSE q[j - m]]
<1>7. ASSUME NEW j \in 1..(m + n)
      PROVE  /\ j <= m => j \in 1..m
             /\ ~(j <= m) => j - m \in 1..n
  OBVIOUS
<1>8. r \in [1..(m + n) -> DOMAIN s]
  BY <1>5, <1>6, <1>7
<1>9. ASSUME NEW x \in 1..(m + n), NEW y \in 1..(m + n), r[x] = r[y] PROVE x = y
  <2>1. CASE x <= m /\ y <= m
    BY <1>5, <1>7, <1>9, <2>1
  <2>2. CASE ~(x <= m) /\ ~(y <= m)
    <3>1. q[x - m] = q[y - m] /\ x - m \in 1..n /\ y - m \in 1..n
      BY <1>7, <1>9, <2>2
    <3>2. x - m = y - m
      BY <1>6, <3>1
    <3> QED BY <3>2
  <2>3. CASE x <= m /\ ~(y <= m)
    BY <1>5, <1>6, <1>7, <1>9, <2>3
  <2>4. CASE ~(x <= m) /\ y <= m
    BY <1>5, <1>6, <1>7, <1>9, <2>4
  <2> QED BY <2>1, <2>2, <2>3, <2>4
<1>10. ASSUME NEW i \in DOMAIN s PROVE \E x \in 1..(m + n) : r[x] = i
  <2>1. CASE i \in I
    <3>1. PICK y \in 1..m : p[y] = i
      BY <1>5, <2>1
    <3>2. y \in 1..(m + n) /\ y <= m
      OBVIOUS
    <3> QED BY <3>1, <3>2
  <2>2. CASE i \notin I
    <3>1. PICK y \in 1..n : q[y] = i
      BY <1>6, <2>2
    <3>2. y + m \in 1..(m + n) /\ ~(y + m <= m) /\ (y + m) - m = y
      OBVIOUS
    <3> QED BY <3>1, <3>2
  <2> QED BY <2>1, <2>2
<1>11. r \in Bijection(1..(m + n), DOMAIN s)
  <2> HIDE DEF r
  <2> QED BY <1>8, <1>9, <1>10 DEF Bijection, Injection, Surjection, IsInjective
<1>12. a \o b = [j \in 1..(m + n) |-> s[r[j]]]
  <2>1. a \in Seq(T) /\ b \in Seq(T)
    BY KeptList
  <2>2. Len(a) = m /\ Len(b) = n
    BY <1>2, <1>4
  <2>3. PICK u : u = a \o b
    OBVIOUS
  <2>4. /\ u \in Seq(T) /\ DOMAIN u = 1..(m + n)
        /\ \A j \in 1..m : u[j] = a[j]
        /\ \A j \in 1..(m + n) : j > m => u[j] = b[j - m]
    BY <2>1, <2>2, <2>3, ConcatAt
  <2>5. \A j \in 1..(m + n) : u[j] = s[r[j]]
    <3>1. ASSUME NEW j \in 1..(m + n), j <= m PROVE u[j] = s[r[j]]
      BY <1>2, <1>7, <2>4, <3>1
    <3>2. ASSUME NEW j \in 1..(m + n), ~(j <= m) PROVE u[j] = s[r[j]]
      BY <1>4, <1>7, <2>4, <3>2
    <3> QED BY <3>1, <3>2
  <2>6. u = [j \in 1..(m + n) |-> u[j]]
    BY <2>4
  <2> HIDE DEF r
  <2> QED BY <2>3, <2>5, <2>6
<1>13. m + n \in Nat
  OBVIOUS
<1> HIDE DEF r
<1> QED BY <1>11, <1>12, <1>13 DEF Kept

\* A list of all has as many elements.
LEMMA KeptAll ==
  ASSUME NEW T, NEW s \in Seq(T), NEW k, Kept(k, s, DOMAIN s)
  PROVE  /\ DOMAIN k = DOMAIN s
         /\ \E p \in Bijection(DOMAIN s, DOMAIN s) : \A j \in DOMAIN s : k[j] = s[p[j]]
<1>1. PICK m \in Nat : \E p \in Bijection(1..m, DOMAIN s) : k = [j \in 1..m |-> s[p[j]]]
  BY DEF Kept
<1>2. PICK p \in Bijection(1..m, DOMAIN s) : k = [j \in 1..m |-> s[p[j]]]
  BY <1>1, Zenon
<1>3. PICK n \in Nat : DOMAIN s = 1..n
  <2>1. Len(s) \in Nat /\ DOMAIN s = 1..Len(s)
    OBVIOUS
  <2> QED BY <2>1
<1>4. Cardinality(DOMAIN s) = m
  <2>1. ExistsBijection(1..m, DOMAIN s)
    BY DEF ExistsBijection
  <2> QED BY <2>1, FS_CountingElements
<1>5. Cardinality(1..n) = n
  <2>1. 1 \in Int /\ n \in Int
    OBVIOUS
  <2>2. Cardinality(1..n) = IF 1 > n THEN 0 ELSE n - 1 + 1
    BY <2>1, FS_Interval, Zenon
  <2> QED BY <2>2
<1>6. m = n
  BY <1>3, <1>4, <1>5
<1> QED BY <1>2, <1>3, <1>6

-----------------------------------------------------------------------------
(* What Codex's order keeps of a plan                                        *)

IsReference(r) ==
  r = [order |-> r.order, id |-> r.id, source |-> r.source, path |-> r.path, made |-> r.made]

\* m has the references of refs in another order, numbered anew.
Rearranged(m, refs) ==
  /\ m \in Seq(ToSet(m)) /\ refs \in Seq(ToSet(refs))
  /\ Len(m) = Len(refs) /\ DOMAIN m = DOMAIN refs
  /\ \E p \in Bijection(DOMAIN refs, DOMAIN refs) :
       \A k \in DOMAIN refs :
         m[k].order = k /\ IsReference(m[k]) /\ m[k].id = refs[p[k]].id /\ m[k].source = refs[p[k]].source
         /\ m[k].path = refs[p[k]].path /\ m[k].made = refs[p[k]].made

LEMMA SeqOfItsOwn ==
  ASSUME NEW T, NEW s \in Seq(T)
  PROVE  s \in Seq(ToSet(s)) /\ \A i \in DOMAIN s : s[i] \in ToSet(s)
<1>1. \A i \in DOMAIN s : s[i] \in ToSet(s)
  BY DEF ToSet
<1>2. Len(s) \in Nat /\ DOMAIN s = 1..Len(s) /\ s = [i \in 1..Len(s) |-> s[i]]
  OBVIOUS
<1> QED BY <1>1, <1>2

LEMMA MadeFirstKeeps ==
  ASSUME NEW T, NEW refs \in Seq(T), \A r \in ToSet(refs) : IsReference(r)
  PROVE  Rearranged(MadeFirst(refs), refs)
<1> DEFINE I == {i \in DOMAIN refs : refs[i].made}
           J == {i \in DOMAIN refs : ~refs[i].made}
<1>1. PICK a : a = Only(refs, LAMBDA r : r.made)
  OBVIOUS
<1>2. PICK b : b = Only(refs, LAMBDA r : ~r.made)
  OBVIOUS
<1>3. Kept(a, refs, I)
  BY <1>1, OnlyMade
<1>4. Kept(b, refs, J)
  BY <1>2, OnlyGiven
<1>5. J = DOMAIN refs \ I /\ I \in SUBSET DOMAIN refs
  OBVIOUS
<1>6. MadeFirst(refs) = Numbered(a \o b)
  BY <1>1, <1>2 DEF MadeFirst
<1> HIDE DEF I, J
<1>7. Kept(a \o b, refs, DOMAIN refs)
  <2>1. Kept(b, refs, DOMAIN refs \ I)
    BY <1>4, <1>5
  <2>2. PICK S \in SUBSET DOMAIN refs : S = I
    BY <1>5
  <2>3. Kept(a, refs, S) /\ Kept(b, refs, DOMAIN refs \ S)
    BY <1>3, <2>1, <2>2
  <2> QED BY <2>3, KeptApart
<1>8. /\ DOMAIN (a \o b) = DOMAIN refs
      /\ \E p \in Bijection(DOMAIN refs, DOMAIN refs) : \A j \in DOMAIN refs : (a \o b)[j] = refs[p[j]]
  <2>1. PICK u : u = a \o b
    OBVIOUS
  <2>2. Kept(u, refs, DOMAIN refs)
    BY <1>7, <2>1
  <2>3. /\ DOMAIN u = DOMAIN refs
        /\ \E p \in Bijection(DOMAIN refs, DOMAIN refs) : \A j \in DOMAIN refs : u[j] = refs[p[j]]
    BY <2>2, KeptAll
  <2> QED BY <2>1, <2>3
<1>9. PICK p \in Bijection(DOMAIN refs, DOMAIN refs) : \A j \in DOMAIN refs : (a \o b)[j] = refs[p[j]]
  BY <1>8
<1>10. p \in [DOMAIN refs -> DOMAIN refs]
  BY DEF Bijection, Injection
<1>11. MadeFirst(refs) = [k \in DOMAIN refs |-> [refs[p[k]] EXCEPT !.order = k]]
  BY <1>6, <1>8, <1>9 DEF Numbered
<1>12. PICK m : m = MadeFirst(refs)
  OBVIOUS
<1>13. ASSUME NEW k \in DOMAIN refs
       PROVE  m[k].order = k /\ IsReference(m[k]) /\ m[k].id = refs[p[k]].id
              /\ m[k].source = refs[p[k]].source
              /\ m[k].path = refs[p[k]].path /\ m[k].made = refs[p[k]].made
  <2>1. p[k] \in DOMAIN refs
    BY <1>10
  <2>2. PICK r : r = refs[p[k]]
    OBVIOUS
  <2>3. IsReference(r)
    BY <2>1, <2>2 DEF ToSet
  <2>4. m[k] = [r EXCEPT !.order = k]
    BY <1>11, <1>12, <2>2
  <2>5. r = [order |-> r.order, id |-> r.id, source |-> r.source, path |-> r.path, made |-> r.made]
    BY <2>3 DEF IsReference
  <2>6. m[k] = [order |-> k, id |-> r.id, source |-> r.source, path |-> r.path, made |-> r.made]
    BY <2>4, <2>5
  <2>7. m[k].order = k /\ m[k].id = r.id /\ m[k].source = r.source /\ m[k].path = r.path /\ m[k].made = r.made
    BY <2>6
  <2> QED BY <2>2, <2>6, <2>7 DEF IsReference
<1>14. DOMAIN m = DOMAIN refs
  BY <1>11, <1>12
<1>15. Len(refs) \in Nat /\ DOMAIN refs = 1..Len(refs)
  OBVIOUS
<1>16. m \in Seq(ToSet(m))
  <2>1. \A k \in DOMAIN refs : m[k] \in ToSet(m)
    BY <1>14 DEF ToSet
  <2>2. m = [k \in DOMAIN refs |-> m[k]]
    BY <1>11, <1>12
  <2> QED BY <1>15, <2>1, <2>2
<1>17. Len(m) = Len(refs)
  BY <1>14, <1>15, <1>16
<1>18. refs \in Seq(ToSet(refs))
  BY SeqOfItsOwn
<1> QED BY <1>12, <1>13, <1>14, <1>16, <1>17, <1>18 DEF Rearranged

-----------------------------------------------------------------------------
(* What a draft becomes                                                      *)

SharedOf(p) == {a.asset : a \in ToSet(p.shared)}

\* A reference has no maker, or one that the plan makes before the i-th shot.
DraftedRef(p, i, r) ==
  /\ IsReference(r)
  /\ r.source = {} \/ \E a \in SharedOf(p) \cup {p.shots[j].asset : j \in 1..(i - 1)} : r.source = {a}
DraftedShot(p, i) ==
  /\ p.shots[i].order = i
  /\ p.shots[i].refs \in Seq(ToSet(p.shots[i].refs))
  /\ p.shots[i].deps = UNION {r.source : r \in ToSet(p.shots[i].refs)}
  /\ \A r \in ToSet(p.shots[i].refs) : DraftedRef(p, i, r)
Drafted(p) ==
  /\ IsPlan(p)
  /\ \A a \in ToSet(p.shared) : a.deps = {} /\ a.refs = << >>
  /\ \A i \in DOMAIN p.shots : DraftedShot(p, i)

\* Shots that are in order stay as they are.
LEMMA InOrderDrafted ==
  ASSUME NEW p, Drafted(p)
  PROVE  InOrder(p) = p
<1> DEFINE sorted == [k \in DOMAIN p.shots |-> CHOOSE s \in ToSet(p.shots) : s.order = k]
<1>1. \A k \in DOMAIN p.shots : p.shots[k].order = k
  BY DEF Drafted, DraftedShot
<1>2. ASSUME NEW k \in DOMAIN p.shots PROVE sorted[k] = p.shots[k]
  <2>1. p.shots[k] \in ToSet(p.shots) /\ p.shots[k].order = k
    BY <1>1 DEF ToSet
  <2>2. \A s \in ToSet(p.shots) : s.order = k => s = p.shots[k]
    BY <1>1 DEF ToSet
  <2> QED BY <2>1, <2>2
<1>3. PICK T : p.shots \in Seq(T)
  BY DEF Drafted, IsPlan, IsSequence
<1>4. p.shots = [k \in DOMAIN p.shots |-> p.shots[k]]
  BY <1>3
<1>5. sorted = p.shots
  BY <1>2, <1>4
<1>6. InOrder(p) = [p EXCEPT !.shots = sorted]
  BY DEF InOrder
<1> HIDE DEF sorted
<1> QED BY <1>5, <1>6 DEF Drafted, IsPlan

\* q is p with the references of its shots in another order.
SameButOrder(p, q) ==
  /\ q.shared = p.shared /\ DOMAIN q.shots = DOMAIN p.shots /\ Len(q.shots) = Len(p.shots)
  /\ \A i \in DOMAIN p.shots :
       /\ q.shots[i].id = p.shots[i].id /\ q.shots[i].order = p.shots[i].order
       /\ q.shots[i].asset = p.shots[i].asset /\ q.shots[i].previous = p.shots[i].previous
       /\ q.shots[i].deps = p.shots[i].deps
       /\ Rearranged(q.shots[i].refs, p.shots[i].refs)

LEMMA GeneratedFirstKeeps ==
  ASSUME NEW p, Drafted(p)
  PROVE  IsPlan(GeneratedFirst(p)) /\ SameButOrder(p, GeneratedFirst(p))
<1> DEFINE moved(i) == [p.shots[i] EXCEPT !.refs = MadeFirst(@)]
           all == [i \in DOMAIN p.shots |-> moved(i)]
<1>1. PICK q : q = GeneratedFirst(p)
  OBVIOUS
<1>2. p = [shared |-> p.shared, shots |-> p.shots]
  BY DEF Drafted, IsPlan
<1>3. q = [shared |-> p.shared, shots |-> all]
  <2>1. q = [p EXCEPT !.shots = all]
    BY <1>1 DEF GeneratedFirst
  <2> HIDE DEF all
  <2> QED BY <1>2, <2>1
<1>4. ASSUME NEW i \in DOMAIN p.shots
      PROVE  moved(i) = PlannedShot(p.shots[i].id, p.shots[i].order, p.shots[i].asset,
                                    p.shots[i].previous, MadeFirst(p.shots[i].refs), p.shots[i].deps)
  <2>1. PICK s : s = p.shots[i]
    OBVIOUS
  <2>2. s = PlannedShot(s.id, s.order, s.asset, s.previous, s.refs, s.deps)
    BY <2>1 DEF Drafted, IsPlan, ToSet
  <2>3. [s EXCEPT !.refs = MadeFirst(s.refs)] = PlannedShot(s.id, s.order, s.asset, s.previous, MadeFirst(s.refs), s.deps)
    BY <2>2 DEF PlannedShot
  <2> QED BY <2>1, <2>3
<1> HIDE DEF moved
<1>5. ASSUME NEW i \in DOMAIN p.shots
      PROVE  /\ q.shots[i] = moved(i)
             /\ moved(i).id = p.shots[i].id /\ moved(i).order = p.shots[i].order
             /\ moved(i).asset = p.shots[i].asset /\ moved(i).previous = p.shots[i].previous
             /\ moved(i).deps = p.shots[i].deps /\ moved(i).refs = MadeFirst(p.shots[i].refs)
             /\ moved(i) = PlannedShot(moved(i).id, moved(i).order, moved(i).asset, moved(i).previous,
                                       moved(i).refs, moved(i).deps)
  BY <1>3, <1>4 DEF PlannedShot
<1>6. PICK T : p.shots \in Seq(T)
  BY DEF Drafted, IsPlan, IsSequence
<1>7. DOMAIN p.shots = 1..Len(p.shots) /\ Len(p.shots) \in Nat
  BY <1>6
<1>8. q.shots \in Seq({moved(i) : i \in DOMAIN p.shots})
  BY <1>3, <1>7
<1>9. DOMAIN q.shots = DOMAIN p.shots /\ Len(q.shots) = Len(p.shots)
  BY <1>3, <1>7
<1>10. IsPlan(q)
  <2>1. q = [shared |-> q.shared, shots |-> q.shots] /\ q.shared = p.shared
    BY <1>3
  <2>2. IsSequence(q.shared)
    BY <2>1 DEF Drafted, IsPlan
  <2>3. IsSequence(q.shots)
    BY <1>8 DEF IsSequence
  <2>4. \A s \in ToSet(q.shots) : s = PlannedShot(s.id, s.order, s.asset, s.previous, s.refs, s.deps)
    BY <1>5, <1>9 DEF ToSet
  <2> QED BY <2>1, <2>2, <2>3, <2>4 DEF IsPlan
<1>11. ASSUME NEW i \in DOMAIN p.shots PROVE Rearranged(q.shots[i].refs, p.shots[i].refs)
  <2>1. PICK refs : refs = p.shots[i].refs
    OBVIOUS
  <2>2. refs \in Seq(ToSet(refs)) /\ \A r \in ToSet(refs) : IsReference(r)
    BY <2>1 DEF Drafted, DraftedShot, DraftedRef
  <2>3. Rearranged(MadeFirst(refs), refs)
    BY <2>2, MadeFirstKeeps
  <2> QED BY <1>5, <2>1, <2>3
<1>12. SameButOrder(p, q)
  BY <1>3, <1>5, <1>9, <1>11 DEF SameButOrder
<1> QED BY <1>1, <1>10, <1>12

\* Each reference is as one of the others, but for its number.
LEMMA RearrangedRef ==
  ASSUME NEW m, NEW refs, Rearranged(m, refs), NEW r \in ToSet(m)
  PROVE  IsReference(r) /\ \E s \in ToSet(refs) : r.source = s.source /\ r.path = s.path
<1>1. DOMAIN m = DOMAIN refs
  BY DEF Rearranged
<1>2. PICK p \in Bijection(DOMAIN refs, DOMAIN refs) :
        \A k \in DOMAIN refs :
          m[k].order = k /\ IsReference(m[k]) /\ m[k].id = refs[p[k]].id /\ m[k].source = refs[p[k]].source
          /\ m[k].path = refs[p[k]].path /\ m[k].made = refs[p[k]].made
  BY DEF Rearranged
<1>3. /\ p \in [DOMAIN refs -> DOMAIN refs]
      /\ \A a, b \in DOMAIN refs : p[a] = p[b] => a = b
      /\ \A x \in DOMAIN refs : \E a \in DOMAIN refs : p[a] = x
  BY DEF Bijection, Injection, Surjection, IsInjective
<1>4. PICK k \in DOMAIN refs : r = m[k]
  BY <1>1 DEF ToSet
<1>5. refs[p[k]] \in ToSet(refs)
  BY <1>3 DEF ToSet
<1> QED BY <1>2, <1>4, <1>5

LEMMA RearrangedRefs ==
  ASSUME NEW m, NEW refs, Rearranged(m, refs)
  PROVE  /\ UNION {r.source : r \in ToSet(m)} = UNION {r.source : r \in ToSet(refs)}
         /\ \A k \in DOMAIN m : m[k].order = k
         /\ IsInjective([k \in DOMAIN refs |-> refs[k].id]) => IsInjective([k \in DOMAIN m |-> m[k].id])
<1>1. DOMAIN m = DOMAIN refs
  BY DEF Rearranged
<1>2. PICK p \in Bijection(DOMAIN refs, DOMAIN refs) :
        \A k \in DOMAIN refs :
          m[k].order = k /\ IsReference(m[k]) /\ m[k].id = refs[p[k]].id /\ m[k].source = refs[p[k]].source
          /\ m[k].path = refs[p[k]].path /\ m[k].made = refs[p[k]].made
  BY DEF Rearranged
<1>3. /\ p \in [DOMAIN refs -> DOMAIN refs]
      /\ \A a, b \in DOMAIN refs : p[a] = p[b] => a = b
      /\ \A x \in DOMAIN refs : \E a \in DOMAIN refs : p[a] = x
  BY DEF Bijection, Injection, Surjection, IsInjective
<1>4. ASSUME NEW r \in ToSet(m)
      PROVE  \E s \in ToSet(refs) : r.source = s.source /\ r.path = s.path
  BY <1>4, RearrangedRef
<1>5. ASSUME NEW s \in ToSet(refs)
      PROVE  \E r \in ToSet(m) : r.source = s.source /\ r.path = s.path
  <2>1. PICK x \in DOMAIN refs : s = refs[x]
    BY <1>5 DEF ToSet
  <2>2. PICK k \in DOMAIN refs : p[k] = x
    BY <1>3
  <2>3. m[k] \in ToSet(m)
    BY <1>1 DEF ToSet
  <2> QED BY <1>2, <2>1, <2>2, <2>3
<1>6. UNION {r.source : r \in ToSet(m)} = UNION {r.source : r \in ToSet(refs)}
  BY <1>4, <1>5
<1>7. ASSUME IsInjective([k \in DOMAIN refs |-> refs[k].id])
      PROVE  IsInjective([k \in DOMAIN m |-> m[k].id])
  <2>1. \A a, b \in DOMAIN refs : refs[a].id = refs[b].id => a = b
    BY <1>7 DEF IsInjective
  <2>2. ASSUME NEW a \in DOMAIN refs, NEW b \in DOMAIN refs, m[a].id = m[b].id PROVE a = b
    <3>1. p[a] \in DOMAIN refs /\ p[b] \in DOMAIN refs /\ refs[p[a]].id = refs[p[b]].id
      BY <1>2, <1>3, <2>2
    <3> QED BY <1>3, <2>1, <3>1
  <2> QED BY <1>1, <2>2 DEF IsInjective
<1> QED BY <1>1, <1>2, <1>4, <1>5, <1>6, <1>7

LEMMA SameDrafted ==
  ASSUME NEW p, NEW q, Drafted(p), IsPlan(q), SameButOrder(p, q)
  PROVE  Drafted(q)
<1>1. q.shared = p.shared /\ DOMAIN q.shots = DOMAIN p.shots
  BY DEF SameButOrder
<1>2. \E T : p.shots \in Seq(T)
  BY DEF Drafted, IsPlan, IsSequence
<1>3. PICK n \in Nat : DOMAIN p.shots = 1..n
  <2>1. PICK T : p.shots \in Seq(T)
    BY <1>2
  <2>2. Len(p.shots) \in Nat /\ DOMAIN p.shots = 1..Len(p.shots)
    BY <2>1
  <2> QED BY <2>2
<1>4. ASSUME NEW i \in DOMAIN p.shots
      PROVE  DraftedShot(q, i)
  <2>1. /\ q.shots[i].order = p.shots[i].order /\ q.shots[i].deps = p.shots[i].deps
        /\ Rearranged(q.shots[i].refs, p.shots[i].refs)
    BY DEF SameButOrder
  <2>2. DraftedShot(p, i)
    BY DEF Drafted
  <2>3. q.shots[i].refs \in Seq(ToSet(q.shots[i].refs))
    BY <2>1 DEF Rearranged
  <2>4. q.shots[i].deps = UNION {r.source : r \in ToSet(q.shots[i].refs)}
    BY <2>1, <2>2, RearrangedRefs DEF DraftedShot
  <2>5. ASSUME NEW r \in ToSet(q.shots[i].refs) PROVE DraftedRef(q, i, r)
    <3> PICK m : m = q.shots[i].refs
      OBVIOUS
    <3> PICK refs : refs = p.shots[i].refs
      OBVIOUS
    <3>1. Rearranged(m, refs) /\ r \in ToSet(m)
      BY <2>1, <2>5
    <3>2. IsReference(r) /\ \E s \in ToSet(refs) : r.source = s.source
      BY <3>1, RearrangedRef
    <3>3. PICK s \in ToSet(refs) : r.source = s.source
      BY <3>2
    <3>4. IsReference(r)
      BY <3>2
    <3>5. DraftedRef(p, i, s)
      BY <2>2, <3>3 DEF DraftedShot
    <3>6. SharedOf(q) = SharedOf(p)
      BY <1>1 DEF SharedOf
    <3>7. \A j \in 1..(i - 1) : q.shots[j].asset = p.shots[j].asset
      <4>1. i \in 1..n
        BY <1>3
      <4>2. \A j \in 1..(i - 1) : j \in 1..n
        BY <4>1
      <4> QED BY <1>3, <4>2 DEF SameButOrder
    <3> QED BY <3>3, <3>4, <3>5, <3>6, <3>7 DEF DraftedRef
  <2> QED BY <2>1, <2>2, <2>3, <2>4, <2>5 DEF DraftedShot
<1> QED BY <1>1, <1>4 DEF Drafted

\* The items of a plan of whose shots only the references were moved.
LEMMA SameItems ==
  ASSUME NEW p, NEW q, IsPlan(p), IsPlan(q), SameButOrder(p, q)
  PROVE  /\ DOMAIN Items(q) = DOMAIN Items(p)
         /\ \A i \in DOMAIN Items(p) :
              \/ Items(q)[i] = Items(p)[i] /\ Items(p)[i] \in ToSet(p.shared)
              \/ \E j \in DOMAIN p.shots : Items(q)[i] = q.shots[j] /\ Items(p)[i] = p.shots[j]
<1>1. PICK T1 : p.shared \in Seq(T1)
  BY DEF IsPlan, IsSequence
<1>2. PICK T2 : p.shots \in Seq(T2)
  BY DEF IsPlan, IsSequence
<1>3. PICK T3 : q.shots \in Seq(T3)
  BY DEF IsPlan, IsSequence
<1>4. PICK T : p.shared \in Seq(T) /\ p.shots \in Seq(T) /\ q.shots \in Seq(T)
  <2>1. p.shared \in Seq(T1 \cup T2 \cup T3) /\ p.shots \in Seq(T1 \cup T2 \cup T3) /\ q.shots \in Seq(T1 \cup T2 \cup T3)
    BY <1>1, <1>2, <1>3
  <2> QED BY <2>1
<1>5. PICK a \in Seq(T) : a = p.shared
  BY <1>4
<1>6. PICK b \in Seq(T) : b = p.shots
  BY <1>4
<1>7. PICK c \in Seq(T) : c = q.shots
  BY <1>4
<1>8. PICK m : m = Len(a)
  OBVIOUS
<1>9. PICK n : n = Len(b)
  OBVIOUS
<1>10. /\ m \in Nat /\ n \in Nat /\ DOMAIN p.shared = 1..m /\ DOMAIN p.shots = 1..n
       /\ n = Len(c)
  BY <1>5, <1>6, <1>7, <1>8, <1>9 DEF SameButOrder
<1>11. /\ DOMAIN Items(p) = 1..(m + n)
       /\ \A i \in 1..m : Items(p)[i] = p.shared[i]
       /\ \A i \in 1..(m + n) : i > m => Items(p)[i] = p.shots[i - m]
  <2>1. PICK u : u = a \o b
    OBVIOUS
  <2>2. /\ DOMAIN u = 1..(m + n)
        /\ \A i \in 1..m : u[i] = a[i]
        /\ \A i \in 1..(m + n) : i > m => u[i] = b[i - m]
    BY <1>8, <1>9, <2>1, ConcatAt
  <2>3. Items(p) = u
    BY <1>5, <1>6, <2>1 DEF Items
  <2> QED BY <1>5, <1>6, <2>2, <2>3
<1>12. /\ DOMAIN Items(q) = 1..(m + n)
       /\ \A i \in 1..m : Items(q)[i] = p.shared[i]
       /\ \A i \in 1..(m + n) : i > m => Items(q)[i] = q.shots[i - m]
  <2>1. PICK u : u = a \o c
    OBVIOUS
  <2>2. /\ DOMAIN u = 1..(m + n)
        /\ \A i \in 1..m : u[i] = a[i]
        /\ \A i \in 1..(m + n) : i > m => u[i] = c[i - m]
    BY <1>10, <1>8, <2>1, ConcatAt
  <2>3. Items(q) = u
    BY <1>5, <1>7, <2>1 DEF Items, SameButOrder
  <2> QED BY <1>5, <1>7, <2>2, <2>3
<1>13. ASSUME NEW i \in 1..(m + n)
       PROVE  \/ Items(q)[i] = Items(p)[i] /\ Items(p)[i] \in ToSet(p.shared)
              \/ \E j \in DOMAIN p.shots : Items(q)[i] = q.shots[j] /\ Items(p)[i] = p.shots[j]
  <2>1. CASE i <= m
    <3>1. i \in 1..m
      BY <1>10, <2>1
    <3> QED BY <1>10, <1>11, <1>12, <3>1 DEF ToSet
  <2>2. CASE i > m
    <3>1. i - m \in 1..n
      BY <1>10, <2>2
    <3> QED BY <1>10, <1>11, <1>12, <2>2, <3>1
  <2> QED BY <1>10, <2>1, <2>2
<1> QED BY <1>11, <1>12, <1>13

\* The checks do not look at the order of references.
LEMMA SameProblem ==
  ASSUME NEW p, NEW q, IsPlan(p), IsPlan(q), SameButOrder(p, q), Problem(p) = "none"
  PROVE  Problem(q) = "none"
<1>1. /\ FieldsFit(p) /\ IdsUnique(p) /\ OrdersContiguous(p) /\ DependenciesKnown(p)
      /\ ReferencesDeclared(p) /\ PreviousEarlier(p)
  BY DEF Problem
<1>2. /\ q.shared = p.shared /\ DOMAIN q.shots = DOMAIN p.shots /\ Len(q.shots) = Len(p.shots)
      /\ \A i \in DOMAIN p.shots :
           /\ q.shots[i].id = p.shots[i].id /\ q.shots[i].order = p.shots[i].order
           /\ q.shots[i].asset = p.shots[i].asset /\ q.shots[i].previous = p.shots[i].previous
           /\ q.shots[i].deps = p.shots[i].deps
           /\ Rearranged(q.shots[i].refs, p.shots[i].refs)
  BY DEF SameButOrder
<1>3. /\ ToSet(Items(p)) = ToSet(p.shared) \cup ToSet(p.shots)
      /\ ToSet(Items(q)) = ToSet(p.shared) \cup ToSet(q.shots)
  BY <1>2, ItemsOfPlan DEF IsPlan
<1>4. /\ \A t \in ToSet(q.shots) : \E j \in DOMAIN p.shots : t = q.shots[j]
      /\ \A j \in DOMAIN p.shots : p.shots[j] \in ToSet(p.shots) /\ q.shots[j] \in ToSet(q.shots)
      /\ \A t \in ToSet(p.shots) : \E j \in DOMAIN p.shots : t = p.shots[j]
  BY <1>2 DEF ToSet
<1>5. AssetIds(q) = AssetIds(p)
  <2>1. /\ \A x \in ToSet(Items(q)) : \E y \in ToSet(Items(p)) : x.asset = y.asset
        /\ \A y \in ToSet(Items(p)) : \E x \in ToSet(Items(q)) : x.asset = y.asset
    BY <1>2, <1>3, <1>4
  <2> QED BY <2>1 DEF AssetIds
<1>6. FieldsFit(q)
  <2>1. Len(q.shots) \in 1..MaxShots
    BY <1>1, <1>2 DEF FieldsFit
  <2>2. ASSUME NEW t \in ToSet(q.shots) PROVE Len(t.refs) <= MaxReferences
    <3>1. PICK j \in DOMAIN p.shots : t = q.shots[j]
      BY <1>4
    <3>2. Len(t.refs) = Len(p.shots[j].refs)
      BY <1>2, <3>1 DEF Rearranged
    <3>3. p.shots[j] \in ToSet(Items(p))
      BY <1>3, <1>4
    <3> QED BY <1>1, <3>2, <3>3 DEF FieldsFit
  <2> QED BY <1>1, <1>3, <2>1, <2>2 DEF FieldsFit
<1>7. IdsUnique(q)
  <2>1. [i \in DOMAIN q.shots |-> q.shots[i].id] = [i \in DOMAIN p.shots |-> p.shots[i].id]
    BY <1>2
  <2>2. [i \in DOMAIN Items(q) |-> Items(q)[i].asset] = [i \in DOMAIN Items(p) |-> Items(p)[i].asset]
    <3>1. /\ DOMAIN Items(q) = DOMAIN Items(p)
          /\ \A i \in DOMAIN Items(p) :
               \/ Items(q)[i] = Items(p)[i]
               \/ \E j \in DOMAIN p.shots : Items(q)[i] = q.shots[j] /\ Items(p)[i] = p.shots[j]
      BY SameItems
    <3>2. \A i \in DOMAIN Items(p) : Items(q)[i].asset = Items(p)[i].asset
      BY <1>2, <3>1
    <3> QED BY <3>1, <3>2
  <2>3. {VideoOf(s.id) : s \in ToSet(q.shots)} = {VideoOf(s.id) : s \in ToSet(p.shots)}
    <3>1. /\ \A x \in ToSet(q.shots) : \E y \in ToSet(p.shots) : x.id = y.id
          /\ \A y \in ToSet(p.shots) : \E x \in ToSet(q.shots) : x.id = y.id
      BY <1>2, <1>4
    <3> QED BY <3>1
  <2> QED BY <1>1, <1>5, <2>1, <2>2, <2>3 DEF IdsUnique
<1>8. OrdersContiguous(q)
  <2>1. [i \in DOMAIN q.shots |-> q.shots[i].order] = [i \in DOMAIN p.shots |-> p.shots[i].order]
    BY <1>2
  <2> QED BY <1>1, <1>2, <2>1 DEF OrdersContiguous
<1>9. DependenciesKnown(q)
  <2>1. ASSUME NEW t \in ToSet(q.shots) PROVE t.deps \subseteq AssetIds(q)
    <3>1. PICK j \in DOMAIN p.shots : t = q.shots[j]
      BY <1>4
    <3>2. t.deps = p.shots[j].deps /\ p.shots[j] \in ToSet(Items(p))
      BY <1>2, <1>3, <1>4, <3>1
    <3> QED BY <1>1, <1>5, <3>2 DEF DependenciesKnown
  <2> QED BY <1>1, <1>3, <1>5, <2>1 DEF DependenciesKnown
<1>10. ReferencesDeclared(q)
  <2>1. ASSUME NEW t \in ToSet(q.shots)
        PROVE  /\ \A k \in DOMAIN t.refs :
                    /\ t.refs[k].order = k
                    /\ t.refs[k].source # {} \/ t.refs[k].path
                    /\ t.refs[k].source \subseteq t.deps
               /\ IsInjective([k \in DOMAIN t.refs |-> t.refs[k].id])
    <3>1. PICK j \in DOMAIN p.shots : t = q.shots[j]
      BY <1>4
    <3>2. PICK m : m = t.refs
      OBVIOUS
    <3>3. PICK refs : refs = p.shots[j].refs
      OBVIOUS
    <3>4. Rearranged(m, refs)
      BY <1>2, <3>1, <3>2, <3>3
    <3>5. p.shots[j] \in ToSet(Items(p)) /\ t.deps = p.shots[j].deps
      BY <1>2, <1>3, <1>4, <3>1
    <3>6. /\ \A k \in DOMAIN refs : (refs[k].source # {} \/ refs[k].path) /\ refs[k].source \subseteq t.deps
          /\ IsInjective([k \in DOMAIN refs |-> refs[k].id])
      BY <1>1, <3>3, <3>5 DEF ReferencesDeclared
    <3>7. (\A k \in DOMAIN m : m[k].order = k) /\ IsInjective([k \in DOMAIN m |-> m[k].id])
      BY <3>4, <3>6, RearrangedRefs
    <3>8. ASSUME NEW k \in DOMAIN m
          PROVE  (m[k].source # {} \/ m[k].path) /\ m[k].source \subseteq t.deps
      <4>1. m[k] \in ToSet(m)
        BY DEF ToSet
      <4>2. PICK s \in ToSet(refs) : m[k].source = s.source /\ m[k].path = s.path
        BY <3>4, <4>1, RearrangedRef
      <4>3. (s.source # {} \/ s.path) /\ s.source \subseteq t.deps
        BY <3>6 DEF ToSet
      <4> QED BY <4>2, <4>3
    <3> QED BY <3>2, <3>7, <3>8
  <2> QED BY <1>1, <1>3, <2>1 DEF ReferencesDeclared
<1>11. PreviousEarlier(q)
  <2>1. ASSUME NEW s \in ToSet(q.shots), NEW x \in s.previous
        PROVE  \E t \in ToSet(q.shots) : t.id = x /\ t.order < s.order /\ t.asset \in s.deps
    <3>1. PICK j \in DOMAIN p.shots : s = q.shots[j]
      BY <1>4
    <3>2. x \in p.shots[j].previous /\ p.shots[j] \in ToSet(p.shots)
      BY <1>2, <1>4, <2>1, <3>1
    <3>3. PICK t \in ToSet(p.shots) : t.id = x /\ t.order < p.shots[j].order /\ t.asset \in p.shots[j].deps
      BY <1>1, <3>2 DEF PreviousEarlier
    <3>4. PICK l \in DOMAIN p.shots : t = p.shots[l]
      BY <1>4
    <3> QED BY <1>2, <1>4, <3>1, <3>3, <3>4
  <2> QED BY <2>1 DEF PreviousEarlier
<1> QED BY <1>6, <1>7, <1>8, <1>9, <1>10, <1>11 DEF Problem

\* What Accept makes of a plan that was drafted is drafted, and has no problem.
LEMMA AcceptDrafted ==
  ASSUME NEW p, Drafted(p), Problem(p) = "none", NEW q \in {InOrder(p), GeneratedFirst(InOrder(p))}
  PROVE  Drafted(q) /\ Problem(q) = "none"
<1>1. InOrder(p) = p
  BY InOrderDrafted
<1>2. CASE q = InOrder(p)
  BY <1>1, <1>2
<1>3. CASE q = GeneratedFirst(InOrder(p))
  <2>1. IsPlan(p)
    BY DEF Drafted
  <2>2. PICK r : r = GeneratedFirst(p)
    OBVIOUS
  <2>3. IsPlan(r) /\ SameButOrder(p, r)
    BY <2>2, GeneratedFirstKeeps
  <2> QED BY <1>1, <1>3, <2>1, <2>2, <2>3, SameDrafted, SameProblem
<1> QED BY <1>2, <1>3

-----------------------------------------------------------------------------
(* The next shot                                                             *)

LEMMA DistinctList ==
  ASSUME NEW T, NEW refs \in Seq(T)
  PROVE  Distinct(refs) \in Seq(T)
<1> DEFINE P(f) == f = [x \in SUBSET DOMAIN refs |->
                          IF x = {} THEN << >>
                          ELSE IF Contains(f[x \ {Max(x)}], refs[Max(x)]) THEN f[x \ {Max(x)}]
                               ELSE Append(f[x \ {Max(x)}], refs[Max(x)])]
<1>1. PICK n \in Nat : DOMAIN refs = 1..n /\ \A i \in 1..n : refs[i] \in T
  <2>1. Len(refs) \in Nat /\ DOMAIN refs = 1..Len(refs) /\ \A i \in 1..Len(refs) : refs[i] \in T
    OBVIOUS
  <2> QED BY <2>1
<1>2. PICK A : A = Seq(T)
  OBVIOUS
<1>3. PICK op \in [A \X (1..n) -> A] :
        \A a \in A : \A i \in 1..n :
          op[<<a, i>>] = IF Contains(a, refs[i]) THEN a ELSE Append(a, refs[i])
  <2> DEFINE h == [q \in A \X (1..n) |-> IF Contains(q[1], refs[q[2]]) THEN q[1] ELSE Append(q[1], refs[q[2]])]
  <2>1. h \in [A \X (1..n) -> A]
    BY <1>1, <1>2
  <2>2. \A a \in A : \A i \in 1..n : h[<<a, i>>] = IF Contains(a, refs[i]) THEN a ELSE Append(a, refs[i])
    OBVIOUS
  <2> HIDE DEF h
  <2> QED BY <2>1, <2>2
<1>4. PICK base \in A : base = << >>
  <2>1. << >> \in Seq(T)
    OBVIOUS
  <2> QED BY <1>2, <2>1
<1>5. PICK g \in [SUBSET (1..n) -> A] : Folding(g, n, base, op)
  BY FoldExists
<1>6. P(g)
  <2>1. \A x \in SUBSET (1..n) :
          g[x] = IF x = {} THEN << >>
                 ELSE IF Contains(g[x \ {Max(x)}], refs[Max(x)]) THEN g[x \ {Max(x)}]
                      ELSE Append(g[x \ {Max(x)}], refs[Max(x)])
    BY <1>1, <1>3, <1>4, <1>5, GreatestPosition DEF Folding
  <2> QED BY <1>1, <2>1
<1>7. Distinct(refs) = (CHOOSE f : P(f))[DOMAIN refs]
  BY DEF Distinct, FoldLeft, MapThenFoldSet
<1>8. PICK f : f = CHOOSE h : P(h)
  OBVIOUS
<1>9. P(f)
  <2> HIDE DEF P
  <2>1. \E h : P(h)
    BY <1>6
  <2>2. P(CHOOSE h : P(h))
    BY <2>1, Zenon
  <2> QED BY <1>8, <2>2
<1> DEFINE S == {i \in 0..n : f[1..i] \in A}
<1>10. 0 \in S
  <2>1. 1..0 = {} /\ 1..0 \in SUBSET DOMAIN refs /\ 0 \in 0..n
    OBVIOUS
  <2> HIDE DEF S
  <2>2. f[1..0] = << >>
    BY <1>9, <2>1
  <2> QED BY <1>4, <2>1, <2>2 DEF S
<1>11. ASSUME NEW i \in 1..n, i - 1 \in S PROVE i \in S
  <2>1. PICK x : x = 1..i
    OBVIOUS
  <2>2. i \in Nat /\ i # 0 /\ i \in 0..n /\ x \in SUBSET DOMAIN refs
    BY <1>1, <2>1
  <2>3. x # {} /\ Max(x) = i /\ x \ {i} = 1..(i - 1)
    BY <2>1, <2>2, Initial
  <2>4. f[x] = IF Contains(f[x \ {i}], refs[i]) THEN f[x \ {i}] ELSE Append(f[x \ {i}], refs[i])
    BY <1>9, <2>2, <2>3
  <2>5. f[x \ {i}] \in Seq(T)
    BY <1>2, <1>11, <2>3
  <2>6. f[x] \in Seq(T)
    BY <1>1, <2>4, <2>5
  <2> QED BY <1>2, <2>1, <2>2, <2>6
<1>12. \A i \in 0..n : i \in S
  <2> HIDE DEF S
  <2>1. \A i \in 1..n : i - 1 \in S => i \in S
    BY <1>11
  <2> QED BY <1>10, <2>1, UpTo, Zenon
<1>13. f[1..n] \in A
  <2>1. n \in 0..n
    OBVIOUS
  <2> QED BY <1>12, <2>1
<1> QED BY <1>1, <1>2, <1>7, <1>8, <1>13

LEMMA ReverseList ==
  ASSUME NEW T, NEW s \in Seq(T)
  PROVE  Reverse(s) \in Seq(T)
<1>1. Len(s) \in Nat /\ \A i \in 1..Len(s) : s[i] \in T
  OBVIOUS
<1>2. \A i \in 1..Len(s) : (Len(s) - i) + 1 \in 1..Len(s)
  BY <1>1
<1>3. \A i \in 1..Len(s) : s[(Len(s) - i) + 1] \in T
  BY <1>1, <1>2
<1> QED BY <1>1, <1>3 DEF Reverse

LEMMA OnlyOfList ==
  ASSUME NEW T, NEW refs \in Seq(T), NEW list
  PROVE  Mentioned(refs, list) \in Seq(T)
<1>1. PICK I : I = {i \in DOMAIN refs : Contains(list, refs[i])}
  OBVIOUS
<1>2. I \in SUBSET DOMAIN refs
  BY <1>1
<1>3. PICK k : k = Mentioned(refs, list)
  OBVIOUS
<1>4. Kept(k, refs, I)
  BY <1>1, <1>3, OnlyOf
<1>5. k \in Seq(T)
  BY <1>2, <1>4, KeptList
<1> QED BY <1>3, <1>5

\* The references that a user gives are a list.
LEMMA UserList ==
  ASSUME NEW in \in Inputs, NEW shot \in ToSet(in.shots)
  PROVE  \E T : AllUserReferences(in.refs, shot) \in Seq(T)
<1>1. /\ in.refs \in Seq(ToSet(in.refs)) /\ shot.refs \in Seq(ToSet(shot.refs))
      /\ \A f \in shot.fixed : f \in Seq(ToSet(f))
  BY InputsAssumption
<1>2. PICK T : shot.refs \o in.refs \in Seq(T)
  <2>1. /\ shot.refs \in Seq(ToSet(shot.refs) \cup ToSet(in.refs))
        /\ in.refs \in Seq(ToSet(shot.refs) \cup ToSet(in.refs))
    BY <1>1
  <2>2. shot.refs \o in.refs \in Seq(ToSet(shot.refs) \cup ToSet(in.refs))
    BY <2>1
  <2> QED BY <2>2
<1>3. PICK merged : merged = Distinct(shot.refs \o in.refs)
  OBVIOUS
<1>4. merged \in Seq(T)
  BY <1>2, <1>3, DistinctList
<1>5. CASE shot.fixed = {}
  <2>1. AllUserReferences(in.refs, shot) = merged
    BY <1>3, <1>5 DEF AllUserReferences, Mentioned
  <2> QED BY <1>4, <2>1
<1>6. CASE shot.fixed # {}
  <2>1. PICK f : f = CHOOSE x \in shot.fixed : TRUE
    OBVIOUS
  <2>2. f \in Seq(ToSet(f))
    BY <1>1, <1>6, <2>1
  <2>3. PICK ranked : ranked = Reverse(Distinct(Reverse(f)))
    OBVIOUS
  <2>4. Reverse(f) \in Seq(ToSet(f))
    BY <2>2, ReverseList
  <2>5. Distinct(Reverse(f)) \in Seq(ToSet(f))
    BY <2>4, DistinctList
  <2>6. ranked \in Seq(ToSet(f))
    BY <2>3, <2>5, ReverseList
  <2>7. AllUserReferences(in.refs, shot) = Mentioned(ranked, merged)
    BY <1>3, <1>6, <2>1, <2>3 DEF AllUserReferences, Mentioned
  <2>8. Mentioned(ranked, merged) \in Seq(ToSet(f))
    BY <2>6, OnlyOfList
  <2> QED BY <2>7, <2>8
<1> QED BY <1>5, <1>6

\* Numbering a list of references leaves all but their numbers alone.
LEMMA NumberedKeeps ==
  ASSUME NEW T, NEW refs \in Seq(T), \A r \in ToSet(refs) : IsReference(r), NEW m, m = Numbered(refs)
  PROVE  /\ m \in Seq(ToSet(m))
         /\ \A r \in ToSet(m) : IsReference(r) /\ \E s \in ToSet(refs) : r.source = s.source /\ r.made = s.made
<1>1. \A k \in DOMAIN refs : refs[k] \in ToSet(refs)
  BY DEF ToSet
<1>2. DOMAIN m = DOMAIN refs
  BY DEF Numbered
<1>3. ASSUME NEW k \in DOMAIN refs
      PROVE  IsReference(m[k]) /\ m[k].source = refs[k].source /\ m[k].made = refs[k].made
  <2>1. PICK r : r = refs[k]
    OBVIOUS
  <2>2. r = [order |-> r.order, id |-> r.id, source |-> r.source, path |-> r.path, made |-> r.made]
    BY <1>1, <2>1 DEF IsReference
  <2>3. m[k] = [r EXCEPT !.order = k]
    BY <2>1 DEF Numbered
  <2>4. m[k] = [order |-> k, id |-> r.id, source |-> r.source, path |-> r.path, made |-> r.made]
    BY <2>2, <2>3
  <2>5. m[k].source = r.source /\ m[k].made = r.made /\ m[k].order = k /\ m[k].id = r.id /\ m[k].path = r.path
    BY <2>4
  <2> QED BY <2>1, <2>4, <2>5 DEF IsReference
<1>4. Len(refs) \in Nat /\ DOMAIN refs = 1..Len(refs)
  OBVIOUS
<1>5. m = [k \in DOMAIN refs |-> m[k]] /\ \A k \in DOMAIN refs : m[k] \in ToSet(m)
  BY <1>2 DEF Numbered, ToSet
<1>6. m \in Seq(ToSet(m))
  BY <1>4, <1>5
<1>7. ASSUME NEW r \in ToSet(m)
      PROVE  IsReference(r) /\ \E s \in ToSet(refs) : r.source = s.source /\ r.made = s.made
  <2>1. PICK k \in DOMAIN refs : r = m[k]
    BY <1>2, <1>7 DEF ToSet
  <2> QED BY <1>1, <1>3, <2>1
<1> QED BY <1>6, <1>7

\* What the director knows of the request and the draft.
Requested ==
  /\ input \in Inputs
  /\ draft \in Drafts \/ draft = DeterministicDraft(input)

LEMMA DraftedShared ==
  ASSUME Requested, NEW i \in DOMAIN draft.shots
  PROVE  \E T : draft.shots[i].shared \in Seq(T)
<1>1. CASE draft \in Drafts
  <2>1. draft.shots[i] \in ToSet(draft.shots)
    BY DEF ToSet
  <2> QED BY <1>1, <2>1, DraftsAssumption
<1>2. CASE draft = DeterministicDraft(input)
  <2>1. draft.shots[i].shared = <<StyleBible>>
    BY <1>2 DEF DeterministicDraft
  <2>2. <<StyleBible>> \in Seq({StyleBible})
    OBVIOUS
  <2> QED BY <2>1, <2>2
<1> QED BY <1>1, <1>2 DEF Requested

\* The shot before has an image.
LEMMA PreviousList ==
  ASSUME NEW wanted, NEW refs, IsPlan(plan), NEW v, v = PreviousRefs(wanted, refs)
  PROVE  /\ v \in Seq(ToSet(v))
         /\ \A r \in ToSet(v) : /\ IsReference(r) /\ ~r.made
                                /\ plan.shots # << >> /\ r.source = {plan.shots[Len(plan.shots)].asset}
<1>1. CASE v = << >>
  BY <1>1 DEF ToSet
<1>2. CASE v # << >>
  <2>1. PICK r : r = Reference(PreviousRef(Last(plan.shots).id), {Last(plan.shots).asset}, FALSE, FALSE)
    OBVIOUS
  <2>2. v = <<r>> /\ plan.shots # << >>
    BY <1>2, <2>1 DEF PreviousRefs
  <2>3. IsReference(r) /\ ~r.made /\ r.source = {plan.shots[Len(plan.shots)].asset}
    BY <2>1 DEF Reference, IsReference, Last
  <2>4. ToSet(v) = {r} /\ v \in Seq({r})
    BY <2>2 DEF ToSet
  <2> QED BY <2>2, <2>3, <2>4
<1> QED BY <1>1, <1>2

LEMMA SharedList ==
  ASSUME NEW T, NEW wanted \in Seq(T), NEW refs, Len(refs) \in Nat, NEW w, w = SharedRefs(Taken(wanted, refs))
  PROVE  /\ w \in Seq(ToSet(w))
         /\ \A r \in ToSet(w) : IsReference(r) /\ r.made /\ \E a : r.source = {a}
<1>1. PICK taken : taken = Taken(wanted, refs)
  OBVIOUS
<1>2. PICK n \in Int : n <= Len(wanted) /\ taken = SubSeq(wanted, 1, n)
  <2> DEFINE n == Min({Len(wanted), MaxReferences - Len(refs)})
  <2>1. Len(wanted) \in Int /\ MaxReferences - Len(refs) \in Int
    BY DEF MaxReferences
  <2>2. \E x \in {Len(wanted), MaxReferences - Len(refs)} :
          \A y \in {Len(wanted), MaxReferences - Len(refs)} : x =< y
    BY <2>1
  <2>3. n \in {Len(wanted), MaxReferences - Len(refs)} /\ n =< Len(wanted)
    BY <2>2 DEF Min
  <2>4. taken = SubSeq(wanted, 1, n)
    BY <1>1 DEF Taken
  <2> HIDE DEF n
  <2> QED BY <2>1, <2>3, <2>4
<1>3. taken \in Seq(T)
  <2>1. CASE n < 1
    <3>1. taken = << >>
      BY <1>2, <2>1
    <3> QED BY <3>1
  <2>2. CASE n >= 1
    BY <1>2, <2>2
  <2> QED BY <2>1, <2>2
<1>4. w = [k \in DOMAIN taken |-> Reference(AssetRef(taken[k]), {taken[k]}, FALSE, TRUE)]
  BY <1>1 DEF SharedRefs
<1>5. Len(taken) \in Nat /\ DOMAIN taken = 1..Len(taken)
  BY <1>3
<1>6. w \in Seq(ToSet(w))
  <2>1. w = [k \in 1..Len(taken) |-> w[k]] /\ \A k \in 1..Len(taken) : w[k] \in ToSet(w)
    BY <1>4, <1>5 DEF ToSet
  <2> QED BY <1>5, <2>1, SMTT(30)
<1>7. ASSUME NEW r \in ToSet(w) PROVE IsReference(r) /\ r.made /\ \E a : r.source = {a}
  <2>1. PICK k \in DOMAIN taken : r = Reference(AssetRef(taken[k]), {taken[k]}, FALSE, TRUE)
    BY <1>4, <1>7 DEF ToSet
  <2>2. r.made /\ r.source = {taken[k]} /\ IsReference(r)
    BY <2>1 DEF Reference, IsReference
  <2> QED BY <2>2
<1> QED BY <1>6, <1>7

LEMMA UserRefsList ==
  ASSUME Requested, NEW i \in DOMAIN input.shots, NEW u, u = UserRefs(input.shots[i])
  PROVE  /\ u \in Seq(ToSet(u))
         /\ \A r \in ToSet(u) : IsReference(r) /\ ~r.made /\ r.source = {}
<1>1. PICK in \in Inputs : in = input
  BY DEF Requested
<1>2. PICK shot \in ToSet(in.shots) : shot = input.shots[i]
  BY <1>1 DEF ToSet
<1>3. PICK ids : ids = AllUserReferences(input.refs, input.shots[i])
  OBVIOUS
<1>4. PICK T : ids \in Seq(T)
  <2>1. \E T : AllUserReferences(in.refs, shot) \in Seq(T)
    BY UserList
  <2> QED BY <1>1, <1>2, <1>3, <2>1
<1>5. u = [k \in DOMAIN ids |-> Reference(ids[k], {}, TRUE, FALSE)]
  BY <1>3 DEF UserRefs
<1>6. Len(ids) \in Nat /\ DOMAIN ids = 1..Len(ids)
  BY <1>4
<1>7. u \in Seq(ToSet(u))
  <2>1. u = [k \in 1..Len(ids) |-> u[k]] /\ \A k \in 1..Len(ids) : u[k] \in ToSet(u)
    BY <1>5, <1>6 DEF ToSet
  <2> QED BY <1>6, <2>1, SMTT(30)
<1>8. ASSUME NEW r \in ToSet(u) PROVE IsReference(r) /\ ~r.made /\ r.source = {}
  <2>1. PICK k \in DOMAIN ids : r = Reference(ids[k], {}, TRUE, FALSE)
    BY <1>5, <1>8 DEF ToSet
  <2> QED BY <2>1 DEF Reference, IsReference
<1> QED BY <1>7, <1>8

\* The references of the next shot, before they are numbered.
LEMMA NextRefs ==
  ASSUME Requested, IsPlan(plan), Len(draft.shots) = Len(input.shots),
         NEW i, i = Len(plan.shots) + 1, i \in DOMAIN input.shots, i \in DOMAIN draft.shots
  PROVE  /\ NextShot.order = i
         /\ NextShot.deps = UNION {r.source : r \in ToSet(NextShot.refs)}
         /\ NextShot.refs \in Seq(ToSet(NextShot.refs))
         /\ \A r \in ToSet(NextShot.refs) :
              /\ IsReference(r)
              /\ \/ r.source = {}
                 \/ plan.shots # << >> /\ r.source = {plan.shots[Len(plan.shots)].asset}
                 \/ r.made /\ \E a : r.source = {a}
<1>1. PICK u : u = UserRefs(input.shots[i])
  OBVIOUS
<1>2. /\ u \in Seq(ToSet(u))
      /\ \A r \in ToSet(u) : IsReference(r) /\ ~r.made /\ r.source = {}
  BY <1>1, UserRefsList
<1>3. PICK v : v = PreviousRefs(draft.shots[i].previous, u)
  OBVIOUS
<1>4. /\ v \in Seq(ToSet(v))
      /\ \A r \in ToSet(v) : /\ IsReference(r) /\ ~r.made
                             /\ plan.shots # << >> /\ r.source = {plan.shots[Len(plan.shots)].asset}
  BY <1>3, PreviousList
<1>5. PICK w : w = SharedRefs(Taken(draft.shots[i].shared, u \o v))
  OBVIOUS
<1>6. PICK T : T = ToSet(u) \cup ToSet(v) \cup ToSet(w)
  OBVIOUS
<1>7. u \in Seq(T) /\ v \in Seq(T)
  BY <1>2, <1>4, <1>6
<1>8. Len(u \o v) \in Nat
  BY <1>7
<1>9. PICK wanted : wanted = draft.shots[i].shared
  OBVIOUS
<1>10. PICK T2 : wanted \in Seq(T2)
  BY <1>9, DraftedShared
<1>11. /\ w \in Seq(ToSet(w))
       /\ \A r \in ToSet(w) : IsReference(r) /\ r.made /\ \E a : r.source = {a}
  <2>1. PICK uv : uv = u \o v
    OBVIOUS
  <2>2. Len(uv) \in Nat /\ w = SharedRefs(Taken(wanted, uv))
    BY <1>5, <1>8, <1>9, <2>1
  <2> QED BY <1>10, <2>2, SharedList
<1>12. w \in Seq(T)
  BY <1>6, <1>11
<1>13. u \o v \in Seq(T) /\ ToSet(u \o v) = ToSet(u) \cup ToSet(v)
  BY <1>7, ToSetConcat
<1>14. PICK all : all = u \o v \o w
  OBVIOUS
<1>15. all \in Seq(T) /\ ToSet(all) = T
  <2>1. PICK uv \in Seq(T) : uv = u \o v
    BY <1>13
  <2>2. PICK t \in Seq(T) : t = w
    BY <1>12
  <2>3. uv \o t \in Seq(T)
    OBVIOUS
  <2>4. ToSet(uv \o t) = ToSet(uv) \cup ToSet(t)
    BY ToSetConcat
  <2> QED BY <1>6, <1>13, <1>14, <2>1, <2>2, <2>3, <2>4
<1>16. \A r \in T :
         /\ IsReference(r)
         /\ \/ r.source = {}
            \/ plan.shots # << >> /\ r.source = {plan.shots[Len(plan.shots)].asset}
            \/ r.made /\ \E a : r.source = {a}
  BY <1>2, <1>4, <1>6, <1>11, Zenon
<1>17. PICK m : m = Numbered(all)
  OBVIOUS
<1>18. /\ m \in Seq(ToSet(m))
       /\ \A r \in ToSet(m) : IsReference(r) /\ \E s \in ToSet(all) : r.source = s.source /\ r.made = s.made
  BY <1>15, <1>16, <1>17, NumberedKeeps
<1>19. /\ NextShot.order = i /\ NextShot.refs = m
       /\ NextShot.deps = UNION {r.source : r \in ToSet(m)}
  BY <1>1, <1>3, <1>5, <1>14, <1>17, Zenon DEF NextShot, PlannedShot
<1>20. \A r \in ToSet(m) :
         /\ IsReference(r)
         /\ \/ r.source = {}
            \/ plan.shots # << >> /\ r.source = {plan.shots[Len(plan.shots)].asset}
            \/ r.made /\ \E a : r.source = {a}
  BY <1>15, <1>16, <1>18
<1> HIDE DEF NextShot
<1> QED BY <1>18, <1>19, <1>20

LEMMA AppendAt ==
  ASSUME NEW T, NEW s \in Seq(T), NEW e
  PROVE  LET u == Append(s, e) IN
         /\ u \in Seq(T \cup {e}) /\ Len(u) = Len(s) + 1 /\ DOMAIN u = 1..(Len(s) + 1)
         /\ \A i \in 1..Len(s) : u[i] = s[i]
         /\ u[Len(s) + 1] = e
OBVIOUS

LEMMA DraftShotDrafted ==
  ASSUME Requested, Drafted(plan), Len(draft.shots) = Len(input.shots),
         Len(plan.shots) < Len(input.shots), ShotProblem(NextShot) = "none",
         input.shots \in Seq(ToSet(input.shots)), draft.shots \in Seq(ToSet(draft.shots)),
         NEW q, q = [plan EXCEPT !.shots = Append(@, NextShot)]
  PROVE  Drafted(q)
<1>1. IsPlan(plan)
  BY DEF Drafted
<1>2. PICK T : plan.shots \in Seq(T)
  BY <1>1 DEF IsPlan, IsSequence
<1>3. PICK n \in Nat : n = Len(plan.shots)
  <2>1. Len(plan.shots) \in Nat
    BY <1>2
  <2> QED BY <2>1
<1>4. DOMAIN plan.shots = 1..n
  BY <1>2, <1>3
<1>5. n + 1 \in DOMAIN input.shots /\ n + 1 \in DOMAIN draft.shots
  <2>1. Len(input.shots) \in Nat /\ DOMAIN input.shots = 1..Len(input.shots)
    OBVIOUS
  <2>2. DOMAIN draft.shots = 1..Len(input.shots)
    OBVIOUS
  <2> QED BY <1>3, <2>1, <2>2
<1>6. PICK next : next = NextShot
  OBVIOUS
<1>7. /\ next.order = n + 1
      /\ next.deps = UNION {r.source : r \in ToSet(next.refs)}
      /\ next.refs \in Seq(ToSet(next.refs))
      /\ \A r \in ToSet(next.refs) :
           /\ IsReference(r)
           /\ \/ r.source = {}
              \/ plan.shots # << >> /\ r.source = {plan.shots[Len(plan.shots)].asset}
              \/ r.made /\ \E a : r.source = {a}
  <2> HIDE DEF NextShot
  <2>1. PICK i : i = n + 1
    OBVIOUS
  <2>2. i = Len(plan.shots) + 1 /\ i \in DOMAIN input.shots /\ i \in DOMAIN draft.shots
    BY <1>3, <1>5, <2>1
  <2> QED BY <1>1, <1>6, <2>1, <2>2, NextRefs
<1>8. \A r \in ToSet(next.refs) : r.made => r.source \subseteq SharedOf(plan)
  BY <1>6 DEF ShotProblem, Known, SharedOf
<1>9. next = PlannedShot(next.id, next.order, next.asset, next.previous, next.refs, next.deps)
  BY <1>6, Zenon DEF NextShot, PlannedShot
<1>10. q = [shared |-> plan.shared, shots |-> Append(plan.shots, next)]
  BY <1>1, <1>6 DEF IsPlan
<1>11. PICK shots : shots = Append(plan.shots, next)
  OBVIOUS
<1>12. /\ shots \in Seq(T \cup {next}) /\ DOMAIN shots = 1..(n + 1)
       /\ \A i \in 1..n : shots[i] = plan.shots[i]
       /\ shots[n + 1] = next
  <2>1. PICK old \in Seq(T) : old = plan.shots
    BY <1>2
  <2>2. shots = Append(old, next) /\ n = Len(old)
    BY <1>3, <1>11, <2>1
  <2> QED BY <2>1, <2>2, AppendAt
<1>13. q.shared = plan.shared /\ q.shots = shots /\ q = [shared |-> q.shared, shots |-> q.shots]
  <2>1. q = [shared |-> plan.shared, shots |-> shots]
    BY <1>10, <1>11
  <2> QED BY ONLY <2>1
<1>14. IsPlan(q)
  <2>1. ASSUME NEW s \in ToSet(shots) PROVE s \in ToSet(plan.shots) \/ s = next
    <3>1. PICK i \in 1..(n + 1) : s = shots[i]
      BY <1>12, <2>1 DEF ToSet
    <3>2. i \in 1..n \/ i = n + 1
      OBVIOUS
    <3> QED BY <1>4, <1>12, <3>1, <3>2 DEF ToSet
  <2>2. \A s \in ToSet(plan.shots) :
          s = PlannedShot(s.id, s.order, s.asset, s.previous, s.refs, s.deps)
    BY <1>1 DEF IsPlan
  <2> QED BY <1>1, <1>9, <1>12, <1>13, <2>1, <2>2 DEF IsPlan, IsSequence
<1>15. ASSUME NEW i \in 1..n PROVE DraftedShot(q, i)
  <2>1. DraftedShot(plan, i)
    BY <1>4 DEF Drafted
  <2>2. \A j \in 1..(i - 1) : j \in 1..n
    BY <1>15
  <2>3. {q.shots[j].asset : j \in 1..(i - 1)} = {plan.shots[j].asset : j \in 1..(i - 1)}
    BY <1>12, <1>13, <2>2
  <2>4. SharedOf(q) = SharedOf(plan)
    BY <1>13 DEF SharedOf
  <2>5. q.shots[i] = plan.shots[i]
    BY <1>12, <1>13
  <2> QED BY <2>1, <2>3, <2>4, <2>5 DEF DraftedShot, DraftedRef
<1>16. DraftedShot(q, n + 1)
  <2>1. q.shots[n + 1] = next
    BY <1>12, <1>13
  <2>2. SharedOf(q) = SharedOf(plan)
    BY <1>13 DEF SharedOf
  <2>3. ASSUME NEW r \in ToSet(next.refs) PROVE DraftedRef(q, n + 1, r)
    <3>1. IsReference(r)
      BY <1>7
    <3>2. CASE r.source = {}
      BY <3>1, <3>2 DEF DraftedRef
    <3>3. CASE plan.shots # << >> /\ r.source = {plan.shots[n].asset}
      <4>1. n \in 1..n
        <5>1. n # 0
          BY <1>2, <1>3, <3>3
        <5> QED BY <5>1
      <4>2. n \in 1..((n + 1) - 1)
        BY <4>1
      <4>3. q.shots[n] = plan.shots[n]
        BY <1>12, <1>13, <4>1
      <4> QED BY <3>1, <3>3, <4>2, <4>3 DEF DraftedRef
    <3>4. CASE r.made /\ \E a : r.source = {a}
      <4>1. PICK a : r.source = {a}
        BY <3>4
      <4>2. a \in SharedOf(q)
        BY <1>8, <2>2, <3>4, <4>1
      <4> QED BY <3>1, <4>1, <4>2 DEF DraftedRef
    <3> QED BY <1>3, <1>7, <3>2, <3>3, <3>4
  <2> QED BY <1>7, <2>1, <2>3 DEF DraftedShot
<1>17. \A i \in DOMAIN q.shots : DraftedShot(q, i)
  <2>1. \A i \in 1..(n + 1) : i \in 1..n \/ i = n + 1
    OBVIOUS
  <2> QED BY <1>12, <1>13, <1>15, <1>16, <2>1
<1> QED BY <1>13, <1>14, <1>17 DEF Drafted

-----------------------------------------------------------------------------
(* What a shot is fed with                                                   *)

\* f joins the lists one by one.
Flattening(f, seqs, A) ==
  /\ \A i \in 1..Len(seqs) :
       f[i] \in Seq(A) /\ f[i] = IF i = 1 THEN seqs[i] ELSE f[i - 1] \o seqs[i]
  /\ FlattenSeq(seqs) = IF Len(seqs) = 0 THEN << >> ELSE f[Len(seqs)]

LEMMA FlattenFold ==
  ASSUME NEW A, NEW seqs \in Seq(Seq(A))
  PROVE  \E f : Flattening(f, seqs, A)
<1> DEFINE P(f) == f = [i \in 1..Len(seqs) |-> IF i = 1 THEN seqs[i] ELSE f[i - 1] \o seqs[i]]
<1>1. PICK n \in Nat : n = Len(seqs) /\ DOMAIN seqs = 1..n /\ \A i \in 1..n : seqs[i] \in Seq(A)
  <2>1. Len(seqs) \in Nat /\ DOMAIN seqs = 1..Len(seqs) /\ \A i \in 1..Len(seqs) : seqs[i] \in Seq(A)
    OBVIOUS
  <2> QED BY <2>1, Zenon
<1>2. CASE n = 0
  <2>1. seqs = << >>
    BY <1>1, <1>2
  <2>2. FlattenSeq(seqs) = << >>
    BY <1>1, <1>2, <2>1 DEF FlattenSeq
  <2>3. \A i : i \notin 1..n
    BY <1>2
  <2>4. Flattening(<< >>, seqs, A)
    BY <1>1, <1>2, <2>2, <2>3 DEF Flattening
  <2> QED BY <2>4
<1>3. CASE n # 0
  \* Up to m there is such a function.
  <2> DEFINE Flat(f, m) == \A i \in 1..m : f[i] = IF i = 1 THEN seqs[i] ELSE f[i - 1] \o seqs[i]
             S == {m \in 0..n : \E f \in [1..m -> Seq(A)] : Flat(f, m)}
  <2>1. 0 \in S
    <3>1. \A i : i \notin 1..0
      OBVIOUS
    <3> DEFINE f == [i \in 1..0 |-> << >>]
    <3>2. f \in [1..0 -> Seq(A)]
      BY <3>1
    <3>3. Flat(f, 0)
      BY <3>1
    <3>4. 0 \in 0..n
      OBVIOUS
    <3> HIDE DEF f, Flat
    <3> QED BY <3>2, <3>3, <3>4
  <2>2. ASSUME NEW m \in 1..n, m - 1 \in S PROVE m \in S
    <3>1. PICK g \in [1..(m - 1) -> Seq(A)] : Flat(g, m - 1)
      BY <2>2
    <3> DEFINE f == [i \in 1..m |-> IF i = m THEN (IF m = 1 THEN seqs[m] ELSE g[m - 1] \o seqs[m]) ELSE g[i]]
    <3>2. m \in Nat /\ seqs[m] \in Seq(A) /\ (m # 1 => m - 1 \in 1..(m - 1))
      BY <1>1
    <3>3. m # 1 => g[m - 1] \o seqs[m] \in Seq(A)
      BY <3>1, <3>2
    <3>4. \A i \in 1..m : i # m => i \in 1..(m - 1)
      OBVIOUS
    <3>5. f \in [1..m -> Seq(A)]
      BY <3>1, <3>2, <3>3, <3>4
    <3>6. Flat(f, m)
      <4>1. ASSUME NEW i \in 1..m PROVE f[i] = IF i = 1 THEN seqs[i] ELSE f[i - 1] \o seqs[i]
        <5>1. CASE i = m
          <6>1. m # 1 => f[m - 1] = g[m - 1]
            BY <3>2
          <6> QED BY <5>1, <6>1
        <5>2. CASE i # m
          <6>1. i \in 1..(m - 1) /\ f[i] = g[i]
            BY <3>4, <5>2
          <6>2. i # 1 => i - 1 \in 1..m /\ i - 1 # m
            BY <6>1
          <6> QED BY <3>1, <6>1, <6>2
        <5> QED BY <5>1, <5>2
      <4> QED BY <4>1
    <3>7. m \in 0..n
      OBVIOUS
    <3> HIDE DEF f, Flat
    <3> QED BY <3>5, <3>6, <3>7
  <2>3. \A i \in 0..n : i \in S
    <3> HIDE DEF S
    <3>1. \A i \in 1..n : i - 1 \in S => i \in S
      BY <2>2
    <3> QED BY <2>1, <3>1, UpTo, Zenon
  <2>4. PICK g \in [1..n -> Seq(A)] : Flat(g, n)
    <3>1. n \in 0..n
      OBVIOUS
    <3>2. n \in S
      BY <2>3, <3>1
    <3> QED BY <3>2
  <2>5. P(g)
    BY <1>1, <2>4
  <2>6. FlattenSeq(seqs) = (CHOOSE f : P(f))[Len(seqs)]
    BY <1>1, <1>3 DEF FlattenSeq
  <2>7. PICK f : f = CHOOSE h : P(h)
    OBVIOUS
  <2>8. P(f)
    <3> HIDE DEF P
    <3>1. \E h : P(h)
      BY <2>5
    <3>2. P(CHOOSE h : P(h))
      BY <3>1, Zenon
    <3> QED BY <2>7, <3>2
  <2> DEFINE R == {i \in 0..n : i = 0 \/ f[i] \in Seq(A)}
  <2>9. 0 \in R
    OBVIOUS
  <2>10. ASSUME NEW i \in 1..n, i - 1 \in R PROVE i \in R
    <3>1. f[i] = IF i = 1 THEN seqs[i] ELSE f[i - 1] \o seqs[i]
      BY <1>1, <2>8
    <3>2. i # 1 => f[i - 1] \in Seq(A)
      BY <2>10
    <3>3. seqs[i] \in Seq(A)
      BY <1>1
    <3>4. f[i] \in Seq(A)
      BY <3>1, <3>2, <3>3
    <3>5. i \in 0..n
      OBVIOUS
    <3> QED BY <3>4, <3>5
  <2>11. \A i \in 0..n : i \in R
    <3> HIDE DEF R
    <3>1. \A i \in 1..n : i - 1 \in R => i \in R
      BY <2>10
    <3> QED BY <2>9, <3>1, UpTo, Zenon
  <2>12. \A i \in 1..n : f[i] \in Seq(A)
    <3>1. \A i \in 1..n : i \in 0..n /\ i # 0
      OBVIOUS
    <3> QED BY <2>11, <3>1
  <2>13. \A i \in 1..n : f[i] = IF i = 1 THEN seqs[i] ELSE f[i - 1] \o seqs[i]
    BY <1>1, <2>8
  <2>14. FlattenSeq(seqs) = f[n]
    BY <1>1, <2>6, <2>7
  <2>15. Flattening(f, seqs, A)
    BY <1>1, <1>3, <2>12, <2>13, <2>14 DEF Flattening
  <2> QED BY <2>15
<1> QED BY <1>2, <1>3

LEMMA FlattenInside ==
  ASSUME NEW A, NEW seqs \in Seq(Seq(A))
  PROVE  FlattenSeq(seqs) \in Seq(A)
<1>1. PICK f : Flattening(f, seqs, A)
  BY FlattenFold
<1>2. Len(seqs) \in Nat
  OBVIOUS
<1>3. CASE Len(seqs) = 0
  BY <1>1, <1>3 DEF Flattening
<1>4. CASE Len(seqs) # 0
  <2>1. Len(seqs) \in 1..Len(seqs)
    BY <1>2, <1>4
  <2> QED BY <1>1, <1>4, <2>1 DEF Flattening
<1> QED BY <1>3, <1>4

\* What is in one of the lists is in their join.
LEMMA FlattenOnto ==
  ASSUME NEW A, NEW seqs \in Seq(Seq(A)), NEW k \in DOMAIN seqs
  PROVE  ToSet(seqs[k]) \subseteq ToSet(FlattenSeq(seqs))
<1>1. PICK n \in Nat : n = Len(seqs) /\ DOMAIN seqs = 1..n /\ \A i \in 1..n : seqs[i] \in Seq(A)
  <2>1. Len(seqs) \in Nat /\ DOMAIN seqs = 1..Len(seqs) /\ \A i \in 1..Len(seqs) : seqs[i] \in Seq(A)
    OBVIOUS
  <2> QED BY <2>1, Zenon
<1>2. PICK f : Flattening(f, seqs, A)
  BY FlattenFold
<1>3. /\ \A i \in 1..n : f[i] \in Seq(A) /\ f[i] = IF i = 1 THEN seqs[i] ELSE f[i - 1] \o seqs[i]
      /\ FlattenSeq(seqs) = f[n]
  <2>1. n # 0
    BY <1>1
  <2> QED BY <1>1, <1>2, <2>1 DEF Flattening
<1> DEFINE S == {i \in 0..n : \A j \in 1..i : ToSet(seqs[j]) \subseteq ToSet(f[i])}
<1>4. 0 \in S
  <2>1. \A j : j \notin 1..0
    OBVIOUS
  <2>2. 0 \in 0..n
    OBVIOUS
  <2> QED BY <2>1, <2>2
<1>5. ASSUME NEW i \in 1..n, i - 1 \in S PROVE i \in S
  <2>1. CASE i = 1
    <3>1. f[i] = seqs[i] /\ \A j \in 1..i : j = i
      BY <1>3, <2>1
    <3> QED BY <3>1
  <2>2. CASE i # 1
    <3>1. i - 1 \in 1..n /\ \A j \in 1..i : j = i \/ j \in 1..(i - 1)
      BY <2>2
    <3>2. PICK s \in Seq(A), t \in Seq(A) : s = f[i - 1] /\ t = seqs[i]
      BY <1>1, <1>3, <3>1
    <3>3. f[i] = s \o t
      BY <1>3, <2>2, <3>2
    <3>4. ToSet(f[i]) = ToSet(s) \cup ToSet(t)
      BY <3>3, ToSetConcat
    <3>5. \A j \in 1..(i - 1) : ToSet(seqs[j]) \subseteq ToSet(s)
      BY <1>5, <3>2
    <3> QED BY <3>1, <3>2, <3>4, <3>5
  <2> QED BY <2>1, <2>2
<1>6. \A i \in 0..n : i \in S
  <2> HIDE DEF S
  <2>1. \A i \in 1..n : i - 1 \in S => i \in S
    BY <1>5
  <2> QED BY <1>4, <2>1, UpTo, Zenon
<1>7. n \in S
  <2>1. n \in 0..n
    OBVIOUS
  <2> QED BY <1>6, <2>1
<1> QED BY <1>1, <1>3, <1>7

\* A finite set as a list.
LEMMA SetAsList ==
  ASSUME NEW S, IsFiniteSet(S)
  PROVE  SetToSeq(S) \in Seq(S)
<1>1. PICK n \in Nat : n = Cardinality(S)
  BY FS_CardinalityType
<1>2. PICK f : f \in Bijection(1..n, S)
  BY <1>1, FS_CardinalityType DEF ExistsBijection
<1>3. f \in [1..n -> S] /\ IsInjective(f)
  BY <1>2 DEF Bijection, Injection
<1>4. SetToSeq(S) \in [1..n -> S]
  <2> DEFINE Q(h) == h \in [1..n -> S] /\ IsInjective(h)
  <2>1. SetToSeq(S) = CHOOSE h \in [1..n -> S] : IsInjective(h)
    BY <1>1 DEF SetToSeq
  <2>2. (CHOOSE h \in [1..n -> S] : IsInjective(h)) \in [1..n -> S]
    BY <1>3
  <2> QED BY <2>1, <2>2
<1> QED BY <1>4

\* The images that a drafted shot is fed with are those it depends on.
LEMMA SourcesKnown ==
  ASSUME NEW p, Drafted(p), NEW i \in DOMAIN p.shots
  PROVE  ToSet(SourcesOf(p.shots[i])) \subseteq SharedOf(p) \cup {p.shots[j].asset : j \in 1..(i - 1)}
<1>1. PICK A : A = SharedOf(p) \cup {p.shots[j].asset : j \in 1..(i - 1)}
  OBVIOUS
<1>2. PICK refs : refs = p.shots[i].refs
  OBVIOUS
<1>3. /\ refs \in Seq(ToSet(refs))
      /\ \A r \in ToSet(refs) : r.source = {} \/ \E a \in A : r.source = {a}
  BY <1>1, <1>2 DEF Drafted, DraftedShot, DraftedRef
<1>4. ASSUME NEW k \in DOMAIN refs PROVE SetToSeq(refs[k].source) \in Seq(A)
  <2>1. PICK S : S = refs[k].source
    OBVIOUS
  <2>2. S = {} \/ \E a \in A : S = {a}
    BY <1>3, <2>1 DEF ToSet
  <2>3. IsFiniteSet(S) /\ S \subseteq A
    BY <2>2, FS_EmptySet, FS_Singleton
  <2>4. SetToSeq(S) \in Seq(S)
    BY <2>3, SetAsList
  <2>5. Seq(S) \subseteq Seq(A)
    BY <2>3
  <2> QED BY <2>1, <2>4, <2>5
<1>5. PICK seqs : seqs = [k \in DOMAIN refs |-> SetToSeq(refs[k].source)]
  OBVIOUS
<1>6. seqs \in Seq(Seq(A))
  <2>1. Len(refs) \in Nat /\ DOMAIN refs = 1..Len(refs)
    BY <1>3
  <2>2. seqs = [k \in 1..Len(refs) |-> seqs[k]] /\ \A k \in 1..Len(refs) : seqs[k] \in Seq(A)
    BY <1>4, <1>5, <2>1
  <2> QED BY <2>1, <2>2
<1>7. FlattenSeq(seqs) \in Seq(A)
  BY <1>6, FlattenInside
<1>8. SourcesOf(p.shots[i]) = FlattenSeq(seqs)
  BY <1>2, <1>5 DEF SourcesOf
<1>9. ToSet(FlattenSeq(seqs)) \subseteq A
  <2>1. PICK s \in Seq(A) : s = FlattenSeq(seqs)
    BY <1>7
  <2>2. \A k \in DOMAIN s : s[k] \in A
    OBVIOUS
  <2> QED BY <2>1, <2>2 DEF ToSet
<1> QED BY <1>1, <1>8, <1>9

-----------------------------------------------------------------------------
(* What is drafted compiles                                                  *)

\* Of a plan that no caller wrote: what it is made from, what has been made of it and, while it is
\* compiled, that the images of its shared images and of the shots gone past have a node.
DraftInv ==
  /\ phase = "check" => stage = "idle"
  /\ stage # "idle" => phase = "planned"
  /\ stage = "idle" => subgraphs = << >>
  /\ origin # "caller" =>
       /\ Requested
       /\ phase = "request" => plan = NoPlan
       /\ phase = "drafting" => Len(draft.shots) = Len(input.shots)
       /\ phase \in {"drafting", "check", "resolve", "planned"} => Drafted(plan)
       /\ phase \in {"resolve", "planned"} => Problem(plan) = "none"
       /\ stage = "ui" =>
            /\ IsSequence(subgraphs)
            /\ SharedOf(plan) \cup {plan.shots[j].asset : j \in 1..Len(subgraphs)} \subseteq DOMAIN uiMade
       /\ stage # "failed"

LEMMA DraftInvInit == Init => DraftInv
BY DEF Init, PlanInit, CompileInit, DraftInv, Requested

LEMMA BeginDraftKeeps == DraftInv /\ BeginDraft /\ UNCHANGED compileVars => DraftInv'
<1> SUFFICES ASSUME DraftInv, BeginDraft, UNCHANGED compileVars
             PROVE  DraftInv'
  OBVIOUS
<1>1. phase = "request" /\ stage = "idle" /\ stage' = "idle" /\ subgraphs' = subgraphs
  BY DEF BeginDraft, DraftInv, compileVars
<1>2. CASE RequestProblem # "none" /\ Refuse(RequestProblem)
  BY <1>1, <1>2 DEF DraftInv, Refuse, Requested
<1>3. CASE RequestProblem = "none"
  <2> DEFINE image(k) == SharedAsset(draft.shared[k].asset, << >>, {}, draft.shared[k].fact,
                                     draft.shared[k].visual)
             images == [k \in DOMAIN draft.shared |-> image(k)]
  <2>1. /\ phase' = "drafting" /\ plan' = [NoPlan EXCEPT !.shared = images]
        /\ origin' = origin /\ input' = input /\ draft' = draft
    BY <1>3, <1>1 DEF BeginDraft
  <2>2. \A k \in DOMAIN draft.shared : image(k).deps = {} /\ image(k).refs = << >>
    BY DEF SharedAsset
  <2>3. ASSUME origin # "caller" PROVE draft.shared \in Seq(ToSet(draft.shared))
    <3>1. Requested
      BY <2>3 DEF DraftInv
    <3>2. CASE draft \in Drafts
      BY <3>2, DraftsAssumption
    <3>3. CASE draft = DeterministicDraft(input)
      <4>1. PICK one : one = [asset |-> StyleBible, fact |-> FALSE, visual |-> FALSE]
        OBVIOUS
      <4>2. draft.shared = <<one>>
        BY <3>3, <4>1 DEF DeterministicDraft
      <4>3. ToSet(<<one>>) = {one} /\ <<one>> \in Seq({one})
        BY DEF ToSet
      <4> QED BY <4>2, <4>3
    <3> QED BY <3>1, <3>2, <3>3 DEF Requested
  <2> HIDE DEF image
  <2>4. ASSUME origin # "caller" PROVE Drafted(plan')
    <3>1. images \in Seq({image(k) : k \in DOMAIN draft.shared}) /\ DOMAIN images = DOMAIN draft.shared
      BY <2>3, <2>4
    <3> HIDE DEF images
    <3>2. plan' = [shared |-> images, shots |-> << >>]
      BY <2>1 DEF NoPlan
    <3>3. plan'.shared = images /\ plan'.shots = << >> /\ plan' = [shared |-> plan'.shared, shots |-> plan'.shots]
      BY ONLY <3>2
    <3>4. << >> \in Seq({}) /\ ToSet(<< >>) = {} /\ DOMAIN << >> = {}
      BY DEF ToSet
    <3>5. \A a \in ToSet(images) : a.deps = {} /\ a.refs = << >>
      BY <2>2, <3>1 DEF ToSet, images
    <3>6. IsPlan(plan')
      BY <3>1, <3>3, <3>4 DEF IsPlan, IsSequence
    <3> QED BY <3>3, <3>4, <3>5, <3>6 DEF Drafted
  <2>5. RequestProblem = "none" => Len(draft.shots) = Len(input.shots)
    BY DEF RequestProblem
  <2> QED BY <1>1, <1>3, <2>1, <2>4, <2>5 DEF DraftInv, Requested
<1> QED BY <1>2, <1>3 DEF BeginDraft

LEMMA DraftShotKeeps == DraftInv /\ DraftShot /\ UNCHANGED compileVars => DraftInv'
<1> SUFFICES ASSUME DraftInv, DraftShot, UNCHANGED compileVars
             PROVE  DraftInv'
  OBVIOUS
<1>1. phase = "drafting" /\ stage = "idle" /\ stage' = "idle" /\ subgraphs' = subgraphs
  BY DEF DraftShot, DraftInv, compileVars
<1>2. CASE ShotProblem(NextShot) # "none" /\ Refuse(ShotProblem(NextShot))
  <2> HIDE DEF NextShot
  <2> QED BY <1>1, <1>2 DEF DraftInv, Refuse, Requested
<1>3. CASE ShotProblem(NextShot) = "none"
  <2>1. /\ plan' = [plan EXCEPT !.shots = Append(@, NextShot)]
        /\ origin' = origin /\ input' = input /\ draft' = draft /\ phase' = "drafting"
        /\ Len(plan.shots) < Len(input.shots)
    BY <1>1, <1>3 DEF DraftShot
  <2>2. ASSUME origin # "caller" PROVE Drafted(plan')
    <3>1. Requested /\ Drafted(plan) /\ Len(draft.shots) = Len(input.shots)
      BY <1>1, <2>2 DEF DraftInv
    <3>2. input.shots \in Seq(ToSet(input.shots))
      BY <3>1, InputsAssumption DEF Requested
    <3>3. draft.shots \in Seq(ToSet(draft.shots))
      <4>1. CASE draft \in Drafts
        BY <4>1, DraftsAssumption
      <4>2. CASE draft = DeterministicDraft(input)
        <5>1. PICK made : made = [i \in DOMAIN input.shots |-> [previous |-> i > 1, shared |-> <<StyleBible>>]]
          OBVIOUS
        <5>2. draft.shots = made
          BY <4>2, <5>1 DEF DeterministicDraft
        <5>3. Len(input.shots) \in Nat /\ DOMAIN input.shots = 1..Len(input.shots)
          BY <3>2
        <5>4. made = [i \in 1..Len(input.shots) |-> made[i]] /\ \A i \in 1..Len(input.shots) : made[i] \in ToSet(made)
          BY <5>1, <5>3 DEF ToSet
        <5>5. made \in Seq(ToSet(made))
          BY <5>3, <5>4
        <5> QED BY <5>2, <5>5
      <4> QED BY <3>1, <4>1, <4>2 DEF Requested
    <3>4. PICK q : q = [plan EXCEPT !.shots = Append(@, NextShot)]
      OBVIOUS
    <3> HIDE DEF NextShot
    <3>5. Drafted(q)
      BY <1>3, <2>1, <3>1, <3>2, <3>3, <3>4, DraftShotDrafted
    <3> QED BY <2>1, <3>4, <3>5
  <2> HIDE DEF NextShot
  <2> QED BY <1>1, <2>1, <2>2 DEF DraftInv, Requested
<1> QED BY <1>2, <1>3 DEF DraftShot

LEMMA OtherPlanStepsKeep ==
  DraftInv /\ (EndDraft \/ CheckGraph \/ ResolveLayer) /\ UNCHANGED compileVars => DraftInv'
<1> SUFFICES ASSUME DraftInv, UNCHANGED compileVars, EndDraft \/ CheckGraph \/ ResolveLayer
             PROVE  DraftInv'
  OBVIOUS
<1>1. phase # "planned" /\ stage = "idle" /\ stage' = "idle" /\ subgraphs' = subgraphs
  BY DEF EndDraft, CheckGraph, ResolveLayer, DraftInv, compileVars
<1>2. /\ origin' = origin /\ input' = input /\ draft' = draft /\ plan' = plan
      /\ phase' \in {"check", "resolve", "refused"}
      /\ phase \in {"drafting", "check", "resolve"}
      /\ phase' = "resolve" => phase = "resolve" \/ Problem(plan) = "none"
  BY DEF EndDraft, CheckGraph, ResolveLayer, Refuse
<1> QED BY <1>1, <1>2 DEF DraftInv, Requested

LEMMA AcceptKeeps == DraftInv /\ Accept /\ UNCHANGED compileVars => DraftInv'
<1> SUFFICES ASSUME DraftInv, Accept, UNCHANGED compileVars
             PROVE  DraftInv'
  OBVIOUS
<1>1. /\ phase = "resolve" /\ phase' = "planned" /\ stage = "idle" /\ stage' = "idle" /\ subgraphs' = subgraphs
      /\ origin' = origin /\ input' = input /\ draft' = draft
      /\ plan' \in {InOrder(plan), GeneratedFirst(InOrder(plan))}
  BY DEF Accept, DraftInv, compileVars
<1>2. ASSUME origin # "caller" PROVE Drafted(plan') /\ Problem(plan') = "none"
  <2>1. Drafted(plan) /\ Problem(plan) = "none"
    BY <1>1, <1>2 DEF DraftInv
  <2>2. PICK q \in {InOrder(plan), GeneratedFirst(InOrder(plan))} : q = plan'
    BY <1>1
  <2> QED BY <2>1, <2>2, AcceptDrafted
<1> QED BY <1>1, <1>2 DEF DraftInv, Requested

LEMMA BeginCompileKeeps == DraftInv /\ BeginCompile => DraftInv'
<1> SUFFICES ASSUME DraftInv, BeginCompile
             PROVE  DraftInv'
  OBVIOUS
<1>1. phase = "planned" /\ stage = "idle" /\ subgraphs = << >>
  BY DEF BeginCompile, DraftInv
<1>2. ASSUME origin # "caller" PROVE Compilable
  <2>1. Drafted(plan) /\ Problem(plan) = "none"
    BY <1>1, <1>2 DEF DraftInv
  <2>2. ASSUME NEW s \in ToSet(plan.shots) PROVE s.deps \subseteq UNION {r.source : r \in ToSet(s.refs)}
    <3>1. PICK i \in DOMAIN plan.shots : s = plan.shots[i]
      BY <2>2 DEF ToSet
    <3>2. DraftedShot(plan, i)
      BY <2>1 DEF Drafted
    <3> QED BY <3>1, <3>2 DEF DraftedShot
  <2> QED BY <2>1, <2>2 DEF Compilable, Drafted
<1>3. CASE ~Compilable /\ Fail
  <2>1. origin = "caller" /\ stage' = "failed" /\ UNCHANGED planVars
    BY <1>2, <1>3 DEF Fail
  <2> QED BY <1>1, <2>1 DEF DraftInv, planVars
<1>4. CASE Compilable
  <2>1. /\ stage' = "ui" /\ UNCHANGED planVars /\ subgraphs' = << >>
        /\ DOMAIN uiMade' = {plan.shared[k].asset : k \in DOMAIN plan.shared}
    BY <1>1, <1>4 DEF BeginCompile
  <2>2. SharedOf(plan) \subseteq DOMAIN uiMade'
    BY <2>1 DEF SharedOf, ToSet
  <2>3. << >> \in Seq({}) /\ Len(<< >>) = 0 /\ 1..0 = {}
    OBVIOUS
  <2>4. {plan.shots[j].asset : j \in 1..Len(subgraphs')} = {}
    BY <2>1, <2>3
  <2>5. IsSequence(subgraphs')
    BY <2>1, <2>3 DEF IsSequence
  <2> QED BY <1>1, <2>1, <2>2, <2>4, <2>5 DEF DraftInv, planVars, Requested
<1> QED BY <1>3, <1>4 DEF BeginCompile

LEMMA UiShotKeeps == DraftInv /\ UiShot => DraftInv'
<1> SUFFICES ASSUME DraftInv, UiShot
             PROVE  DraftInv'
  OBVIOUS
<1> DEFINE i == Len(subgraphs) + 1
           shot == plan.shots[i]
           sources == SourcesOf(shot)
<1>1. stage = "ui" /\ phase = "planned" /\ i <= Len(plan.shots) /\ UNCHANGED planVars
  BY DEF UiShot, DraftInv, Fail
<1>2. CASE ~(ToSet(sources) \subseteq DOMAIN uiMade) /\ Fail
  <2>1. ASSUME origin # "caller" PROVE FALSE
    <3>1. /\ Drafted(plan) /\ IsSequence(subgraphs)
          /\ SharedOf(plan) \cup {plan.shots[j].asset : j \in 1..Len(subgraphs)} \subseteq DOMAIN uiMade
      BY <1>1, <2>1 DEF DraftInv
    <3>2. PICK n \in Nat : n = Len(subgraphs)
      <4>1. Len(subgraphs) \in Nat
        BY <3>1 DEF IsSequence
      <4> QED BY <4>1
    <3>3. PICK k : k = n + 1
      OBVIOUS
    <3>4. k \in DOMAIN plan.shots /\ 1..(k - 1) = 1..n
      <4>1. DOMAIN plan.shots = 1..Len(plan.shots) /\ Len(plan.shots) \in Nat
        BY <3>1 DEF Drafted, IsPlan, IsSequence
      <4> QED BY <1>1, <3>2, <3>3, <4>1
    <3>5. ToSet(SourcesOf(plan.shots[k])) \subseteq SharedOf(plan) \cup {plan.shots[j].asset : j \in 1..(k - 1)}
      BY <3>1, <3>4, SourcesKnown
    <3>6. sources = SourcesOf(plan.shots[k])
      BY <3>2, <3>3
    <3> HIDE DEF sources
    <3> QED BY <1>2, <3>1, <3>2, <3>4, <3>5, <3>6
  <2> QED BY <1>1, <1>2, <2>1 DEF DraftInv, Fail, planVars
<1>3. CASE ToSet(sources) \subseteq DOMAIN uiMade
  <2>1. PICK g : subgraphs' = Append(subgraphs, g)
    BY <1>3 DEF UiShot
  <2>2. /\ DOMAIN uiMade' = DOMAIN uiMade \cup {shot.asset} /\ stage' = "ui"
    BY <1>1, <1>3 DEF UiShot, Put
  <2>3. ASSUME origin # "caller"
        PROVE  /\ IsSequence(subgraphs')
               /\ SharedOf(plan) \cup {plan.shots[j].asset : j \in 1..Len(subgraphs')} \subseteq DOMAIN uiMade'
    <3>1. /\ IsSequence(subgraphs)
          /\ SharedOf(plan) \cup {plan.shots[j].asset : j \in 1..Len(subgraphs)} \subseteq DOMAIN uiMade
      BY <1>1, <2>3 DEF DraftInv
    <3>2. PICK T : subgraphs \in Seq(T)
      BY <3>1 DEF IsSequence
    <3>3. PICK s \in Seq(T) : s = subgraphs
      BY <3>2
    <3>4. PICK n \in Nat : n = Len(s)
      OBVIOUS
    <3>5. PICK t : t = Append(s, g)
      OBVIOUS
    <3>6. t \in Seq(T \cup {g}) /\ Len(t) = n + 1
      BY <3>4, <3>5, AppendAt
    <3>7. subgraphs' = t
      BY <2>1, <3>3, <3>5
    <3>8. IsSequence(subgraphs')
      BY <3>6, <3>7 DEF IsSequence
    <3>9. \A j \in 1..(n + 1) : j \in 1..n \/ j = n + 1
      OBVIOUS
    <3>10. \A j \in 1..(n + 1) : plan.shots[j].asset \in DOMAIN uiMade'
      BY <2>2, <3>1, <3>3, <3>4, <3>9
    <3>11. {plan.shots[j].asset : j \in 1..Len(subgraphs')} \subseteq DOMAIN uiMade'
      BY <3>6, <3>7, <3>10
    <3> QED BY <2>2, <3>1, <3>8, <3>11
  <2> HIDE DEF i, shot, sources
  <2> QED BY <1>1, <2>2, <2>3 DEF DraftInv, planVars, Requested
<1> QED BY <1>2, <1>3 DEF UiShot

LEMMA OtherCompileStepsKeep == DraftInv /\ (UiEnd \/ ApiShot \/ ApiEnd) => DraftInv'
<1> SUFFICES ASSUME DraftInv, UiEnd \/ ApiShot \/ ApiEnd
             PROVE  DraftInv'
  OBVIOUS
<1>1. /\ UNCHANGED planVars
      /\ stage \in {"ui", "api"} /\ stage' \in {"api", "done"}
  BY Zenon DEF UiEnd, ApiShot, ApiEnd
<1> QED BY <1>1 DEF DraftInv, planVars, Requested

LEMMA AlwaysDraftInv == Spec => []DraftInv
<1>1. Init => DraftInv
  BY DraftInvInit
<1>2. DraftInv /\ [(PlanNext /\ UNCHANGED compileVars) \/ CompileNext]_vars => DraftInv'
  <2> SUFFICES ASSUME DraftInv, [(PlanNext /\ UNCHANGED compileVars) \/ CompileNext]_vars
               PROVE  DraftInv'
    OBVIOUS
  <2>1. CASE PlanNext /\ UNCHANGED compileVars
    BY <2>1, BeginDraftKeeps, DraftShotKeeps, OtherPlanStepsKeep, AcceptKeeps DEF PlanNext
  <2>2. CASE CompileNext
    BY <2>2, BeginCompileKeeps, UiShotKeeps, OtherCompileStepsKeep DEF CompileNext
  <2>3. CASE UNCHANGED vars
    BY <2>3 DEF vars, planVars, compileVars, DraftInv, Requested
  <2> QED BY <2>1, <2>2, <2>3
<1> QED BY <1>1, <1>2, PTL DEF Spec

\* A draft that the checks accept always compiles, for any requests and answers of a model.
THEOREM DraftsAlwaysCompile == Spec => []DraftsCompile
<1>1. DraftInv => DraftsCompile
  BY DEF DraftInv, DraftsCompile
<1> QED BY <1>1, AlwaysDraftInv, PTL

-----------------------------------------------------------------------------
(* What the API workflow shows each generator                                *)

\* MakerOf for the plan p.
MakerIn(p, shot, r) ==
  IF r.source = {} THEN Direct(shot.id, r.id)
  ELSE LET a == CHOOSE x \in r.source : TRUE
       IN  IF \E s \in ToSet(p.shots) : s.asset = a
           THEN Keyframe(CHOOSE s \in ToSet(p.shots) : s.asset = a) ELSE Shared(a)

\* One iteration of DependencyAssets, whose result so far is acc.
Gather(acc, m, shot, r) ==
  IF r.source # {}
  THEN [acc EXCEPT !.deps = Append(@, m[CHOOSE a \in r.source : TRUE])]
  ELSE [nodes |-> Append(acc.nodes, ApiNode(Direct(shot.id, r.id), FromPlan)),
        deps |-> Append(acc.deps, Len(acc.nodes) + 1)]

\* h[i] is the result after the first i references.
Gathering(h, w, m, shot) ==
  /\ h[0] = [nodes |-> w, deps |-> << >>]
  /\ \A i \in 1..Len(shot.refs) : h[i] = Gather(h[i - 1], m, shot, shot.refs[i])

Gathered(w, m, shot) ==
  FoldLeft(LAMBDA acc, r :
             IF r.source # {}
             THEN [acc EXCEPT !.deps = Append(@, m[CHOOSE a \in r.source : TRUE])]
             ELSE [nodes |-> Append(acc.nodes, ApiNode(Direct(shot.id, r.id), FromPlan)),
                   deps |-> Append(acc.deps, Len(acc.nodes) + 1)],
           [nodes |-> w, deps |-> << >>], shot.refs)

LEMMA GatherFold ==
  ASSUME NEW N, NEW w \in Seq(N), NEW m, NEW shot, NEW T, shot.refs \in Seq(T)
  PROVE  \E h : Gathering(h, w, m, shot) /\ Gathered(w, m, shot) = h[Len(shot.refs)]
<1> DEFINE refs == shot.refs
           P(f) == f = [x \in SUBSET DOMAIN refs |->
                          IF x = {} THEN [nodes |-> w, deps |-> << >>]
                          ELSE IF refs[Max(x)].source # {}
                               THEN [f[x \ {Max(x)}] EXCEPT !.deps =
                                       Append(@, m[CHOOSE a \in refs[Max(x)].source : TRUE])]
                               ELSE [nodes |-> Append(f[x \ {Max(x)}].nodes,
                                                      ApiNode(Direct(shot.id, refs[Max(x)].id), FromPlan)),
                                     deps |-> Append(f[x \ {Max(x)}].deps, Len(f[x \ {Max(x)}].nodes) + 1)]]
<1>1. PICK n \in Nat : n = Len(refs) /\ DOMAIN refs = 1..n
  <2>1. Len(refs) \in Nat /\ DOMAIN refs = 1..Len(refs)
    OBVIOUS
  <2> QED BY <2>1
<1>2. Gathered(w, m, shot) = (CHOOSE f : P(f))[DOMAIN refs]
  BY DEF Gathered, FoldLeft, MapThenFoldSet
<1>3. PICK M : M = N \cup {ApiNode(Direct(shot.id, refs[i].id), FromPlan) : i \in 1..n}
  OBVIOUS
<1>4. PICK D : D = Nat \cup {m[CHOOSE a \in refs[i].source : TRUE] : i \in 1..n}
  OBVIOUS
<1>5. PICK A : A = [nodes : Seq(M), deps : Seq(D)]
  OBVIOUS
<1>6. ASSUME NEW acc \in A, NEW i \in 1..n PROVE Gather(acc, m, shot, refs[i]) \in A
  <2>1. acc.nodes \in Seq(M) /\ acc.deps \in Seq(D) /\ acc = [nodes |-> acc.nodes, deps |-> acc.deps]
    BY <1>5
  <2>2. CASE refs[i].source # {}
    <3>1. PICK d \in D : d = m[CHOOSE a \in refs[i].source : TRUE]
      BY <1>4
    <3>2. Gather(acc, m, shot, refs[i]) = [acc EXCEPT !.deps = Append(@, d)]
      BY <2>2, <3>1 DEF Gather
    <3>3. Gather(acc, m, shot, refs[i]) = [nodes |-> acc.nodes, deps |-> Append(acc.deps, d)]
      BY <2>1, <3>2
    <3> QED BY <1>5, <2>1, <3>3
  <2>3. CASE refs[i].source = {}
    <3>1. PICK e \in M : e = ApiNode(Direct(shot.id, refs[i].id), FromPlan)
      BY <1>3
    <3>2. Gather(acc, m, shot, refs[i])
            = [nodes |-> Append(acc.nodes, e), deps |-> Append(acc.deps, Len(acc.nodes) + 1)]
      BY <2>3, <3>1 DEF Gather
    <3>3. Len(acc.nodes) + 1 \in D
      BY <1>4, <2>1
    <3> QED BY <1>5, <2>1, <3>2, <3>3
  <2> QED BY <2>2, <2>3
<1>7. PICK op \in [A \X (1..n) -> A] : \A acc \in A : \A i \in 1..n : op[<<acc, i>>] = Gather(acc, m, shot, refs[i])
  <2> DEFINE h == [q \in A \X (1..n) |-> Gather(q[1], m, shot, refs[q[2]])]
  <2>1. h \in [A \X (1..n) -> A]
    BY <1>6
  <2>2. \A acc \in A : \A i \in 1..n : h[<<acc, i>>] = Gather(acc, m, shot, refs[i])
    OBVIOUS
  <2> HIDE DEF h
  <2> QED BY <2>1, <2>2
<1>8. PICK base \in A : base = [nodes |-> w, deps |-> << >>]
  <2>1. w \in Seq(M) /\ << >> \in Seq(D)
    BY <1>3
  <2>2. [nodes |-> w, deps |-> << >>] \in A
    BY <1>5, <2>1
  <2> QED BY <2>2
<1>9. PICK g \in [SUBSET (1..n) -> A] : Folding(g, n, base, op)
  BY FoldExists
<1>10. P(g)
  <2>1. ASSUME NEW x \in SUBSET (1..n), x # {}
        PROVE  g[x] = Gather(g[x \ {Max(x)}], m, shot, refs[Max(x)])
    <3>1. Max(x) \in 1..n /\ x \ {Max(x)} \in SUBSET (1..n)
      <4>1. PICK s \in Seq(T) : s = refs
        OBVIOUS
      <4>2. x \in SUBSET DOMAIN s
        BY <1>1, <4>1
      <4>3. Max(x) \in DOMAIN s /\ x \ {Max(x)} \in SUBSET DOMAIN s
        BY <2>1, <4>2, GreatestPosition
      <4> QED BY <1>1, <4>1, <4>3
    <3>2. g[x] = op[<<g[x \ {Max(x)}], Max(x)>>]
      BY <1>9, <2>1 DEF Folding
    <3> QED BY <1>7, <1>9, <3>1, <3>2
  <2>2. g[{}] = [nodes |-> w, deps |-> << >>]
    BY <1>8, <1>9 DEF Folding
  <2>3. g = [x \in SUBSET (1..n) |-> g[x]]
    BY <1>9
  <2> QED BY <1>1, <2>1, <2>2, <2>3 DEF Gather
<1>11. PICK f : f = CHOOSE h : P(h)
  OBVIOUS
<1>12. P(f)
  <2> HIDE DEF P
  <2>1. \E h : P(h)
    BY <1>10
  <2>2. P(CHOOSE h : P(h))
    BY <2>1, Zenon
  <2> QED BY <1>11, <2>2
<1>13. f[{}] = [nodes |-> w, deps |-> << >>]
  BY <1>12
<1>14. \A x \in SUBSET (1..n) : x # {} => f[x] = Gather(f[x \ {Max(x)}], m, shot, refs[Max(x)])
  BY <1>1, <1>12, Zenon DEF Gather
<1> DEFINE h == [i \in 0..n |-> f[1..i]]
<1>15. h[0] = [nodes |-> w, deps |-> << >>]
  <2>1. 1..0 = {} /\ 0 \in 0..n
    OBVIOUS
  <2>2. h[0] = f[{}]
    BY <2>1
  <2> QED BY <1>13, <2>2
<1>16. ASSUME NEW i \in 1..n PROVE h[i] = Gather(h[i - 1], m, shot, refs[i])
  <2>1. PICK x : x = 1..i
    OBVIOUS
  <2>2. i \in Nat /\ i # 0 /\ x \in SUBSET (1..n)
    BY <2>1
  <2>3. x # {} /\ Max(x) = i /\ x \ {i} = 1..(i - 1)
    BY <2>1, <2>2, Initial
  <2>4. f[x] = Gather(f[x \ {i}], m, shot, refs[i])
    BY <1>14, <2>2, <2>3
  <2>5. h[i] = f[1..i] /\ h[i - 1] = f[1..(i - 1)]
    <3>1. i \in 0..n /\ i - 1 \in 0..n
      OBVIOUS
    <3> QED BY <3>1
  <2> QED BY <2>1, <2>3, <2>4, <2>5
<1>17. h[n] = f[1..n]
  OBVIOUS
<1> HIDE DEF h
<1>18. Gathering(h, w, m, shot)
  BY <1>1, <1>15, <1>16 DEF Gathering
<1> QED BY <1>1, <1>2, <1>11, <1>17, <1>18, Zenon

\* acc has gone past the first i references of the shot: the nodes of w are as they were, those that
\* were added are fed by plan and policy, and the k-th dependency is a node of what makes the k-th
\* reference.
SoFar(acc, i, w, p, shot) ==
  /\ IsSequence(acc.nodes) /\ Len(acc.nodes) >= Len(w)
  /\ \A n \in 1..Len(w) : acc.nodes[n] = w[n]
  /\ \A n \in 1..Len(acc.nodes) : n > Len(w) => acc.nodes[n].ins = FromPlan
  /\ acc.deps \in Seq(Nat) /\ Len(acc.deps) = i
  /\ \A k \in 1..i : /\ acc.deps[k] \in 1..Len(acc.nodes)
                     /\ acc.nodes[acc.deps[k]].kind = MakerIn(p, shot, shot.refs[k])

\* The makers of the shot's references have nodes.
MakersHaveNodes(w, m, p, shot) ==
  \A k \in DOMAIN shot.refs : shot.refs[k].source # {} =>
    LET a == CHOOSE x \in shot.refs[k].source : TRUE
    IN  m[a] \in 1..Len(w) /\ w[m[a]].kind = MakerIn(p, shot, shot.refs[k])

LEMMA GatherStep ==
  ASSUME NEW w, NEW m, NEW p, NEW shot, NEW i \in Nat, i # 0, i \in DOMAIN shot.refs,
         Len(w) \in Nat, MakersHaveNodes(w, m, p, shot), NEW acc, SoFar(acc, i - 1, w, p, shot)
  PROVE  SoFar(Gather(acc, m, shot, shot.refs[i]), i, w, p, shot)
<1> DEFINE r == shot.refs[i]
<1>1. PICK N : acc.nodes \in Seq(N)
  BY DEF SoFar, IsSequence
<1>2. PICK s \in Seq(N) : s = acc.nodes
  BY <1>1
<1>3. PICK l \in Nat : l = Len(s)
  OBVIOUS
<1>4. PICK d \in Seq(Nat) : d = acc.deps
  BY DEF SoFar
<1>5. /\ l >= Len(w) /\ \A n \in 1..Len(w) : s[n] = w[n]
      /\ \A n \in 1..l : n > Len(w) => s[n].ins = FromPlan
      /\ Len(d) = i - 1
      /\ \A k \in 1..(i - 1) : d[k] \in 1..l /\ s[d[k]].kind = MakerIn(p, shot, shot.refs[k])
  BY <1>2, <1>3, <1>4 DEF SoFar
<1>6. \A k \in 1..i : k = i \/ k \in 1..(i - 1)
  OBVIOUS
<1>7. CASE r.source # {}
  <2>1. PICK e : e = m[CHOOSE a \in r.source : TRUE]
    OBVIOUS
  <2>2. e \in 1..Len(w) /\ w[e].kind = MakerIn(p, shot, r)
    BY <1>7, <2>1 DEF MakersHaveNodes
  <2>3. e \in Nat /\ e \in 1..l /\ s[e] = w[e]
    BY <1>5, <2>2
  <2>4. PICK t : t = Append(d, e)
    OBVIOUS
  <2>5. t \in Seq(Nat) /\ Len(t) = i /\ (\A k \in 1..(i - 1) : t[k] = d[k]) /\ t[i] = e
    BY <1>5, <2>3, <2>4
  <2>6. PICK q : q = Gather(acc, m, shot, r)
    OBVIOUS
  <2>7. q.nodes = s /\ q.deps = t
    <3>1. q = [acc EXCEPT !.deps = Append(@, e)]
      BY <1>7, <2>1, <2>6 DEF Gather
    <3> QED BY <1>2, <1>4, <2>4, <3>1
  <2>8. \A k \in 1..i : t[k] \in 1..l /\ s[t[k]].kind = MakerIn(p, shot, shot.refs[k])
    BY <1>5, <1>6, <2>2, <2>3, <2>5
  <2>9. SoFar(q, i, w, p, shot)
    BY <1>1, <1>2, <1>3, <1>5, <2>5, <2>7, <2>8 DEF SoFar, IsSequence
  <2> QED BY <2>6, <2>9
<1>8. CASE r.source = {}
  <2>1. PICK e : e = ApiNode(Direct(shot.id, r.id), FromPlan)
    OBVIOUS
  <2>2. e.kind = MakerIn(p, shot, r) /\ e.ins = FromPlan
    BY <1>8, <2>1 DEF ApiNode, MakerIn
  <2>3. PICK u : u = Append(s, e)
    OBVIOUS
  <2>4. u \in Seq(N \cup {e}) /\ Len(u) = l + 1 /\ (\A n \in 1..l : u[n] = s[n]) /\ u[l + 1] = e
    BY <1>3, <2>3, AppendAt
  <2>5. PICK t : t = Append(d, l + 1)
    OBVIOUS
  <2>6. t \in Seq(Nat) /\ Len(t) = i /\ (\A k \in 1..(i - 1) : t[k] = d[k]) /\ t[i] = l + 1
    BY <1>5, <2>5
  <2>7. PICK q : q = Gather(acc, m, shot, r)
    OBVIOUS
  <2>8. q.nodes = u /\ q.deps = t
    <3>1. q = [nodes |-> u, deps |-> t]
      BY <1>2, <1>3, <1>4, <1>8, <2>1, <2>3, <2>5, <2>7 DEF Gather
    <3> QED BY <3>1
  <2>9. \A k \in 1..i : t[k] \in 1..(l + 1) /\ u[t[k]].kind = MakerIn(p, shot, shot.refs[k])
    <3>1. ASSUME NEW k \in 1..(i - 1)
          PROVE  t[k] \in 1..(l + 1) /\ u[t[k]].kind = MakerIn(p, shot, shot.refs[k])
      <4>1. d[k] \in 1..l /\ t[k] = d[k] /\ u[d[k]] = s[d[k]]
        BY <1>5, <2>4, <2>6
      <4>2. d[k] \in 1..(l + 1)
        BY <4>1
      <4> QED BY <1>5, <4>1, <4>2
    <3>2. t[i] \in 1..(l + 1) /\ u[t[i]].kind = MakerIn(p, shot, r)
      BY <2>2, <2>4, <2>6
    <3> QED BY <1>6, <3>1, <3>2
  <2>10. \A n \in 1..(l + 1) : n > Len(w) => u[n].ins = FromPlan
    <3>1. ASSUME NEW n \in 1..(l + 1), n > Len(w) PROVE u[n].ins = FromPlan
      <4>1. n = l + 1 \/ n \in 1..l
        OBVIOUS
      <4> QED BY <1>5, <2>2, <2>4, <3>1, <4>1
    <3> QED BY <3>1
  <2>11. (\A n \in 1..Len(w) : u[n] = w[n]) /\ l + 1 >= Len(w)
    BY <1>5, <2>4
  <2>12. SoFar(q, i, w, p, shot)
    BY <2>4, <2>6, <2>8, <2>9, <2>10, <2>11 DEF SoFar, IsSequence
  <2> QED BY <2>7, <2>12
<1> QED BY <1>7, <1>8

LEMMA GatherDoes ==
  ASSUME NEW N, NEW w \in Seq(N), NEW m, NEW p, NEW shot, NEW T, shot.refs \in Seq(T),
         MakersHaveNodes(w, m, p, shot)
  PROVE  SoFar(Gathered(w, m, shot), Len(shot.refs), w, p, shot)
<1>1. PICK n \in Nat : n = Len(shot.refs) /\ DOMAIN shot.refs = 1..n
  <2>1. Len(shot.refs) \in Nat /\ DOMAIN shot.refs = 1..Len(shot.refs)
    OBVIOUS
  <2> QED BY <2>1
<1>2. PICK h : Gathering(h, w, m, shot) /\ Gathered(w, m, shot) = h[n]
  BY <1>1, GatherFold
<1> DEFINE S == {i \in 0..n : SoFar(h[i], i, w, p, shot)}
<1>3. 0 \in S
  <2>1. h[0].nodes = w /\ h[0].deps = << >>
    BY <1>2 DEF Gathering
  <2>2. << >> \in Seq(Nat) /\ Len(<< >>) = 0 /\ 0 \in 0..n /\ (\A k : k \notin 1..0)
    OBVIOUS
  <2>3. Len(w) \in Nat /\ \A k \in 1..Len(w) : ~(k > Len(w))
    OBVIOUS
  <2>4. SoFar(h[0], 0, w, p, shot)
    BY <2>1, <2>2, <2>3 DEF SoFar, IsSequence
  <2> QED BY <2>2, <2>4
<1>4. ASSUME NEW i \in 1..n, i - 1 \in S PROVE i \in S
  <2>1. i \in Nat /\ i # 0 /\ i \in DOMAIN shot.refs /\ Len(w) \in Nat /\ i \in 0..n
    BY <1>1
  <2>2. PICK acc : acc = h[i - 1]
    OBVIOUS
  <2>3. SoFar(acc, i - 1, w, p, shot)
    BY <1>4, <2>2
  <2>4. h[i] = Gather(acc, m, shot, shot.refs[i])
    BY <1>1, <1>2, <2>2 DEF Gathering
  <2>5. SoFar(Gather(acc, m, shot, shot.refs[i]), i, w, p, shot)
    BY <2>1, <2>3, GatherStep
  <2> QED BY <2>1, <2>4, <2>5
<1>5. \A i \in 0..n : i \in S
  <2> HIDE DEF S
  <2>1. \A i \in 1..n : i - 1 \in S => i \in S
    BY <1>4
  <2> QED BY <1>3, <2>1, UpTo, Zenon
<1>6. n \in S
  <2>1. n \in 0..n
    OBVIOUS
  <2> QED BY <1>5, <2>1
<1> QED BY <1>1, <1>2, <1>6

\* Into and Shows for the nodes w.
IntoIn(w, n, slot) == {i[2] : i \in {j \in w[n].ins : j[1] = slot}}
ShowsIn(w, n, slot, kinds) ==
  \A p \in IntoIn(w, n, slot) :
    /\ w[p].kind.count = Len(kinds)
    /\ \A k \in DOMAIN kinds : {w[m].kind : m \in IntoIn(w, p, 1 + k)} = {kinds[k]}

Wanted(p, shot) == [k \in DOMAIN shot.refs |-> MakerIn(p, shot, shot.refs[k])]
ShotShown(p, w, shot) ==
  \E k, v \in DOMAIN w :
    /\ w[k].kind = Keyframe(shot) /\ ShowsIn(w, k, 6, Wanted(p, shot))
    /\ w[v].kind = VideoNode(shot.id) /\ ShowsIn(w, v, 3, <<Keyframe(shot)>> \o Wanted(p, shot))

\* Each node is fed by nodes before it.
FrontToBack(w) == \A n \in DOMAIN w : \A i \in w[n].ins : i[2] \in 1..(n - 1)

\* What is shown stays shown when nodes are added behind.
LEMMA ShownStays ==
  ASSUME NEW M, NEW w \in Seq(M), NEW u \in Seq(M), Len(u) >= Len(w), \A n \in DOMAIN w : u[n] = w[n],
         FrontToBack(w), NEW p, NEW shot, ShotShown(p, w, shot)
  PROVE  ShotShown(p, u, shot)
<1>1. PICK k \in DOMAIN w, v \in DOMAIN w :
        /\ w[k].kind = Keyframe(shot) /\ ShowsIn(w, k, 6, Wanted(p, shot))
        /\ w[v].kind = VideoNode(shot.id) /\ ShowsIn(w, v, 3, <<Keyframe(shot)>> \o Wanted(p, shot))
  BY DEF ShotShown
<1>2. DOMAIN w \subseteq DOMAIN u
  <2>1. Len(w) \in Nat /\ Len(u) \in Nat /\ DOMAIN w = 1..Len(w) /\ DOMAIN u = 1..Len(u)
    OBVIOUS
  <2> QED BY <2>1
<1>3. \A n \in DOMAIN w : \A slot : IntoIn(u, n, slot) = IntoIn(w, n, slot)
  BY DEF IntoIn
<1>4. ASSUME NEW n \in DOMAIN w, NEW slot, NEW i \in IntoIn(w, n, slot) PROVE i \in DOMAIN w
  <2>1. i \in 1..(n - 1)
    BY <1>4 DEF IntoIn, FrontToBack
  <2>2. Len(w) \in Nat /\ DOMAIN w = 1..Len(w)
    OBVIOUS
  <2> QED BY <2>1, <2>2
<1>5. ASSUME NEW n \in DOMAIN w, NEW slot, NEW kinds, ShowsIn(w, n, slot, kinds) PROVE ShowsIn(u, n, slot, kinds)
  <2>1. ASSUME NEW i \in IntoIn(u, n, slot)
        PROVE  /\ u[i].kind.count = Len(kinds)
               /\ \A j \in DOMAIN kinds : {u[m].kind : m \in IntoIn(u, i, 1 + j)} = {kinds[j]}
    <3>1. i \in IntoIn(w, n, slot) /\ i \in DOMAIN w
      BY <1>3, <1>4, <2>1
    <3>2. /\ w[i].kind.count = Len(kinds)
          /\ \A j \in DOMAIN kinds : {w[m].kind : m \in IntoIn(w, i, 1 + j)} = {kinds[j]}
      BY <1>5, <3>1 DEF ShowsIn
    <3>3. \A j : {u[m].kind : m \in IntoIn(u, i, 1 + j)} = {w[m].kind : m \in IntoIn(w, i, 1 + j)}
      BY <1>3, <1>4, <3>1
    <3> QED BY <3>1, <3>2, <3>3
  <2> QED BY <2>1 DEF ShowsIn
<1>6. PICK a, b : a = Wanted(p, shot) /\ b = <<Keyframe(shot)>> \o Wanted(p, shot)
  OBVIOUS
<1>7. ShowsIn(u, k, 6, a) /\ ShowsIn(u, v, 3, b)
  BY <1>1, <1>5, <1>6
<1> QED BY <1>1, <1>2, <1>6, <1>7 DEF ShotShown

\* The images of a plan that passes the checks have different names.
LEMMA OneItemEach ==
  ASSUME NEW p, IsPlan(p), Problem(p) = "none"
  PROVE  /\ \A i, j \in DOMAIN p.shots : p.shots[i].asset = p.shots[j].asset => i = j
         /\ \A i \in DOMAIN p.shots : p.shots[i].asset \notin SharedOf(p)
<1>1. PICK T : p.shared \in Seq(T) /\ p.shots \in Seq(T)
  <2>1. PICK T1 : p.shared \in Seq(T1)
    BY DEF IsPlan, IsSequence
  <2>2. PICK T2 : p.shots \in Seq(T2)
    BY DEF IsPlan, IsSequence
  <2>3. p.shared \in Seq(T1 \cup T2) /\ p.shots \in Seq(T1 \cup T2)
    BY <2>1, <2>2
  <2> QED BY <2>3
<1>2. PICK a \in Seq(T), b \in Seq(T) : a = p.shared /\ b = p.shots
  BY <1>1
<1>3. PICK l \in Nat, n \in Nat : l = Len(a) /\ n = Len(b) /\ DOMAIN a = 1..l /\ DOMAIN b = 1..n
  <2>1. Len(a) \in Nat /\ Len(b) \in Nat /\ DOMAIN a = 1..Len(a) /\ DOMAIN b = 1..Len(b)
    OBVIOUS
  <2> QED BY <2>1, Zenon
<1>4. PICK u : u = a \o b
  OBVIOUS
<1>5. /\ DOMAIN u = 1..(l + n)
      /\ \A j \in 1..l : u[j] = a[j]
      /\ \A j \in 1..(l + n) : j > l => u[j] = b[j - l]
  BY <1>3, <1>4, ConcatAt
<1>6. \A x, y \in DOMAIN u : u[x].asset = u[y].asset => x = y
  <2>1. IdsUnique(p)
    BY DEF Problem
  <2>2. u = Items(p)
    BY <1>2, <1>4 DEF Items
  <2> QED BY <2>1, <2>2 DEF IdsUnique, IsInjective
<1>7. ASSUME NEW i \in 1..n PROVE l + i \in 1..(l + n) /\ u[l + i] = b[i]
  <2>1. l + i \in 1..(l + n) /\ l + i > l /\ (l + i) - l = i
    OBVIOUS
  <2> QED BY <1>5, <2>1
<1>8. \A i, j \in 1..n : b[i].asset = b[j].asset => i = j
  <2>1. ASSUME NEW i \in 1..n, NEW j \in 1..n, b[i].asset = b[j].asset PROVE i = j
    <3>1. PICK x, y : x = l + i /\ y = l + j
      OBVIOUS
    <3>2. x \in DOMAIN u /\ y \in DOMAIN u /\ u[x] = b[i] /\ u[y] = b[j]
      BY <1>5, <1>7, <3>1
    <3>3. x = y
      BY <1>6, <2>1, <3>2
    <3> QED BY <3>1, <3>3
  <2> QED BY <2>1
<1>9. ASSUME NEW i \in 1..n, b[i].asset \in SharedOf(p) PROVE FALSE
  <2>1. PICK j \in 1..l : a[j].asset = b[i].asset
    BY <1>2, <1>3, <1>9 DEF SharedOf, ToSet
  <2>2. j \in 1..(l + n) /\ u[j] = a[j]
    BY <1>5
  <2>3. l + i = j
    BY <1>5, <1>6, <1>7, <2>1, <2>2
  <2> QED BY <2>3
<1> QED BY <1>2, <1>3, <1>8, <1>9

\* The maker of a reference whose source is a shared image, or the keyframe of a shot.
LEMMA MakerIs ==
  ASSUME NEW p, IsPlan(p), Problem(p) = "none", NEW shot, NEW r, NEW a, r.source = {a}, a \in SharedOf(p)
  PROVE  MakerIn(p, shot, r) = Shared(a)
<1>1. (CHOOSE x \in r.source : TRUE) = a
  OBVIOUS
<1>2. MakerIn(p, shot, r) = IF \E s \in ToSet(p.shots) : s.asset = a
                            THEN Keyframe(CHOOSE s \in ToSet(p.shots) : s.asset = a) ELSE Shared(a)
  BY <1>1 DEF MakerIn
<1>3. ASSUME NEW s \in ToSet(p.shots), s.asset = a PROVE FALSE
  <2>1. PICK i \in DOMAIN p.shots : s = p.shots[i]
    BY <1>3 DEF ToSet
  <2>2. p.shots[i].asset \notin SharedOf(p)
    BY OneItemEach
  <2> QED BY <1>3, <2>1, <2>2
<1> QED BY <1>2, <1>3

LEMMA MakerIsShot ==
  ASSUME NEW p, IsPlan(p), Problem(p) = "none", NEW shot, NEW r, NEW a, r.source = {a},
         NEW s \in ToSet(p.shots), a = s.asset
  PROVE  MakerIn(p, shot, r) = Keyframe(s)
<1>1. (CHOOSE x \in r.source : TRUE) = a
  OBVIOUS
<1>2. MakerIn(p, shot, r) = IF \E x \in ToSet(p.shots) : x.asset = a
                            THEN Keyframe(CHOOSE x \in ToSet(p.shots) : x.asset = a) ELSE Shared(a)
  BY <1>1 DEF MakerIn
<1>3. PICK t : t = CHOOSE x \in ToSet(p.shots) : x.asset = a
  OBVIOUS
<1>4. \E x \in ToSet(p.shots) : x.asset = a
  OBVIOUS
<1>5. t \in ToSet(p.shots) /\ t.asset = a
  BY <1>3, <1>4
<1>6. t = s
  BY <1>5, OneItemEach DEF ToSet
<1> QED BY <1>2, <1>3, <1>4, <1>6

\* A slot with one node.
Feeds(w, n, slot, x) == <<slot, x>> \in w[n].ins /\ \A i \in w[n].ins : i[1] = slot => i[2] = x

LEMMA IntoIs ==
  ASSUME NEW w, NEW n, NEW slot, NEW x, Feeds(w, n, slot, x)
  PROVE  IntoIn(w, n, slot) = {x}
<1>1. <<slot, x>>[1] = slot /\ <<slot, x>>[2] = x
  OBVIOUS
<1>2. PICK S : S = {j \in w[n].ins : j[1] = slot}
  OBVIOUS
<1>3. <<slot, x>> \in S /\ \A i \in S : i[2] = x
  BY <1>1, <1>2 DEF Feeds
<1>4. {i[2] : i \in S} = {x}
  BY <1>1, <1>3
<1> QED BY <1>2, <1>4 DEF IntoIn

\* The five nodes that ApiShot adds behind the l nodes of u, for a shot with the dependencies d.
AddedFor(u, l, d, shot) ==
  /\ u[l + 1] = ApiNode(CanvasPack(shot.id, Len(d)), {<<1 + k, d[k]>> : k \in DOMAIN d})
  /\ u[l + 2] = ApiNode(Keyframe(shot), FromPlan \cup {<<6, l + 1>>})
  /\ u[l + 3] = ApiNode(VideoPack(shot.id, 1 + Len(d)),
                        {<<2, l + 2>>} \cup {<<2 + k, d[k]>> : k \in DOMAIN d})
  /\ u[l + 4] = ApiNode(PromptOf(shot.id), {<<1, 3>>, <<2, l + 3>>})
  /\ u[l + 5] = ApiNode(VideoNode(shot.id), {<<1, 3>>, <<2, l + 4>>, <<3, l + 3>>, <<4, 2>>})

\* They show the shot's references in their order.
LEMMA AddedShows ==
  ASSUME NEW u, NEW l \in Nat, DOMAIN u = 1..(l + 5), NEW d \in Seq(Nat), NEW shot, AddedFor(u, l, d, shot),
         NEW p, NEW T, shot.refs \in Seq(T), Len(d) = Len(shot.refs),
         \A k \in DOMAIN d : u[d[k]].kind = MakerIn(p, shot, shot.refs[k])
  PROVE  ShotShown(p, u, shot)
<1>1. PICK c \in Nat : c = Len(d) /\ DOMAIN d = 1..c /\ DOMAIN shot.refs = 1..c
  <2>1. Len(d) \in Nat /\ DOMAIN d = 1..Len(d)
    OBVIOUS
  <2>2. DOMAIN shot.refs = 1..Len(shot.refs)
    OBVIOUS
  <2> QED BY <2>1, <2>2
<1>2. PICK wanted : wanted = Wanted(p, shot)
  OBVIOUS
<1>3. DOMAIN wanted = 1..c /\ \A k \in 1..c : wanted[k] = u[d[k]].kind
  BY <1>1, <1>2 DEF Wanted
<1>4. PICK K : K = {Keyframe(shot)} \cup {wanted[k] : k \in 1..c}
  OBVIOUS
<1>5. wanted \in Seq(K) /\ Len(wanted) = c
  <2>1. wanted = [k \in DOMAIN shot.refs |-> MakerIn(p, shot, shot.refs[k])]
    BY <1>2 DEF Wanted
  <2>2. wanted = [k \in 1..c |-> wanted[k]] /\ \A k \in 1..c : wanted[k] \in K
    BY <1>1, <1>4, <2>1
  <2>3. wanted \in [1..c -> K]
    BY <2>2
  <2>4. wanted \in Seq(K)
    BY <2>3
  <2> QED BY <1>1, <1>3, <2>4
<1>6. ShowsIn(u, l + 2, 6, wanted)
  <2>1. IntoIn(u, l + 2, 6) = {l + 1}
    <3>1. u[l + 2].ins = {<<1, 3>>, <<2, 2>>, <<6, l + 1>>}
      BY DEF AddedFor, ApiNode, FromPlan
    <3>2. PICK n, y : n = l + 2 /\ y = l + 1
      OBVIOUS
    <3>3. Feeds(u, n, 6, y)
      BY <3>1, <3>2 DEF Feeds
    <3>4. IntoIn(u, n, 6) = {y}
      BY <3>3, IntoIs
    <3> QED BY <3>2, <3>4
  <2>2. u[l + 1].kind.count = c
    BY <1>1 DEF AddedFor, ApiNode, CanvasPack, Kind
  <2>3. ASSUME NEW k \in 1..c PROVE {u[j].kind : j \in IntoIn(u, l + 1, 1 + k)} = {wanted[k]}
    <3>1. u[l + 1].ins = {<<1 + j, d[j]>> : j \in 1..c}
      BY <1>1 DEF AddedFor, ApiNode
    <3>2. \A j \in 1..c : 1 + j = 1 + k => j = k
      OBVIOUS
    <3>3. Feeds(u, l + 1, 1 + k, d[k])
      BY <3>1, <3>2 DEF Feeds
    <3>4. IntoIn(u, l + 1, 1 + k) = {d[k]}
      BY <3>3, IntoIs
    <3> QED BY <1>3, <3>4
  <2> QED BY <1>3, <1>5, <2>1, <2>2, <2>3 DEF ShowsIn
<1>7. PICK both : both = <<Keyframe(shot)>> \o wanted
  OBVIOUS
<1>8. Len(both) = 1 + c /\ DOMAIN both = 1..(1 + c) /\ both[1] = Keyframe(shot)
      /\ \A k \in 1..c : both[1 + k] = wanted[k]
  <2>1. <<Keyframe(shot)>> \in Seq(K)
    BY <1>4
  <2>2. PICK x \in Seq(K), y \in Seq(K) : x = <<Keyframe(shot)>> /\ y = wanted
    BY <1>5, <2>1
  <2>3. Len(x) = 1 /\ x[1] = Keyframe(shot) /\ Len(y) = c
    BY <1>5, <2>2
  <2>4. /\ Len(both) = 1 + c /\ DOMAIN both = 1..(1 + c)
        /\ \A j \in 1..1 : both[j] = x[j]
        /\ \A j \in 1..(1 + c) : j > 1 => both[j] = y[j - 1]
    BY <1>7, <2>2, <2>3, ConcatAt
  <2>5. \A k \in 1..c : 1 + k \in 1..(1 + c) /\ 1 + k > 1 /\ (1 + k) - 1 = k
    OBVIOUS
  <2>6. 1 \in 1..1
    OBVIOUS
  <2> QED BY <2>2, <2>3, <2>4, <2>5, <2>6
<1>9. ShowsIn(u, l + 5, 3, both)
  <2>1. IntoIn(u, l + 5, 3) = {l + 3}
    <3>1. u[l + 5].ins = {<<1, 3>>, <<2, l + 4>>, <<3, l + 3>>, <<4, 2>>}
      BY DEF AddedFor, ApiNode
    <3>2. PICK n, y : n = l + 5 /\ y = l + 3
      OBVIOUS
    <3>3. Feeds(u, n, 3, y)
      BY <3>1, <3>2, SMTT(30) DEF Feeds
    <3>4. IntoIn(u, n, 3) = {y}
      BY <3>3, IntoIs
    <3> QED BY <3>2, <3>4
  <2>2. u[l + 3].kind.count = 1 + c
    BY <1>1 DEF AddedFor, ApiNode, VideoPack, Kind
  <2>3. u[l + 3].ins = {<<2, l + 2>>} \cup {<<2 + j, d[j]>> : j \in 1..c}
    BY <1>1 DEF AddedFor, ApiNode
  <2>4. ASSUME NEW k \in 1..(1 + c) PROVE {u[j].kind : j \in IntoIn(u, l + 3, 1 + k)} = {both[k]}
    <3>1. CASE k = 1
      <4>1. \A j \in 1..c : 2 + j # 2
        OBVIOUS
      <4>2. IntoIn(u, l + 3, 2) = {l + 2}
        <5>1. PICK n, y : n = l + 3 /\ y = l + 2
          OBVIOUS
        <5>2. Feeds(u, n, 2, y)
          BY <2>3, <4>1, <5>1 DEF Feeds
        <5>3. IntoIn(u, n, 2) = {y}
          BY <5>2, IntoIs
        <5> QED BY <5>1, <5>3
      <4>3. u[l + 2].kind = Keyframe(shot)
        BY DEF AddedFor, ApiNode
      <4>4. {u[j].kind : j \in IntoIn(u, l + 3, 2)} = {Keyframe(shot)}
        BY <4>2, <4>3
      <4>5. 1 + k = 2 /\ both[k] = Keyframe(shot)
        BY <1>8, <3>1
      <4> QED BY <4>4, <4>5
    <3>2. CASE k # 1
      <4>1. PICK e \in 1..c : e = k - 1
        BY <3>2
      <4>2. k = 1 + e /\ 1 + k = 2 + e /\ 2 + e # 2 /\ \A j \in 1..c : 2 + j = 2 + e => j = e
        BY <4>1
      <4>3. PICK n, slot, y : n = l + 3 /\ slot = 2 + e /\ y = d[e]
        OBVIOUS
      <4>4. Feeds(u, n, slot, y)
        BY <2>3, <4>2, <4>3 DEF Feeds
      <4>5. IntoIn(u, n, slot) = {y}
        BY <4>4, IntoIs
      <4>6. both[k] = wanted[e] /\ wanted[e] = u[d[e]].kind
        BY <1>3, <1>8, <4>2
      <4>7. {u[j].kind : j \in IntoIn(u, l + 3, 1 + k)} = {u[d[e]].kind}
        BY <4>2, <4>3, <4>5
      <4> QED BY <4>6, <4>7
    <3> QED BY <3>1, <3>2
  <2> QED BY <1>8, <2>1, <2>2, <2>4 DEF ShowsIn
<1>10. l + 2 \in DOMAIN u /\ l + 5 \in DOMAIN u
  OBVIOUS
<1>11. u[l + 2].kind = Keyframe(shot) /\ u[l + 5].kind = VideoNode(shot.id)
  BY DEF AddedFor, ApiNode
<1> QED BY <1>2, <1>6, <1>7, <1>9, <1>10, <1>11 DEF ShotShown

\* They are fed by nodes before them.
LEMMA AddedBehind ==
  ASSUME NEW u, NEW l \in Nat, l >= 3, DOMAIN u = 1..(l + 5), NEW d \in Seq(Nat), NEW shot, AddedFor(u, l, d, shot),
         \A k \in DOMAIN d : d[k] \in 1..l,
         \A n \in 1..l : \A i \in u[n].ins : i[2] \in 1..(n - 1)
  PROVE  FrontToBack(u)
<1>1. \A n \in DOMAIN u : n \in 1..l \/ n \in {l + 1, l + 2, l + 3, l + 4, l + 5}
  OBVIOUS
<1>2. ASSUME NEW i \in u[l + 1].ins PROVE i[2] \in 1..((l + 1) - 1)
  BY <1>2 DEF AddedFor, ApiNode
<1>3. ASSUME NEW i \in u[l + 2].ins PROVE i[2] \in 1..((l + 2) - 1)
  BY <1>3 DEF AddedFor, ApiNode, FromPlan
<1>4. ASSUME NEW i \in u[l + 3].ins PROVE i[2] \in 1..((l + 3) - 1)
  <2>1. i = <<2, l + 2>> \/ \E k \in DOMAIN d : i = <<2 + k, d[k]>>
    BY <1>4 DEF AddedFor, ApiNode
  <2> QED BY <2>1
<1>5. ASSUME NEW i \in u[l + 4].ins PROVE i[2] \in 1..((l + 4) - 1)
  BY <1>5 DEF AddedFor, ApiNode
<1>6. ASSUME NEW i \in u[l + 5].ins PROVE i[2] \in 1..((l + 5) - 1)
  BY <1>6 DEF AddedFor, ApiNode
<1> QED BY <1>1, <1>2, <1>3, <1>4, <1>5, <1>6 DEF FrontToBack

\* The references of the shots are lists, and have at most one source.
Singular(p) ==
  \A s \in ToSet(p.shots) :
    /\ s.refs \in Seq(ToSet(s.refs))
    /\ \A r \in ToSet(s.refs) : r.source = {} \/ \E a \in r.source : r.source = {a}

\* What the i-th shot refers to is made by a shared image or by an earlier shot.
Fed(p, i) ==
  \A k \in DOMAIN p.shots[i].refs :
    p.shots[i].refs[k].source \subseteq SharedOf(p) \cup {p.shots[j].asset : j \in 1..(i - 1)}

\* What _compile_api has made of the first c shots: the nodes w, asset_nodes m.
Built(p, w, m, c) ==
  /\ IsSequence(w) /\ Len(w) >= 3 /\ FrontToBack(w)
  /\ SharedOf(p) \cup {p.shots[j].asset : j \in 1..c} \subseteq DOMAIN m
  /\ \A a \in SharedOf(p) : m[a] \in DOMAIN w /\ w[m[a]].kind = Shared(a)
  /\ \A j \in 1..c : /\ m[p.shots[j].asset] \in DOMAIN w /\ w[m[p.shots[j].asset]].kind = Keyframe(p.shots[j])
                     /\ ShotShown(p, w, p.shots[j])

LEMMA AddedKeyframe ==
  ASSUME NEW u, NEW l \in Nat, NEW d, NEW shot, AddedFor(u, l, d, shot)
  PROVE  u[l + 2].kind = Keyframe(shot)
BY DEF AddedFor, ApiNode

LEMMA MakersKnown ==
  ASSUME NEW p, IsPlan(p), Problem(p) = "none", Singular(p), NEW w, NEW m, NEW c \in Nat, Built(p, w, m, c),
         NEW shot \in ToSet(p.shots), \A j \in 1..c : j \in DOMAIN p.shots,
         \A k \in DOMAIN shot.refs : shot.refs[k].source \subseteq SharedOf(p) \cup {p.shots[j].asset : j \in 1..c}
  PROVE  MakersHaveNodes(w, m, p, shot)
<1>1. DOMAIN w = 1..Len(w)
  BY DEF Built, IsSequence
<1>2. ASSUME NEW k \in DOMAIN shot.refs, shot.refs[k].source # {}
      PROVE  LET a == CHOOSE x \in shot.refs[k].source : TRUE
             IN  m[a] \in 1..Len(w) /\ w[m[a]].kind = MakerIn(p, shot, shot.refs[k])
  <2>1. PICK r : r = shot.refs[k]
    OBVIOUS
  <2>2. r \in ToSet(shot.refs)
    BY <2>1 DEF ToSet
  <2>3. PICK a \in r.source : r.source = {a}
    BY <1>2, <2>1, <2>2 DEF Singular
  <2>4. a \in SharedOf(p) \/ \E j \in 1..c : a = p.shots[j].asset
    <3>1. r.source \subseteq SharedOf(p) \cup {p.shots[j].asset : j \in 1..c}
      BY <2>1
    <3> QED BY <2>3, <3>1
  <2>5. (CHOOSE x \in r.source : TRUE) = a
    BY <2>3
  <2>6. CASE a \in SharedOf(p)
    <3>1. MakerIn(p, shot, r) = Shared(a)
      BY <2>3, <2>6, MakerIs
    <3>2. m[a] \in DOMAIN w /\ w[m[a]].kind = Shared(a)
      BY <2>6 DEF Built
    <3> QED BY <1>1, <2>1, <2>5, <3>1, <3>2
  <2>7. CASE \E j \in 1..c : a = p.shots[j].asset
    <3>1. PICK j \in 1..c : a = p.shots[j].asset
      BY <2>7
    <3>2. MakerIn(p, shot, r) = Keyframe(p.shots[j])
      <4>1. PICK s \in ToSet(p.shots) : s = p.shots[j]
        BY DEF ToSet
      <4>2. a = s.asset
        BY <3>1, <4>1
      <4>3. MakerIn(p, shot, r) = Keyframe(s)
        BY <2>3, <4>2, MakerIsShot
      <4> QED BY <4>1, <4>3
    <3>3. m[a] \in DOMAIN w /\ w[m[a]].kind = Keyframe(p.shots[j])
      BY <3>1 DEF Built
    <3> QED BY <1>1, <2>1, <2>5, <3>2, <3>3
  <2> QED BY <2>4, <2>6, <2>7
<1> QED BY <1>2 DEF MakersHaveNodes

\* The nodes of the next shot.
\* found are the references of the shot that follows the first c, u the nodes with those of the
\* shot behind, m2 what has a node then.
NextOf(p, w, m, c, shot, found, l, u, m2) ==
  /\ IsPlan(p) /\ Problem(p) = "none" /\ Singular(p) /\ Built(p, w, m, c)
  /\ c + 1 \in DOMAIN p.shots /\ shot = p.shots[c + 1]
  /\ SoFar(found, Len(shot.refs), w, p, shot) /\ l = Len(found.nodes)
  /\ IsSequence(u) /\ DOMAIN u = 1..(l + 5) /\ \A j \in 1..l : u[j] = found.nodes[j]
  /\ AddedFor(u, l, found.deps, shot) /\ m2 = Put(m, shot.asset, l + 2)

LEMMA NextBuilt ==
  ASSUME NEW p, NEW w, NEW m, NEW c \in Nat, NEW shot, NEW found, NEW l, NEW u, NEW m2,
         NextOf(p, w, m, c, shot, found, l, u, m2)
  PROVE  Built(p, u, m2, c + 1)
<1>1. /\ IsPlan(p) /\ Problem(p) = "none" /\ Singular(p) /\ Built(p, w, m, c)
      /\ c + 1 \in DOMAIN p.shots /\ shot = p.shots[c + 1]
      /\ SoFar(found, Len(shot.refs), w, p, shot) /\ l = Len(found.nodes)
      /\ IsSequence(u) /\ DOMAIN u = 1..(l + 5) /\ \A j \in 1..l : u[j] = found.nodes[j]
      /\ AddedFor(u, l, found.deps, shot) /\ m2 = Put(m, shot.asset, l + 2)
  BY DEF NextOf
<1> USE <1>1
<1>2. PICK M : w \in Seq(M)
  BY DEF Built, IsSequence
<1>3. shot \in ToSet(p.shots)
  BY DEF ToSet
<1>4. PICK T : shot.refs \in Seq(T)
  BY <1>3 DEF Singular
<1>5. PICK e \in Nat, b \in Nat : e = l /\ e = Len(found.nodes) /\ b = Len(w) /\ DOMAIN w = 1..b
  <2>1. Len(found.nodes) \in Nat
    BY DEF SoFar, IsSequence
  <2>2. Len(w) \in Nat /\ DOMAIN w = 1..Len(w)
    BY <1>2
  <2> QED BY <2>1, <2>2, Zenon
<1>6. PICK s : s = found.nodes
  OBVIOUS
<1>7. PICK N : u \in Seq(N)
  BY DEF IsSequence
<1>8. Len(u) = e + 5
  BY <1>5, <1>7
<1>9. DOMAIN u = 1..(e + 5) /\ \A j \in 1..e : u[j] = s[j]
  BY <1>5, <1>6
<1>10. PICK d \in Seq(Nat) : d = found.deps
  BY DEF SoFar
<1>11. /\ e >= b /\ \A n \in 1..b : s[n] = w[n]
       /\ \A n \in 1..e : n > b => s[n].ins = FromPlan
       /\ Len(d) = Len(shot.refs)
       /\ \A k \in 1..Len(d) : d[k] \in 1..e /\ s[d[k]].kind = MakerIn(p, shot, shot.refs[k])
  BY <1>5, <1>6, <1>10 DEF SoFar
<1>12. b >= 3 /\ \A n \in 1..b : \A i \in w[n].ins : i[2] \in 1..(n - 1)
  BY <1>5 DEF Built, FrontToBack
<1>13. AddedFor(u, e, d, shot)
  BY <1>5, <1>10
<1>14. FrontToBack(u)
  <2>1. ASSUME NEW n \in 1..e, NEW i \in u[n].ins PROVE i[2] \in 1..(n - 1)
    <3>1. CASE n > b
      <4>1. u[n].ins = FromPlan
        BY <1>9, <1>11, <3>1
      <4>2. i[2] = 3 \/ i[2] = 2
        BY <2>1, <4>1 DEF FromPlan
      <4> QED BY <1>12, <3>1, <4>2
    <3>2. CASE ~(n > b)
      <4>1. n \in 1..b
        BY <3>2
      <4>2. u[n] = w[n]
        BY <1>9, <1>11, <4>1
      <4> QED BY <1>12, <2>1, <4>1, <4>2
    <3> QED BY <3>1, <3>2
  <2>2. e >= 3
    BY <1>11, <1>12
  <2>3. \A k \in DOMAIN d : d[k] \in 1..e
    BY <1>11
  <2> QED BY <1>9, <1>13, <2>1, <2>2, <2>3, AddedBehind
<1>15. ShotShown(p, u, shot)
  <2>1. ASSUME NEW k \in DOMAIN d PROVE u[d[k]].kind = MakerIn(p, shot, shot.refs[k])
    <3>1. k \in 1..Len(d)
      OBVIOUS
    <3>2. d[k] \in 1..e /\ s[d[k]].kind = MakerIn(p, shot, shot.refs[k])
      BY <1>11, <3>1
    <3>3. u[d[k]] = s[d[k]]
      BY <1>9, <3>2
    <3> QED BY <3>2, <3>3
  <2> QED BY <1>4, <1>9, <1>11, <1>13, <2>1, AddedShows
<1>16. \A n \in DOMAIN w : u[n] = w[n] /\ n \in DOMAIN u
  <2>1. ASSUME NEW n \in 1..b PROVE u[n] = w[n] /\ n \in 1..(e + 5)
    <3>1. n \in 1..e /\ n \in 1..(e + 5)
      BY <1>11
    <3> QED BY <1>9, <1>11, <3>1
  <2> QED BY <1>5, <1>9, <2>1
<1>17. /\ DOMAIN m2 = DOMAIN m \cup {shot.asset} /\ m2[shot.asset] = e + 2
       /\ \A a \in DOMAIN m : a # shot.asset => m2[a] = m[a]
  BY <1>5 DEF Put
<1>18. \A j \in 1..(c + 1) : j = c + 1 \/ j \in 1..c
  OBVIOUS
<1>19. \A j \in 1..c : j \in DOMAIN p.shots /\ j # c + 1
  <2>1. Len(p.shots) \in Nat /\ DOMAIN p.shots = 1..Len(p.shots)
    BY DEF IsPlan, IsSequence
  <2> QED BY <2>1
<1>20. ASSUME NEW a \in SharedOf(p) PROVE m2[a] \in DOMAIN u /\ u[m2[a]].kind = Shared(a)
  <2>1. a # shot.asset /\ a \in DOMAIN m
    BY OneItemEach, SMTT(30) DEF Built
  <2>2. m[a] \in DOMAIN w /\ w[m[a]].kind = Shared(a)
    BY Zenon DEF Built
  <2> QED BY <1>16, <1>17, <2>1, <2>2
<1>21. ASSUME NEW j \in 1..c
       PROVE  /\ m2[p.shots[j].asset] \in DOMAIN u /\ u[m2[p.shots[j].asset]].kind = Keyframe(p.shots[j])
              /\ ShotShown(p, u, p.shots[j])
  <2>1. p.shots[j].asset # shot.asset /\ p.shots[j].asset \in DOMAIN m
    BY <1>19, OneItemEach DEF Built
  <2>2. /\ m[p.shots[j].asset] \in DOMAIN w /\ w[m[p.shots[j].asset]].kind = Keyframe(p.shots[j])
        /\ ShotShown(p, w, p.shots[j])
    BY DEF Built
  <2>3. ShotShown(p, u, p.shots[j])
    <3>1. PICK G : G = M \cup N
      OBVIOUS
    <3>2. w \in Seq(G) /\ u \in Seq(G)
      BY <1>2, <1>7, <3>1
    <3>3. e + 5 >= b
      BY <1>11
    <3>4. Len(u) >= Len(w) /\ (\A n \in DOMAIN w : u[n] = w[n]) /\ FrontToBack(w)
      BY <1>5, <1>8, <1>16, <3>3 DEF Built
    <3>5. PICK shown : shown = p.shots[j]
      BY Zenon
    <3>6. ShotShown(p, u, shown)
      <4>1. ShotShown(p, w, shown)
        BY <2>2, <3>5, Zenon
      <4> QED BY <3>2, <3>4, <4>1, ShownStays, Zenon
    <3> QED BY <3>5, <3>6
  <2> QED BY <1>16, <1>17, <2>1, <2>2, <2>3
<1>22. m2[shot.asset] \in DOMAIN u /\ u[m2[shot.asset]].kind = Keyframe(shot)
  <2>1. e + 2 \in DOMAIN u
    BY <1>9
  <2>2. u[e + 2].kind = Keyframe(shot)
    BY <1>13, AddedKeyframe
  <2> QED BY <1>17, <2>1, <2>2
<1>23. \A j \in 1..(c + 1) :
         /\ m2[p.shots[j].asset] \in DOMAIN u /\ u[m2[p.shots[j].asset]].kind = Keyframe(p.shots[j])
         /\ ShotShown(p, u, p.shots[j])
  BY <1>15, <1>18, <1>21, <1>22, Zenon
<1>24. SharedOf(p) \cup {p.shots[j].asset : j \in 1..(c + 1)} \subseteq DOMAIN m2
  BY <1>17, <1>18 DEF Built
<1>25. IsSequence(u) /\ Len(u) >= 3
  BY <1>7, <1>8, <1>11, <1>12 DEF IsSequence
<1> QED BY <1>14, <1>20, <1>23, <1>24, <1>25, Zenon DEF Built

\* A sequence and what is added behind it.
LEMMA Behind ==
  ASSUME NEW T, NEW s \in Seq(T), NEW t \in Seq(T)
  PROVE  LET u == s \o t IN
         /\ u \in Seq(T) /\ DOMAIN u = 1..(Len(s) + Len(t))
         /\ \A j \in 1..Len(s) : u[j] = s[j]
         /\ \A j \in 1..Len(t) : u[Len(s) + j] = t[j]
<1>1. PICK a \in Nat, b \in Nat : a = Len(s) /\ b = Len(t)
  <2>1. Len(s) \in Nat /\ Len(t) \in Nat
    OBVIOUS
  <2> QED BY <2>1
<1>2. PICK u : u = s \o t
  OBVIOUS
<1>3. /\ u \in Seq(T) /\ Len(u) = a + b /\ DOMAIN u = 1..(a + b)
      /\ \A j \in 1..a : u[j] = s[j]
      /\ \A j \in 1..(a + b) : j > a => u[j] = t[j - a]
  BY <1>1, <1>2, ConcatAt
<1>4. ASSUME NEW j \in 1..b PROVE u[a + j] = t[j]
  <2>1. a + j \in 1..(a + b) /\ a + j > a /\ (a + j) - a = j
    OBVIOUS
  <2> QED BY <1>3, <2>1
<1> QED BY <1>1, <1>2, <1>3, <1>4

\* What ApiShot makes of the l nodes s.
WithShot(s, l, d, shot) ==
  s \o << ApiNode(CanvasPack(shot.id, Len(d)), {<<1 + k, d[k]>> : k \in DOMAIN d}),
          ApiNode(Keyframe(shot), FromPlan \cup {<<6, l + 1>>}),
          ApiNode(VideoPack(shot.id, 1 + Len(d)), {<<2, l + 2>>} \cup {<<2 + k, d[k]>> : k \in DOMAIN d}),
          ApiNode(PromptOf(shot.id), {<<1, 3>>, <<2, l + 3>>}),
          ApiNode(VideoNode(shot.id), {<<1, 3>>, <<2, l + 4>>, <<3, l + 3>>, <<4, 2>>}) >>

LEMMA FiveBehind ==
  ASSUME NEW s, IsSequence(s), NEW l, l = Len(s), NEW d, NEW shot
  PROVE  LET u == WithShot(s, l, d, shot)
         IN  /\ IsSequence(u) /\ DOMAIN u = 1..(l + 5) /\ \A j \in 1..l : u[j] = s[j]
             /\ AddedFor(u, l, d, shot)
<1>1. PICK a, b, c, x, y :
        /\ a = ApiNode(CanvasPack(shot.id, Len(d)), {<<1 + k, d[k]>> : k \in DOMAIN d})
        /\ b = ApiNode(Keyframe(shot), FromPlan \cup {<<6, l + 1>>})
        /\ c = ApiNode(VideoPack(shot.id, 1 + Len(d)), {<<2, l + 2>>} \cup {<<2 + k, d[k]>> : k \in DOMAIN d})
        /\ x = ApiNode(PromptOf(shot.id), {<<1, 3>>, <<2, l + 3>>})
        /\ y = ApiNode(VideoNode(shot.id), {<<1, 3>>, <<2, l + 4>>, <<3, l + 3>>, <<4, 2>>})
  OBVIOUS
<1>2. PICK t : t = <<a, b, c, x, y>>
  OBVIOUS
<1>3. PICK N : s \in Seq(N)
  BY DEF IsSequence
<1>4. PICK G : G = N \cup {a, b, c, x, y}
  OBVIOUS
<1>5. s \in Seq(G) /\ t \in Seq(G) /\ Len(t) = 5 /\ l \in Nat
  <2>1. s \in Seq(G)
    BY <1>3, <1>4
  <2>2. t \in Seq(G) /\ Len(t) = 5
    BY <1>2, <1>4
  <2>3. l \in Nat
    BY <1>3
  <2> QED BY <2>1, <2>2, <2>3
<1>6. PICK u : u = s \o t
  OBVIOUS
<1>7. /\ u \in Seq(G) /\ DOMAIN u = 1..(l + 5)
      /\ \A j \in 1..l : u[j] = s[j]
      /\ \A j \in 1..5 : u[l + j] = t[j]
  <2>1. PICK q \in Seq(G), r \in Seq(G) : q = s /\ r = t
    BY <1>5
  <2>2. PICK v : v = q \o r
    OBVIOUS
  <2>3. /\ v \in Seq(G) /\ DOMAIN v = 1..(Len(q) + Len(r))
        /\ \A j \in 1..Len(q) : v[j] = q[j]
        /\ \A j \in 1..Len(r) : v[Len(q) + j] = r[j]
    BY <2>2, Behind
  <2>4. u = v /\ Len(q) = l /\ Len(r) = 5
    BY <1>5, <1>6, <2>1, <2>2
  <2> QED BY <2>1, <2>3, <2>4
<1>8. u[l + 1] = a /\ u[l + 2] = b /\ u[l + 3] = c /\ u[l + 4] = x /\ u[l + 5] = y
  <2>1. t[1] = a /\ t[2] = b /\ t[3] = c /\ t[4] = x /\ t[5] = y
    BY <1>2
  <2>2. 1 \in 1..5 /\ 2 \in 1..5 /\ 3 \in 1..5 /\ 4 \in 1..5 /\ 5 \in 1..5
    OBVIOUS
  <2> QED BY <1>7, <2>1, <2>2
<1>9. AddedFor(u, l, d, shot)
  BY <1>1, <1>8 DEF AddedFor
<1>10. IsSequence(u)
  BY <1>7 DEF IsSequence
<1>11. WithShot(s, l, d, shot) = u
  BY <1>1, <1>2, <1>6 DEF WithShot
<1> QED BY <1>7, <1>9, <1>10, <1>11

LEMMA ShotBuilds ==
  ASSUME NEW p, IsPlan(p), Problem(p) = "none", Singular(p), NEW w, NEW m, NEW c \in Nat, Built(p, w, m, c),
         c + 1 \in DOMAIN p.shots, Fed(p, c + 1)
  PROVE  LET shot == p.shots[c + 1] found == Gathered(w, m, shot)
         IN  /\ SoFar(found, Len(shot.refs), w, p, shot)
             /\ Len(found.nodes) \in Nat /\ Len(found.nodes) >= Len(w) /\ Len(w) \in Nat
<1>1. PICK shot : shot = p.shots[c + 1]
  OBVIOUS
<1>2. shot \in ToSet(p.shots)
  BY <1>1 DEF ToSet
<1>3. \A j \in 1..c : j \in DOMAIN p.shots
  <2>1. Len(p.shots) \in Nat /\ DOMAIN p.shots = 1..Len(p.shots)
    BY DEF IsPlan, IsSequence
  <2> QED BY <2>1
<1>4. \A k \in DOMAIN shot.refs : shot.refs[k].source \subseteq SharedOf(p) \cup {p.shots[j].asset : j \in 1..c}
  <2>1. (c + 1) - 1 = c
    OBVIOUS
  <2> QED BY <1>1, <2>1 DEF Fed
<1>5. MakersHaveNodes(w, m, p, shot)
  BY <1>2, <1>3, <1>4, MakersKnown
<1>6. PICK M : w \in Seq(M)
  BY DEF Built, IsSequence
<1>7. shot.refs \in Seq(ToSet(shot.refs))
  BY <1>2 DEF Singular
<1>8. PICK found : found = Gathered(w, m, shot)
  OBVIOUS
<1>9. SoFar(found, Len(shot.refs), w, p, shot)
  <2>1. SoFar(Gathered(w, m, shot), Len(shot.refs), w, p, shot)
    BY <1>5, <1>6, <1>7, GatherDoes, Zenon
  <2> QED BY <1>8, <2>1
<1>10. Len(found.nodes) \in Nat /\ Len(found.nodes) >= Len(w) /\ Len(w) \in Nat
  <2>1. Len(found.nodes) \in Nat /\ Len(found.nodes) >= Len(w)
    BY <1>9 DEF SoFar, IsSequence
  <2>2. Len(w) \in Nat
    BY <1>6
  <2> QED BY <2>1, <2>2
<1> QED BY <1>1, <1>8, <1>9, <1>10

\* The first nodes: those of plan and policy and one for each shared image.
HeadNodes(p, u) ==
  /\ DOMAIN u = 1..(3 + Len(p.shared))
  /\ u[1] = ApiNode(Single("Input"), {}) /\ u[2] = ApiNode(Single("ExecutionPolicy"), {})
  /\ u[3] = ApiNode(Single("Director"), {<<1, 1>>, <<2, 2>>})
  /\ \A k \in DOMAIN p.shared : u[3 + k] = ApiNode(Shared(p.shared[k].asset), FromPlan)

LEMMA HeadBuilds ==
  ASSUME NEW p, IsPlan(p),
         NEW u, u = << ApiNode(Single("Input"), {}), ApiNode(Single("ExecutionPolicy"), {}),
                       ApiNode(Single("Director"), {<<1, 1>>, <<2, 2>>}) >>
                    \o [k \in DOMAIN p.shared |-> ApiNode(Shared(p.shared[k].asset), FromPlan)],
         NEW m, m = [x \in {p.shared[k].asset : k \in DOMAIN p.shared} |->
                       3 + CHOOSE k \in DOMAIN p.shared : p.shared[k].asset = x]
  PROVE  Built(p, u, m, 0) /\ HeadNodes(p, u)
<1>1. PICK head : head = << ApiNode(Single("Input"), {}), ApiNode(Single("ExecutionPolicy"), {}),
                            ApiNode(Single("Director"), {<<1, 1>>, <<2, 2>>}) >>
  OBVIOUS
<1>2. PICK tail : tail = [k \in DOMAIN p.shared |-> ApiNode(Shared(p.shared[k].asset), FromPlan)]
  OBVIOUS
<1>3. PICK n \in Nat : DOMAIN p.shared = 1..n /\ n = Len(p.shared)
  <2>1. Len(p.shared) \in Nat /\ DOMAIN p.shared = 1..Len(p.shared)
    BY DEF IsPlan, IsSequence
  <2> QED BY <2>1
<1>4. PICK T : head \in Seq(T) /\ tail \in Seq(T)
  <2>1. PICK T : T = {head[k] : k \in 1..3} \cup {tail[k] : k \in 1..n}
    OBVIOUS
  <2>2. head \in Seq(T)
    BY <1>1, <2>1
  <2>3. DOMAIN tail = 1..n /\ tail = [k \in DOMAIN tail |-> tail[k]]
    BY <1>2, <1>3
  <2>4. tail = [k \in 1..n |-> tail[k]] /\ \A k \in 1..n : tail[k] \in T
    BY <2>1, <2>3
  <2>5. tail \in [1..n -> T]
    BY ONLY <2>4
  <2>6. tail \in Seq(T)
    BY ONLY <1>3, <2>5
  <2> QED BY <2>2, <2>6
<1>5. Len(head) = 3 /\ Len(tail) = n
  BY <1>1, <1>2, <1>3, <1>4
<1>6. /\ u \in Seq(T) /\ Len(u) = 3 + n /\ DOMAIN u = 1..(3 + n)
      /\ \A j \in 1..3 : u[j] = head[j]
      /\ \A j \in 1..n : u[3 + j] = tail[j]
  <2>1. PICK h \in Seq(T), t \in Seq(T) : h = head /\ t = tail
    BY <1>4
  <2>2. PICK v : v = h \o t
    OBVIOUS
  <2>3. /\ v \in Seq(T) /\ DOMAIN v = 1..(Len(h) + Len(t))
        /\ \A j \in 1..Len(h) : v[j] = h[j]
        /\ \A j \in 1..Len(t) : v[Len(h) + j] = t[j]
    BY <2>2, Behind
  <2>4. u = v /\ Len(h) = 3 /\ Len(t) = n
    BY <1>1, <1>2, <1>5, <2>1, <2>2
  <2>5. /\ u \in Seq(T) /\ DOMAIN u = 1..(3 + n)
        /\ \A j \in 1..3 : u[j] = head[j]
        /\ \A j \in 1..n : u[3 + j] = tail[j]
    BY <2>1, <2>3, <2>4
  <2>6. Len(u) = 3 + n
    BY ONLY <1>3, <2>5
  <2> QED BY <2>5, <2>6
<1>15. HeadNodes(p, u)
  <2>1. 1 \in 1..3 /\ 2 \in 1..3 /\ 3 \in 1..3
    OBVIOUS
  <2>2. head[1] = ApiNode(Single("Input"), {}) /\ head[2] = ApiNode(Single("ExecutionPolicy"), {})
        /\ head[3] = ApiNode(Single("Director"), {<<1, 1>>, <<2, 2>>})
    BY <1>1
  <2>3. u[1] = head[1] /\ u[2] = head[2] /\ u[3] = head[3]
    BY <1>6, <2>1
  <2>4. \A k \in 1..n : u[3 + k] = ApiNode(Shared(p.shared[k].asset), FromPlan)
    BY <1>2, <1>3, <1>6
  <2> QED BY <1>3, <1>6, <2>2, <2>3, <2>4 DEF HeadNodes
<1>7. /\ u[1].ins = {} /\ u[2].ins = {} /\ u[3].ins = {<<1, 1>>, <<2, 2>>}
  BY <1>15 DEF HeadNodes, ApiNode
<1>8. ASSUME NEW k \in 1..n
      PROVE  3 + k \in DOMAIN u /\ u[3 + k].ins = FromPlan /\ u[3 + k].kind = Shared(p.shared[k].asset)
  <2>1. u[3 + k] = ApiNode(Shared(p.shared[k].asset), FromPlan) /\ 3 + k \in DOMAIN u
    BY <1>3, <1>6, <1>15 DEF HeadNodes
  <2> QED BY <2>1 DEF ApiNode
<1>9. FrontToBack(u)
  <2>1. ASSUME NEW j \in 1..(3 + n), NEW i \in u[j].ins PROVE i[2] \in 1..(j - 1)
    <3>1. CASE j \in {1, 2}
      BY <1>7, <2>1, <3>1
    <3>2. CASE j = 3
      BY <1>7, <2>1, <3>2
    <3>3. CASE j \notin {1, 2, 3}
      <4>1. PICK k \in 1..n : j = 3 + k
        <5>1. j - 3 \in 1..n /\ j = 3 + (j - 3)
          BY ONLY <1>3, <2>1, <3>3
        <5> QED BY <5>1
      <4>2. i = <<1, 3>> \/ i = <<2, 2>>
        BY <1>8, <2>1, <4>1 DEF FromPlan
      <4>3. i[2] \in {2, 3}
        BY <4>2
      <4> QED BY <4>1, <4>3
    <3> QED BY <3>1, <3>2, <3>3
  <2> QED BY <1>6, <2>1 DEF FrontToBack
<1>10. SharedOf(p) = {p.shared[k].asset : k \in DOMAIN p.shared}
  BY DEF SharedOf, ToSet
<1>11. ASSUME NEW a \in SharedOf(p) PROVE m[a] \in DOMAIN u /\ u[m[a]].kind = Shared(a)
  <2>1. PICK k : k = CHOOSE j \in DOMAIN p.shared : p.shared[j].asset = a
    OBVIOUS
  <2>2. \E j \in DOMAIN p.shared : p.shared[j].asset = a
    BY <1>10
  <2>3. k \in 1..n /\ p.shared[k].asset = a
    BY <1>3, <2>1, <2>2
  <2>4. m[a] = 3 + k
    BY <1>10, <2>1
  <2> QED BY <1>8, <2>3, <2>4, Zenon
<1>12. \A j : j \notin 1..0
  OBVIOUS
<1>13. IsSequence(u) /\ Len(u) >= 3
  BY <1>6 DEF IsSequence
<1>14. SharedOf(p) \cup {p.shots[j].asset : j \in 1..0} \subseteq DOMAIN m
  BY <1>10, <1>12
<1>16. Built(p, u, m, 0)
  BY <1>9, <1>11, <1>12, <1>13, <1>14, Zenon DEF Built
<1> QED BY <1>15, <1>16

\* The nodes of assembly and manifest.
EndNodes(w, v, u) ==
  /\ Len(w) \in Nat /\ DOMAIN w = 1..Len(w) /\ DOMAIN u = 1..(Len(w) + 2) /\ \A j \in 1..Len(w) : u[j] = w[j]
  /\ u[Len(w) + 1] = ApiNode(Single("StoryAssemble"), FromPlan \cup {<<3 + i, v[i]>> : i \in DOMAIN v})
  /\ u[Len(w) + 2] = ApiNode(Single("RunManifest"), FromPlan \cup {<<3, Len(w) + 1>>})

LEMMA EndBuilds ==
  ASSUME NEW p, NEW w, NEW m, NEW c, Built(p, w, m, c), NEW v, IsSequence(v),
         \A i \in DOMAIN v : v[i] \in DOMAIN w,
         NEW u, u = w \o << ApiNode(Single("StoryAssemble"), FromPlan \cup {<<3 + i, v[i]>> : i \in DOMAIN v}),
                            ApiNode(Single("RunManifest"), FromPlan \cup {<<3, Len(w) + 1>>}) >>
  PROVE  FrontToBack(u) /\ (\A j \in 1..c : ShotShown(p, u, p.shots[j])) /\ EndNodes(w, v, u)
<1>1. PICK M : w \in Seq(M)
  BY DEF Built, IsSequence
<1>2. PICK x, y : /\ x = ApiNode(Single("StoryAssemble"), FromPlan \cup {<<3 + i, v[i]>> : i \in DOMAIN v})
                  /\ y = ApiNode(Single("RunManifest"), FromPlan \cup {<<3, Len(w) + 1>>})
  OBVIOUS
<1>3. PICK G : G = M \cup {x, y}
  BY Zenon
<1>4. PICK s \in Seq(G), t \in Seq(G), l \in Nat : s = w /\ t = <<x, y>> /\ l = Len(w) /\ DOMAIN w = 1..l
  <2>1. w \in Seq(G) /\ <<x, y>> \in Seq(G)
    BY <1>1, <1>3
  <2>2. Len(w) \in Nat /\ DOMAIN w = 1..Len(w)
    BY <1>1
  <2> QED BY <2>1, <2>2, Zenon
<1>5. /\ u \in Seq(G) /\ Len(u) = l + 2 /\ DOMAIN u = 1..(l + 2)
      /\ \A j \in 1..l : u[j] = w[j]
      /\ u[l + 1] = x /\ u[l + 2] = y
  <2>1. PICK v2 : v2 = s \o t
    OBVIOUS
  <2>2. /\ v2 \in Seq(G) /\ DOMAIN v2 = 1..(Len(s) + Len(t))
        /\ \A j \in 1..Len(s) : v2[j] = s[j]
        /\ \A j \in 1..Len(t) : v2[Len(s) + j] = t[j]
    BY <2>1, Behind
  <2>3. u = v2 /\ Len(s) = l /\ Len(t) = 2 /\ t[1] = x /\ t[2] = y
    BY <1>2, <1>4, <2>1
  <2>4. 1 \in 1..2 /\ 2 \in 1..2
    OBVIOUS
  <2>5. /\ u \in Seq(G) /\ DOMAIN u = 1..(l + 2)
        /\ \A j \in 1..l : u[j] = w[j]
        /\ u[l + 1] = x /\ u[l + 2] = y
    BY <1>4, <2>2, <2>3, <2>4
  <2>6. Len(u) = l + 2
    BY ONLY <1>4, <2>5
  <2> QED BY <2>5, <2>6
<1>6. l >= 3 /\ \A n \in 1..l : \A i \in w[n].ins : i[2] \in 1..(n - 1)
  BY <1>4 DEF Built, FrontToBack
<1>7. FrontToBack(u)
  <2>1. ASSUME NEW i \in u[l + 1].ins PROVE i[2] \in 1..((l + 1) - 1)
    <3>1. i = <<1, 3>> \/ i = <<2, 2>> \/ \E k \in DOMAIN v : i = <<3 + k, v[k]>>
      BY <1>2, <1>5, <2>1 DEF ApiNode, FromPlan
    <3>2. i[2] \in {2, 3} \/ i[2] \in 1..l
      BY <1>4, <3>1
    <3> QED BY <1>6, <3>2
  <2>2. ASSUME NEW i \in u[l + 2].ins PROVE i[2] \in 1..((l + 2) - 1)
    <3>1. i = <<1, 3>> \/ i = <<2, 2>> \/ i = <<3, l + 1>>
      BY <1>2, <1>4, <1>5, <2>2 DEF ApiNode, FromPlan
    <3>2. i[2] \in {2, 3, l + 1}
      BY <3>1
    <3> QED BY <1>6, <3>2
  <2>3. \A n \in 1..(l + 2) : n \in 1..l \/ n = l + 1 \/ n = l + 2
    OBVIOUS
  <2> QED BY <1>5, <1>6, <2>1, <2>2, <2>3 DEF FrontToBack
<1>8. ASSUME NEW j \in 1..c PROVE ShotShown(p, u, p.shots[j])
  <2>1. PICK shot : shot = p.shots[j]
    OBVIOUS
  <2>2. ShotShown(p, w, shot) /\ FrontToBack(w)
    BY <2>1 DEF Built
  <2>3. w \in Seq(G) /\ u \in Seq(G) /\ Len(u) >= Len(w) /\ \A n \in DOMAIN w : u[n] = w[n]
    BY <1>4, <1>5
  <2>4. ShotShown(p, u, shot)
    BY <2>2, <2>3, ShownStays
  <2> QED BY <2>1, <2>4
<1>9. EndNodes(w, v, u)
  BY <1>2, <1>4, <1>5 DEF EndNodes
<1> QED BY <1>7, <1>8, <1>9

\* u and m2 are what ApiShot makes of the nodes w and of asset_nodes m for the shot after the first c.
AddsShot(p, w, m, c, shot, found, l, u, m2) ==
  /\ IsPlan(p) /\ Problem(p) = "none" /\ Singular(p) /\ Built(p, w, m, c)
  /\ c + 1 \in DOMAIN p.shots /\ Fed(p, c + 1) /\ shot = p.shots[c + 1]
  /\ found = Gathered(w, m, shot) /\ l = Len(found.nodes)
  /\ u = WithShot(found.nodes, l, found.deps, shot) /\ m2 = Put(m, shot.asset, l + 2)

LEMMA ShotAdded ==
  ASSUME NEW p, NEW w, NEW m, NEW c \in Nat, NEW shot, NEW found, NEW l, NEW u, NEW m2,
         AddsShot(p, w, m, c, shot, found, l, u, m2)
  PROVE  Built(p, u, m2, c + 1) /\ l + 5 \in DOMAIN u /\ DOMAIN w \subseteq DOMAIN u
<1>1. /\ IsPlan(p) /\ Problem(p) = "none" /\ Singular(p) /\ Built(p, w, m, c)
      /\ c + 1 \in DOMAIN p.shots /\ Fed(p, c + 1) /\ shot = p.shots[c + 1]
      /\ found = Gathered(w, m, shot) /\ l = Len(found.nodes)
      /\ u = WithShot(found.nodes, l, found.deps, shot) /\ m2 = Put(m, shot.asset, l + 2)
  BY DEF AddsShot
<1> USE <1>1
<1>2. PICK d : d = found.deps
  OBVIOUS
<1>3. SoFar(found, Len(shot.refs), w, p, shot) /\ l \in Nat /\ l >= Len(w) /\ Len(w) \in Nat
  <2>1. PICK x : x = Gathered(w, m, p.shots[c + 1])
    OBVIOUS
  <2>2. SoFar(x, Len(p.shots[c + 1].refs), w, p, p.shots[c + 1]) /\ Len(x.nodes) \in Nat
        /\ Len(x.nodes) >= Len(w) /\ Len(w) \in Nat
    BY <2>1, ShotBuilds, Zenon
  <2>3. x = found
    BY <2>1
  <2> QED BY <2>2, <2>3
<1>4. IsSequence(found.nodes)
  BY <1>3, Zenon DEF SoFar
<1>5. IsSequence(u) /\ DOMAIN u = 1..(l + 5) /\ (\A j \in 1..l : u[j] = found.nodes[j]) /\ AddedFor(u, l, d, shot)
  <2>1. PICK s : s = found.nodes
    OBVIOUS
  <2>2. IsSequence(s) /\ l = Len(s)
    BY <1>4, <2>1
  <2>3. PICK v : v = WithShot(s, l, d, shot)
    OBVIOUS
  <2>4. IsSequence(v) /\ DOMAIN v = 1..(l + 5) /\ (\A j \in 1..l : v[j] = s[j]) /\ AddedFor(v, l, d, shot)
    BY <2>2, <2>3, FiveBehind
  <2>5. u = v
    BY <1>2, <2>1, <2>3
  <2> QED BY <2>1, <2>4, <2>5
<1>6. NextOf(p, w, m, c, shot, found, l, u, m2)
  BY <1>3, <1>5, <1>2, Zenon DEF NextOf
<1>7. Built(p, u, m2, c + 1)
  BY <1>6, NextBuilt
<1>8. l + 5 \in DOMAIN u /\ DOMAIN w \subseteq DOMAIN u
  <2>1. \E N : w \in Seq(N)
    BY DEF Built, IsSequence
  <2>2. DOMAIN w = 1..Len(w)
    BY <2>1
  <2>3. DOMAIN u = 1..(l + 5) /\ l \in Nat /\ l >= Len(w) /\ Len(w) \in Nat
    BY <1>3, <1>5, Zenon
  <2> QED BY ONLY <2>2, <2>3
<1> QED BY <1>7, <1>8

\* A caller's plan is one from the start.
Handed ==
  origin = "caller" => phase \notin {"request", "drafting"} /\ IsPlan(plan) /\ Singular(plan)

LEMMA HandedInit == Init => Handed
<1> SUFFICES ASSUME Init, origin = "caller"
             PROVE  phase \notin {"request", "drafting"} /\ IsPlan(plan) /\ Singular(plan)
  BY DEF Handed
<1>1. phase = "check" /\ plan \in CallerPlans
  BY DEF Init, PlanInit
<1>2. PICK p \in CallerPlans : p = plan
  BY <1>1
<1>3. IsPlan(p)
  BY CallerPlansAssumption DEF IsPlan, IsSequence
<1>4. Singular(p)
  BY CallerPlansAssumption DEF Singular
<1> QED BY <1>1, <1>2, <1>3, <1>4

LEMMA HandedKept ==
  ASSUME IInv, Handed, [(PlanNext /\ UNCHANGED compileVars) \/ CompileNext]_vars
  PROVE  Handed'
<1>1. CASE UNCHANGED planVars
  BY <1>1 DEF Handed, planVars
<1>2. CASE BeginDraft \/ DraftShot \/ EndDraft
  <2>1. phase \in {"request", "drafting"} /\ origin' = origin
    BY <1>2 DEF BeginDraft, DraftShot, EndDraft, Refuse
  <2> QED BY <2>1 DEF Handed
<1>3. CASE CheckGraph \/ ResolveLayer
  <2>1. phase' \in {"resolve", "refused"} /\ origin' = origin /\ plan' = plan
    BY <1>3 DEF CheckGraph, ResolveLayer, Refuse
  <2> QED BY <2>1 DEF Handed
<1>4. CASE Accept
  <2> SUFFICES ASSUME origin' = "caller" PROVE phase' \notin {"request", "drafting"} /\ IsPlan(plan') /\ Singular(plan')
    BY DEF Handed
  <2>1. phase = "resolve" /\ phase' = "planned" /\ origin = "caller" /\ plan' = InOrder(plan)
    BY <1>4 DEF Accept
  <2>2. IsPlan(plan) /\ Singular(plan) /\ OrdersContiguous(plan)
    BY <2>1 DEF Handed, IInv
  <2>3. PICK q : q = InOrder(plan)
    OBVIOUS
  <2>4. IsPlan(q) /\ ToSet(q.shots) = ToSet(plan.shots)
    BY <2>2, <2>3, InOrderKeepsShots
  <2>5. Singular(q)
    BY <2>2, <2>4 DEF Singular
  <2> QED BY <2>1, <2>3, <2>4, <2>5
<1>5. CompileNext => UNCHANGED planVars
  BY Zenon DEF CompileNext, BeginCompile, Fail, UiShot, UiEnd, ApiShot, ApiEnd
<1> QED BY <1>1, <1>2, <1>3, <1>4, <1>5 DEF PlanNext, vars

LEMMA SingularDraft ==
  ASSUME NEW p, Drafted(p)
  PROVE  IsPlan(p) /\ Singular(p)
<1>1. ASSUME NEW s \in ToSet(p.shots)
      PROVE  /\ s.refs \in Seq(ToSet(s.refs))
             /\ \A r \in ToSet(s.refs) : r.source = {} \/ \E a \in r.source : r.source = {a}
  <2>1. PICK i \in DOMAIN p.shots : s = p.shots[i]
    BY <1>1 DEF ToSet
  <2>2. DraftedShot(p, i)
    BY DEF Drafted
  <2>3. s.refs \in Seq(ToSet(s.refs)) /\ \A r \in ToSet(s.refs) : DraftedRef(p, i, r)
    BY <2>1, <2>2 DEF DraftedShot
  <2> QED BY <2>3 DEF DraftedRef
<1> QED BY <1>1 DEF Drafted, Singular

LEMMA PlannedIsSingular ==
  ASSUME DraftInv, Handed, phase = "planned"
  PROVE  IsPlan(plan) /\ Singular(plan)
BY SingularDraft DEF DraftInv, Handed

LEMMA OneAsList ==
  ASSUME NEW a
  PROVE  a \in ToSet(SetToSeq({a}))
<1>1. Cardinality({a}) = 1
  BY FS_Singleton
<1>2. PICK f : f = [i \in 1..1 |-> a]
  OBVIOUS
<1>3. f \in [1..1 -> {a}] /\ IsInjective(f)
  BY <1>2 DEF IsInjective
<1>4. PICK g : g = SetToSeq({a})
  OBVIOUS
<1>5. g \in [1..1 -> {a}]
  <2>1. SetToSeq({a}) = CHOOSE h \in [1..1 -> {a}] : IsInjective(h)
    BY <1>1 DEF SetToSeq
  <2>2. (CHOOSE h \in [1..1 -> {a}] : IsInjective(h)) \in [1..1 -> {a}]
    BY <1>3
  <2> QED BY <1>4, <2>1, <2>2
<1>6. 1 \in DOMAIN g /\ g[1] = a
  BY <1>5
<1> QED BY <1>4, <1>6 DEF ToSet

\* All that a shot refers to is among what it is fed with.
LEMMA SourcesCover ==
  ASSUME NEW shot, shot.refs \in Seq(ToSet(shot.refs)),
         \A r \in ToSet(shot.refs) : r.source = {} \/ \E a \in r.source : r.source = {a},
         NEW k \in DOMAIN shot.refs
  PROVE  shot.refs[k].source \subseteq ToSet(SourcesOf(shot))
<1>1. PICK A : A = UNION {r.source : r \in ToSet(shot.refs)}
  OBVIOUS
<1>2. PICK refs : refs = shot.refs
  OBVIOUS
<1>3. /\ refs \in Seq(ToSet(refs)) /\ k \in DOMAIN refs
      /\ \A r \in ToSet(refs) : r.source \subseteq A /\ (r.source = {} \/ \E a \in r.source : r.source = {a})
  BY <1>1, <1>2
<1>4. ASSUME NEW j \in DOMAIN refs PROVE SetToSeq(refs[j].source) \in Seq(A)
  <2>1. PICK S : S = refs[j].source
    OBVIOUS
  <2>2. S \subseteq A /\ (S = {} \/ \E a \in S : S = {a})
    BY <1>3, <2>1 DEF ToSet
  <2>3. S = {} \/ \E a : S = {a}
    BY <2>2
  <2>4. IsFiniteSet(S)
    <3>1. IsFiniteSet({}) /\ \A a : IsFiniteSet({a})
      BY FS_EmptySet, FS_Singleton
    <3> QED BY <2>3, <3>1
  <2>5. SetToSeq(S) \in Seq(S)
    BY <2>4, SetAsList
  <2>6. Seq(S) \subseteq Seq(A)
    BY <2>2
  <2> QED BY <2>1, <2>5, <2>6
<1>5. PICK seqs : seqs = [j \in DOMAIN refs |-> SetToSeq(refs[j].source)]
  OBVIOUS
<1>6. seqs \in Seq(Seq(A)) /\ k \in DOMAIN seqs
  <2>1. Len(refs) \in Nat /\ DOMAIN refs = 1..Len(refs)
    BY <1>3
  <2>2. seqs = [j \in 1..Len(refs) |-> seqs[j]] /\ \A j \in 1..Len(refs) : seqs[j] \in Seq(A)
    BY <1>4, <1>5, <2>1
  <2> QED BY <1>3, <1>5, <2>1, <2>2
<1>7. SourcesOf(shot) = FlattenSeq(seqs)
  BY <1>2, <1>5 DEF SourcesOf
<1>8. ToSet(seqs[k]) \subseteq ToSet(FlattenSeq(seqs))
  BY <1>6, FlattenOnto
<1>9. ASSUME NEW a \in refs[k].source PROVE a \in ToSet(seqs[k])
  <2>1. refs[k].source = {a}
    BY <1>3, <1>9, SMTT(30) DEF ToSet
  <2>2. seqs[k] = SetToSeq({a})
    BY <1>3, <1>5, <2>1
  <2> QED BY <2>2, OneAsList
<1> QED BY <1>2, <1>7, <1>8, <1>9

-----------------------------------------------------------------------------
(* What the workflow shows                                                   *)

\* Of the compilation: who has a node, that the shots gone past refer to nothing later, and what the
\* API workflow has of them.
ShownInv ==
  /\ stage \in {"idle", "ui"} => videos = << >>
  /\ stage \in {"ui", "api", "done"} => Problem(plan) = "none"
  /\ stage = "ui" =>
       /\ IsSequence(subgraphs) /\ Len(subgraphs) <= Len(plan.shots)
       /\ DOMAIN uiMade = SharedOf(plan) \cup {plan.shots[j].asset : j \in 1..Len(subgraphs)}
       /\ \A j \in 1..Len(subgraphs) : Fed(plan, j)
  /\ stage = "api" =>
       /\ IsSequence(videos) /\ Len(videos) <= Len(plan.shots)
       /\ \A j \in DOMAIN plan.shots : Fed(plan, j)
       /\ \A i \in DOMAIN videos : videos[i] \in DOMAIN api
       /\ Built(plan, api, apiMade, Len(videos))
  /\ stage = "done" =>
       FrontToBack(api) /\ \A j \in DOMAIN plan.shots : ShotShown(plan, api, plan.shots[j])

LEMMA ShownInit == Init => ShownInv
BY DEF Init, CompileInit, ShownInv

LEMMA PlanStepShown ==
  ASSUME DraftInv, ShownInv, PlanNext, UNCHANGED compileVars
  PROVE  ShownInv'
<1>1. phase # "planned"
  BY DEF PlanNext, BeginDraft, DraftShot, EndDraft, CheckGraph, ResolveLayer, Accept
<1>2. stage = "idle" /\ stage' = "idle" /\ videos' = videos
  BY <1>1 DEF DraftInv, compileVars
<1> QED BY <1>2 DEF ShownInv

LEMMA BeginCompileShown ==
  ASSUME DraftInv, Handed, ShownInv, BeginCompile
  PROVE  ShownInv'
<1>1. phase = "planned" /\ stage = "idle" /\ subgraphs = << >> /\ videos = << >>
  BY DEF BeginCompile, DraftInv, ShownInv
<1>2. CASE ~Compilable /\ Fail
  BY <1>1, <1>2 DEF Fail, ShownInv
<1>3. CASE Compilable
  <2>1. /\ stage' = "ui" /\ plan' = plan /\ subgraphs' = << >> /\ videos' = << >>
        /\ DOMAIN uiMade' = {plan.shared[k].asset : k \in DOMAIN plan.shared}
    BY <1>1, <1>3 DEF BeginCompile, planVars
  <2>2. DOMAIN uiMade' = SharedOf(plan)
    BY <2>1 DEF SharedOf, ToSet
  <2>3. << >> \in Seq({}) /\ Len(<< >>) = 0 /\ \A j : j \notin 1..0
    OBVIOUS
  <2>4. Len(plan.shots) \in Nat
    BY <1>1, PlannedIsSingular DEF IsPlan, IsSequence
  <2>5. {plan.shots[j].asset : j \in 1..Len(subgraphs')} = {}
    BY <2>1, <2>3
  <2>6. IsSequence(subgraphs') /\ Len(subgraphs') <= Len(plan.shots) /\ \A j \in 1..Len(subgraphs') : Fed(plan, j)
    BY <2>1, <2>3, <2>4 DEF IsSequence
  <2>7. Problem(plan) = "none"
    BY <1>3 DEF Compilable
  <2> QED BY <2>1, <2>2, <2>5, <2>6, <2>7 DEF ShownInv
<1> QED BY <1>2, <1>3 DEF BeginCompile

LEMMA UiShotShown ==
  ASSUME DraftInv, Handed, ShownInv, UiShot
  PROVE  ShownInv'
<1>1. stage = "ui" /\ phase = "planned" /\ Problem(plan) = "none" /\ videos = << >>
  BY DEF UiShot, DraftInv, ShownInv
<1>2. IsPlan(plan) /\ Singular(plan)
  BY <1>1, PlannedIsSingular
<1>3. PICK T : subgraphs \in Seq(T)
  BY <1>1 DEF ShownInv, IsSequence
<1>4. PICK n \in Nat, i \in Nat : n = Len(subgraphs) /\ i = n + 1
  BY <1>3
<1>5. PICK shot : shot = plan.shots[i]
  OBVIOUS
<1>6. CASE Fail
  BY <1>1, <1>6 DEF Fail, ShownInv
<1>7. CASE ~Fail
  <2>1. PICK g : /\ subgraphs' = Append(subgraphs, g) /\ i <= Len(plan.shots)
                 /\ ToSet(SourcesOf(shot)) \subseteq DOMAIN uiMade
                 /\ DOMAIN uiMade' = DOMAIN uiMade \cup {shot.asset}
                 /\ stage' = "ui" /\ plan' = plan /\ videos' = << >>
    BY <1>1, <1>4, <1>5, <1>7 DEF UiShot, Put, planVars
  <2>2. subgraphs' \in Seq(T \cup {g}) /\ Len(subgraphs') = n + 1
    <3>1. PICK s \in Seq(T) : s = subgraphs
      BY <1>3
    <3>2. PICK t : t = Append(s, g)
      OBVIOUS
    <3>3. t \in Seq(T \cup {g}) /\ Len(t) = Len(s) + 1
      BY <3>2, AppendAt
    <3> QED BY <1>4, <2>1, <3>1, <3>2, <3>3
  <2>3. i \in DOMAIN plan.shots /\ shot \in ToSet(plan.shots)
    <3>1. Len(plan.shots) \in Nat /\ DOMAIN plan.shots = 1..Len(plan.shots)
      BY <1>2 DEF IsPlan, IsSequence
    <3>2. i \in DOMAIN plan.shots
      BY <1>4, <2>1, <3>1
    <3> QED BY <1>5, <3>2 DEF ToSet
  <2>4. \A j \in 1..(n + 1) : j \in 1..n \/ j = i
    BY <1>4
  <2>5. {plan.shots[j].asset : j \in 1..(n + 1)} = {plan.shots[j].asset : j \in 1..n} \cup {shot.asset}
    <3>1. \A j \in 1..n : j \in 1..(n + 1)
      OBVIOUS
    <3>2. i \in 1..(n + 1)
      BY <1>4
    <3> QED BY <1>5, <2>4, <3>1, <3>2
  <2>6. DOMAIN uiMade = SharedOf(plan) \cup {plan.shots[j].asset : j \in 1..n}
    BY <1>1, <1>4 DEF ShownInv
  <2>7. DOMAIN uiMade' = SharedOf(plan) \cup {plan.shots[j].asset : j \in 1..(n + 1)}
    BY <2>1, <2>5, <2>6
  <2>8. Fed(plan, i)
    <3>1. shot.refs \in Seq(ToSet(shot.refs))
          /\ \A r \in ToSet(shot.refs) : r.source = {} \/ \E a \in r.source : r.source = {a}
      BY <1>2, <2>3 DEF Singular
    <3>2. \A k \in DOMAIN shot.refs : shot.refs[k].source \subseteq ToSet(SourcesOf(shot))
      BY <3>1, SourcesCover
    <3>3. i - 1 = n
      BY <1>4
    <3> QED BY <1>5, <2>1, <2>6, <3>2, <3>3 DEF Fed
  <2>9. \A j \in 1..(n + 1) : Fed(plan, j)
    BY <1>1, <1>4, <2>4, <2>8 DEF ShownInv
  <2>10. IsSequence(subgraphs') /\ Len(subgraphs') = n + 1 /\ n + 1 <= Len(plan.shots)
    BY <1>4, <2>1, <2>2 DEF IsSequence
  <2> QED BY <1>1, <2>1, <2>7, <2>9, <2>10 DEF ShownInv
<1> QED BY <1>6, <1>7

LEMMA UiEndShown ==
  ASSUME DraftInv, Handed, ShownInv, UiEnd
  PROVE  ShownInv'
<1>1. stage = "ui" /\ phase = "planned" /\ Problem(plan) = "none" /\ videos = << >> /\ Len(subgraphs) = Len(plan.shots)
  BY DEF UiEnd, DraftInv, ShownInv
<1>2. IsPlan(plan) /\ Singular(plan)
  BY <1>1, PlannedIsSingular
<1>3. /\ stage' = "api" /\ plan' = plan /\ videos' = << >>
      /\ api' = ApiHead
      /\ apiMade' = [x \in {plan.shared[k].asset : k \in DOMAIN plan.shared} |->
                       3 + CHOOSE k \in DOMAIN plan.shared : plan.shared[k].asset = x]
  BY <1>1 DEF UiEnd, planVars
<1>4. Built(plan, api', apiMade', 0)
  <2>1. PICK u, m : u = api' /\ m = apiMade'
    OBVIOUS
  <2>2. u = << ApiNode(Single("Input"), {}), ApiNode(Single("ExecutionPolicy"), {}),
               ApiNode(Single("Director"), {<<1, 1>>, <<2, 2>>}) >>
            \o [k \in DOMAIN plan.shared |-> ApiNode(Shared(plan.shared[k].asset), FromPlan)]
    BY <1>3, <2>1 DEF ApiHead
  <2>3. m = [x \in {plan.shared[k].asset : k \in DOMAIN plan.shared} |->
               3 + CHOOSE k \in DOMAIN plan.shared : plan.shared[k].asset = x]
    BY <1>3, <2>1
  <2>4. Built(plan, u, m, 0)
    BY <1>2, <2>2, <2>3, HeadBuilds, Zenon
  <2> QED BY <2>1, <2>4
<1>5. \A j \in DOMAIN plan.shots : Fed(plan, j)
  <2>1. DOMAIN plan.shots = 1..Len(plan.shots)
    BY <1>2 DEF IsPlan, IsSequence
  <2> QED BY <1>1, <2>1 DEF ShownInv
<1>6. << >> \in Seq({}) /\ Len(<< >>) = 0 /\ DOMAIN << >> = {}
  OBVIOUS
<1>7. Len(plan.shots) \in Nat
  BY <1>2 DEF IsPlan, IsSequence
<1>8. IsSequence(videos') /\ Len(videos') = 0 /\ DOMAIN videos' = {} /\ 0 <= Len(plan.shots)
  BY <1>3, <1>6, <1>7 DEF IsSequence
<1> QED BY <1>1, <1>3, <1>4, <1>5, <1>8 DEF ShownInv

\* The loop of _compile_api adds the next shot.
LEMMA ApiShotAdds ==
  ASSUME DraftInv, Handed, ShownInv, ApiShot
  PROVE  \E c, found, l, m2 :
           /\ c \in Nat /\ c = Len(videos) /\ AddsShot(plan, api, apiMade, c, plan.shots[c + 1], found, l, api', m2)
           /\ stage = "api" /\ stage' = "api" /\ plan' = plan /\ apiMade' = m2 /\ videos' = Append(videos, l + 5)
<1>1. stage = "api" /\ phase = "planned" /\ Problem(plan) = "none" /\ Len(videos) < Len(plan.shots)
  BY Zenon DEF ApiShot, DraftInv, ShownInv
<1>2. IsPlan(plan) /\ Singular(plan)
  BY <1>1, PlannedIsSingular
<1>3. /\ IsSequence(videos) /\ \A j \in DOMAIN plan.shots : Fed(plan, j)
      /\ \A i \in DOMAIN videos : videos[i] \in DOMAIN api
      /\ Built(plan, api, apiMade, Len(videos))
  BY <1>1 DEF ShownInv
<1>4. PICK T : videos \in Seq(T)
  BY <1>3 DEF IsSequence
<1>5. PICK c \in Nat : c = Len(videos)
  <2>1. Len(videos) \in Nat
    BY <1>4
  <2> QED BY <2>1
<1>6. PICK p, w, m, u : p = plan /\ w = api /\ m = apiMade /\ u = api'
  OBVIOUS
<1>7. PICK shot : shot = p.shots[c + 1]
  OBVIOUS
<1>8. PICK found : found = Gathered(w, m, shot)
  OBVIOUS
<1>9. PICK l, d : l = Len(found.nodes) /\ d = found.deps
  OBVIOUS
<1>10. IsPlan(p) /\ Problem(p) = "none" /\ Singular(p) /\ Built(p, w, m, c)
  BY <1>1, <1>2, <1>3, <1>5, <1>6
<1>11. c + 1 \in DOMAIN p.shots /\ c + 1 <= Len(p.shots)
  <2>1. Len(p.shots) \in Nat /\ DOMAIN p.shots = 1..Len(p.shots)
    BY <1>10 DEF IsPlan, IsSequence
  <2> QED BY <1>1, <1>5, <1>6, <2>1
<1>12. Fed(p, c + 1)
  BY <1>3, <1>6, <1>11
<1>13. l \in Nat
  <2>1. PICK x : x = Gathered(w, m, p.shots[c + 1])
    OBVIOUS
  <2>2. Len(x.nodes) \in Nat
    BY <1>10, <1>11, <1>12, <2>1, ShotBuilds, Zenon
  <2> QED BY <1>7, <1>8, <1>9, <2>1, <2>2
<1>14. /\ u = WithShot(found.nodes, l, d, shot)
       /\ apiMade' = Put(m, shot.asset, l + 2) /\ videos' = Append(videos, l + 5)
       /\ stage' = "api" /\ plan' = p
  <2>1. DependencyAssets(shot) = found
    <3>1. DependencyAssets(shot) = Gathered(api, apiMade, shot)
      BY DEF DependencyAssets, Gathered
    <3> QED BY <1>6, <1>8, <3>1
  <2>2. (l + 1) + 1 = l + 2 /\ (l + 1) + 2 = l + 3 /\ (l + 1) + 3 = l + 4 /\ (l + 1) + 4 = l + 5
    BY <1>13
  <2> HIDE DEF DependencyAssets
  <2>3. plan.shots[Len(videos) + 1] = shot
    BY <1>5, <1>6, <1>7
  <2>4. /\ api' = found.nodes \o
           << ApiNode(CanvasPack(shot.id, Len(d)), {<<1 + k, d[k]>> : k \in DOMAIN d}),
              ApiNode(Keyframe(shot), FromPlan \cup {<<6, l + 1>>}),
              ApiNode(VideoPack(shot.id, 1 + Len(d)),
                      {<<2, (l + 1) + 1>>} \cup {<<2 + k, d[k]>> : k \in DOMAIN d}),
              ApiNode(PromptOf(shot.id), {<<1, 3>>, <<2, (l + 1) + 2>>}),
              ApiNode(VideoNode(shot.id), {<<1, 3>>, <<2, (l + 1) + 3>>, <<3, (l + 1) + 2>>, <<4, 2>>}) >>
        /\ apiMade' = Put(apiMade, shot.asset, (l + 1) + 1) /\ videos' = Append(videos, (l + 1) + 4)
        /\ UNCHANGED planVars /\ stage' = stage
    BY <1>9, <2>1, <2>3 DEF ApiShot
  <2> QED BY <1>1, <1>6, <2>2, <2>4 DEF WithShot, planVars
<1>15. PICK m2 : m2 = Put(m, shot.asset, l + 2)
  OBVIOUS
<1>16. AddsShot(p, w, m, c, shot, found, l, u, m2)
  BY <1>7, <1>8, <1>9, <1>10, <1>11, <1>12, <1>14, <1>15 DEF AddsShot
<1> QED BY <1>1, <1>5, <1>6, <1>7, <1>14, <1>15, <1>16, Zenon

LEMMA ApiShotShown ==
  ASSUME DraftInv, Handed, ShownInv, ApiShot
  PROVE  ShownInv'
<1>1. PICK c, found, l, m2 :
           /\ c \in Nat /\ c = Len(videos) /\ AddsShot(plan, api, apiMade, c, plan.shots[c + 1], found, l, api', m2)
           /\ stage = "api" /\ stage' = "api" /\ plan' = plan /\ apiMade' = m2 /\ videos' = Append(videos, l + 5)
  BY ApiShotAdds, Zenon
<1>2. PICK p, w, u : p = plan /\ w = api /\ u = api'
  OBVIOUS
<1>3. /\ IsSequence(videos) /\ \A j \in DOMAIN plan.shots : Fed(plan, j)
      /\ \A i \in DOMAIN videos : videos[i] \in DOMAIN api
  BY <1>1 DEF ShownInv
<1>4. PICK T : videos \in Seq(T)
  BY <1>3 DEF IsSequence
<1>5. Built(p, u, m2, c + 1) /\ l + 5 \in DOMAIN u /\ DOMAIN w \subseteq DOMAIN u
  <2>1. PICK shot : shot = p.shots[c + 1]
    OBVIOUS
  <2>2. AddsShot(p, w, apiMade, c, shot, found, l, u, m2)
    BY <1>1, <1>2, <2>1
  <2> QED BY <1>1, <2>2, ShotAdded
<1>6. IsPlan(p) /\ Problem(p) = "none" /\ c + 1 <= Len(p.shots)
  <2>1. IsPlan(p) /\ Problem(p) = "none" /\ c + 1 \in DOMAIN p.shots
    BY <1>1, <1>2 DEF AddsShot
  <2>2. Len(p.shots) \in Nat /\ DOMAIN p.shots = 1..Len(p.shots)
    BY <2>1 DEF IsPlan, IsSequence
  <2> QED BY <2>1, <2>2
<1>7. /\ IsSequence(videos') /\ Len(videos') = c + 1
      /\ \A i \in DOMAIN videos' : videos'[i] \in DOMAIN u
  <2>1. PICK v \in Seq(T) : v = videos
    BY <1>4
  <2>2. PICK e : e = l + 5
    OBVIOUS
  <2>3. PICK v2 : v2 = Append(v, e)
    OBVIOUS
  <2>4. /\ v2 \in Seq(T \cup {e}) /\ Len(v2) = Len(v) + 1 /\ DOMAIN v2 = 1..(Len(v) + 1)
        /\ \A i \in 1..Len(v) : v2[i] = v[i]
        /\ v2[Len(v) + 1] = e
    BY <2>3, AppendAt
  <2>5. Len(v) = c /\ v2 = videos' /\ DOMAIN v = 1..c
    BY <1>1, <2>1, <2>2, <2>3
  <2>6. \A i \in 1..(c + 1) : i \in 1..c \/ i = c + 1
    BY <1>1
  <2>7. \A i \in 1..c : v[i] \in DOMAIN u
    BY <1>2, <1>3, <1>5, <2>1, <2>5
  <2>8. \A i \in 1..(c + 1) : v2[i] \in DOMAIN u
    BY <1>5, <2>2, <2>4, <2>5, <2>6, <2>7
  <2> QED BY <2>4, <2>5, <2>8 DEF IsSequence
<1>8. Built(plan', api', apiMade', Len(videos'))
  BY <1>1, <1>2, <1>5, <1>7
<1> QED BY <1>1, <1>2, <1>3, <1>6, <1>7, <1>8 DEF ShownInv

LEMMA ApiEndShown ==
  ASSUME DraftInv, Handed, ShownInv, ApiEnd
  PROVE  ShownInv'
<1>1. stage = "api" /\ phase = "planned" /\ Problem(plan) = "none" /\ Len(videos) = Len(plan.shots)
  BY DEF ApiEnd, DraftInv, ShownInv
<1>2. IsPlan(plan)
  BY <1>1, PlannedIsSingular
<1>3. /\ IsSequence(videos)
      /\ \A i \in DOMAIN videos : videos[i] \in DOMAIN api
      /\ Built(plan, api, apiMade, Len(plan.shots))
  BY <1>1 DEF ShownInv
<1>4. /\ stage' = "done" /\ plan' = plan
      /\ api' = api \o
           << ApiNode(Single("StoryAssemble"), FromPlan \cup {<<3 + i, videos[i]>> : i \in DOMAIN videos}),
              ApiNode(Single("RunManifest"), FromPlan \cup {<<3, Len(api) + 1>>}) >>
  BY DEF ApiEnd, planVars
<1>5. PICK w, m, v, u, c : w = api /\ m = apiMade /\ v = videos /\ u = api' /\ c = Len(plan.shots)
  OBVIOUS
<1>6. FrontToBack(u) /\ \A j \in 1..c : ShotShown(plan, u, plan.shots[j])
  <2>1. Built(plan, w, m, c) /\ IsSequence(v) /\ \A i \in DOMAIN v : v[i] \in DOMAIN w
    BY <1>3, <1>5
  <2>2. u = w \o << ApiNode(Single("StoryAssemble"), FromPlan \cup {<<3 + i, v[i]>> : i \in DOMAIN v}),
                    ApiNode(Single("RunManifest"), FromPlan \cup {<<3, Len(w) + 1>>}) >>
    BY <1>4, <1>5
  <2> QED BY <2>1, <2>2, EndBuilds, Zenon
<1>7. DOMAIN plan.shots = 1..c
  BY <1>2, <1>5 DEF IsPlan, IsSequence
<1> QED BY <1>1, <1>4, <1>5, <1>6, <1>7 DEF ShownInv

LEMMA ShownKept ==
  ASSUME DraftInv, Handed, ShownInv, [(PlanNext /\ UNCHANGED compileVars) \/ CompileNext]_vars
  PROVE  ShownInv'
<1>1. CASE UNCHANGED vars
  BY <1>1 DEF ShownInv, vars, planVars, compileVars
<1>2. CASE PlanNext /\ UNCHANGED compileVars
  BY <1>2, PlanStepShown
<1>3. CASE CompileNext
  BY <1>3, BeginCompileShown, UiShotShown, UiEndShown, ApiShotShown, ApiEndShown DEF CompileNext
<1> QED BY <1>1, <1>2, <1>3

LEMMA InvariantShows == ShownInv => ShownInOrder
<1> SUFFICES ASSUME ShownInv, stage = "done" PROVE ShownInOrder
  BY DEF ShownInOrder
<1>1. FrontToBack(api) /\ \A j \in DOMAIN plan.shots : ShotShown(plan, api, plan.shots[j])
  BY DEF ShownInv
<1>2. \A n \in DOMAIN api : \A i \in api[n].ins : i[2] \in 1..(n - 1)
  BY <1>1 DEF FrontToBack
<1>3. ASSUME NEW shot \in ToSet(plan.shots)
      PROVE  LET wanted == [k \in DOMAIN shot.refs |-> MakerOf(shot, shot.refs[k])]
             IN  \E k, v \in DOMAIN api :
                   /\ api[k].kind = Keyframe(shot) /\ Shows(k, 6, wanted)
                   /\ api[v].kind = VideoNode(shot.id) /\ Shows(v, 3, <<Keyframe(shot)>> \o wanted)
  <2>1. PICK wanted : wanted = Wanted(plan, shot)
    OBVIOUS
  <2>2. wanted = [k \in DOMAIN shot.refs |-> MakerOf(shot, shot.refs[k])]
    BY <2>1 DEF Wanted, MakerOf, MakerIn
  <2>3. ShotShown(plan, api, shot)
    BY <1>1 DEF ToSet
  <2>4. PICK k \in DOMAIN api, v \in DOMAIN api :
          /\ api[k].kind = Keyframe(shot) /\ ShowsIn(api, k, 6, wanted)
          /\ api[v].kind = VideoNode(shot.id) /\ ShowsIn(api, v, 3, <<Keyframe(shot)>> \o wanted)
    BY <2>1, <2>3 DEF ShotShown
  <2>5. ASSUME NEW n, NEW slot, NEW kinds, ShowsIn(api, n, slot, kinds) PROVE Shows(n, slot, kinds)
    BY <2>5 DEF ShowsIn, Shows, IntoIn, Into
  <2>6. Shows(k, 6, wanted) /\ Shows(v, 3, <<Keyframe(shot)>> \o wanted)
    BY <2>4, <2>5
  <2> QED BY <2>2, <2>4, <2>6
<1> QED BY <1>2, <1>3 DEF ShownInOrder

\* The workflow shows every generator the references of its shot in their order, for any plan that
\* compiles.
THEOREM GeneratorsAreShownInOrder == Spec => []ShownInOrder
<1>1. Init => Handed /\ ShownInv
  BY HandedInit, ShownInit
<1>2. IInv /\ DraftInv /\ (Handed /\ ShownInv) /\ [(PlanNext /\ UNCHANGED compileVars) \/ CompileNext]_vars
        => (Handed /\ ShownInv)'
  BY HandedKept, ShownKept
<1>3. ShownInv => ShownInOrder
  BY InvariantShows
<1> QED BY <1>1, <1>2, <1>3, AlwaysIInv, AlwaysDraftInv, PTL DEF Spec
=============================================================================
