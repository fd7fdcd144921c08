-------------------------- MODULE ComfyNodesProofs --------------------------
(***************************************************************************)
(* Proofs about ComfyNodes for every number of servers and every plan that *)
(* compiles: a shot's video is paid for once, a manifest is complete       *)
(* exactly if its workflow can complete it, and what it lists was made     *)
(* from what it lists.                                                     *)
(***************************************************************************)
EXTENDS ComfyNodes, FiniteSetTheorems, TLAPS

ShotIds == {s.id : s \in Shots}
Videos == {VideoOf(s.id) : s \in Shots}

LEMMA PlanFacts ==
  ASSUME NEW p \in Plans
  PROVE  IdsUnique(p) /\ DependenciesKnown(p)
<1>1. Problem(p) = "none"
  BY PlansAssumption
<1> QED BY <1>1 DEF Problem

\* A video has the name of one shot.
LEMMA ShotOfVideo ==
  ASSUME plan \in Plans, NEW s \in Shots
  PROVE  ShotOf(VideoOf(s.id)) = s
<1>1. \A t \in Shots : VideoOf(t.id) = VideoOf(s.id) => t = s
  <2>1. IsInjective([i \in DOMAIN plan.shots |-> plan.shots[i].id])
    BY PlanFacts DEF IdsUnique
  <2> QED BY <2>1 DEF IsInjective, Shots, ToSet, VideoOf
<1> QED BY <1>1 DEF ShotOf

-----------------------------------------------------------------------------
(* Paid videos                                                               *)

\* Where a server is busy with a shot's video, and where it holds the lock of the state file.
AtVideo == {"checked", "new", "open"}
HoldsTask == {"new", "open"}

\* The holder of the lock knows that there is no task when it creates one.
PaidInv ==
  /\ plan \in Plans
  /\ at = [w \in Servers |-> at[w]]
  /\ tasks = [s \in ShotIds |-> tasks[s]] /\ creations \in [ShotIds -> Nat]
  /\ \A w \in Servers : at[w].step \in AtVideo => \E s \in Shots : at[w].on = VideoOf(s.id)
  /\ \A v, w \in Servers :
       at[v].step \in HoldsTask /\ at[w].step \in HoldsTask /\ at[v].on = at[w].on => v = w
  /\ \A w \in Servers : at[w].step = "new" => tasks[ShotOf(at[w].on).id] = {}
  /\ \A s \in ShotIds : creations[s] <= 1 /\ (tasks[s] = {} => creations[s] = 0)

LEMMA PaidInit == Init => PaidInv
BY DEF Init, PaidInv, Idle, ShotIds, AtVideo, HoldsTask

\* A step that creates nothing and takes no server to the video of a shot.
LEMMA PaidQuiet ==
  ASSUME PaidInv, UNCHANGED <<plan, tasks, creations>>,
         \/ at' = at
         \/ \E w \in Servers : \E r : at' = [at EXCEPT ![w] = r] /\ r.step \notin AtVideo
  PROVE  PaidInv'
<1>1. CASE at' = at
  BY <1>1 DEF PaidInv, Shots, ShotIds, ShotOf
<1>2. ASSUME NEW w \in Servers, NEW r, at' = [at EXCEPT ![w] = r], r.step \notin AtVideo
      PROVE  PaidInv'
  <2>1. at'[w] = r /\ (\A v \in Servers : v # w => at'[v] = at[v]) /\ at' = [v \in Servers |-> at'[v]]
    BY <1>2 DEF PaidInv
  <2>2. \A v \in Servers : at'[v].step \in AtVideo => at'[v] = at[v]
    BY <1>2, <2>1
  <2>3. HoldsTask \subseteq AtVideo /\ "new" \in AtVideo
    BY DEF AtVideo, HoldsTask
  <2>4. Shots' = Shots /\ ShotIds' = ShotIds /\ \A x : ShotOf(x)' = ShotOf(x)
    BY DEF Shots, ShotIds, ShotOf
  <2>5. \A v \in Servers : at'[v].step \in AtVideo => \E s \in Shots : at'[v].on = VideoOf(s.id)
    BY <2>2 DEF PaidInv
  <2>6. \A v, u \in Servers :
          at'[v].step \in HoldsTask /\ at'[u].step \in HoldsTask /\ at'[v].on = at'[u].on => v = u
    BY <2>2, <2>3 DEF PaidInv
  <2>7. ASSUME NEW v \in Servers, at'[v].step = "new"
        PROVE  (tasks[ShotOf(at[v].on).id] = {})'
    <3>1. at'[v] = at[v] /\ at[v].step = "new"
      BY <2>2, <2>3, <2>7
    <3>2. ShotOf(at[v].on)' = ShotOf(at[v].on)
      BY <3>1 DEF ShotOf, Shots
    <3> QED BY <3>1, <3>2 DEF PaidInv
  <2> QED BY <2>1, <2>4, <2>5, <2>6, <2>7 DEF PaidInv
<1> QED BY <1>1, <1>2

LEMMA Reasonable ==
  ASSUME NEW w \in Servers, NEW step, step \notin AtVideo, NEW on, NEW read, Go(w, step, on, read)
  PROVE  \E v \in Servers : \E r : at' = [at EXCEPT ![v] = r] /\ r.step \notin AtVideo
<1> DEFINE r == [step |-> step, on |-> on, read |-> read]
<1>1. r.step = step /\ at' = [at EXCEPT ![w] = r]
  BY DEF Go
<1> HIDE DEF r
<1> QED BY <1>1

LEMMA AtIdle ==
  ASSUME NEW w \in Servers, Raise(w) \/ at' = [at EXCEPT ![w] = Idle]
  PROVE  \E v \in Servers : \E r : at' = [at EXCEPT ![v] = r] /\ r.step \notin AtVideo
<1>1. Idle.step \notin AtVideo
  BY DEF Idle, AtVideo
<1> QED BY <1>1 DEF Raise

LEMMA GeneratePaid ==
  ASSUME PaidInv, NEW w \in Servers, NEW x, NEW read, Generate(w, x, read) \/ Planned(w, x)
  PROVE  PaidInv'
<1>1. UNCHANGED <<plan, tasks, creations>>
  BY DEF Generate, Planned, fileVars
<1>2. CASE Go(w, "paint", x, read)
  <2>1. "paint" \notin AtVideo
    BY DEF AtVideo
  <2> QED BY <1>1, <1>2, <2>1, Reasonable, PaidQuiet
<1>3. CASE at' = [at EXCEPT ![w] = Idle]
  BY <1>1, <1>3, AtIdle, PaidQuiet
<1> QED BY <1>2, <1>3 DEF Generate, Planned, Output

\* A server goes to, or on with, the video of a shot.
LEMMA PaidGo ==
  ASSUME PaidInv, UNCHANGED <<plan, tasks, creations>>, NEW w \in Servers, NEW shot \in Shots,
         NEW step \in AtVideo, NEW read, Go(w, step, VideoOf(shot.id), read),
         step \in HoldsTask =>
           \A v \in Servers : v # w => ~(at[v].step \in HoldsTask /\ at[v].on = VideoOf(shot.id)),
         step = "new" => tasks[shot.id] = {}
  PROVE  PaidInv'
<1> DEFINE r == [step |-> step, on |-> VideoOf(shot.id), read |-> read]
<1>1. at' = [at EXCEPT ![w] = r] /\ r.step = step /\ r.on = VideoOf(shot.id)
  BY DEF Go
<1> HIDE DEF r
<1>2. at'[w] = r /\ (\A v \in Servers : v # w => at'[v] = at[v]) /\ at' = [v \in Servers |-> at'[v]]
  BY <1>1 DEF PaidInv
<1>3. Shots' = Shots /\ ShotIds' = ShotIds
  BY DEF Shots, ShotIds
<1>4. \A v \in Servers : at'[v].step \in AtVideo => \E s \in Shots : at'[v].on = VideoOf(s.id)
  BY <1>1, <1>2 DEF PaidInv
<1>5. \A v, u \in Servers :
        at'[v].step \in HoldsTask /\ at'[u].step \in HoldsTask /\ at'[v].on = at'[u].on => v = u
  BY <1>1, <1>2 DEF PaidInv
<1>6. ASSUME NEW v \in Servers, at'[v].step = "new"
      PROVE  (tasks[ShotOf(at[v].on).id] = {})'
  <2>1. CASE v = w
    <3>1. ShotOf(at'[w].on) = shot
      BY <1>1, <1>2, ShotOfVideo DEF PaidInv
    <3>2. ShotOf(at[w].on)' = shot
      BY <3>1 DEF ShotOf, Shots
    <3>3. step = "new"
      BY <1>1, <1>2, <1>6, <2>1
    <3> QED BY <2>1, <3>2, <3>3
  <2>2. CASE v # w
    <3>1. at'[v] = at[v]
      BY <1>2, <2>2
    <3>2. ShotOf(at[v].on)' = ShotOf(at[v].on)
      BY <3>1 DEF ShotOf, Shots
    <3> QED BY <1>6, <3>1, <3>2 DEF PaidInv
  <2> QED BY <2>1, <2>2
<1> QED BY <1>2, <1>3, <1>4, <1>5, <1>6 DEF PaidInv

LEMMA LookPaid ==
  ASSUME PaidInv, NEW w \in Servers, Look(w)
  PROVE  PaidInv'
<1>1. at[w].step = "checked" /\ UNCHANGED <<plan, tasks, creations>>
  BY DEF Look, fileVars
<1>2. PICK s \in Shots : at[w].on = VideoOf(s.id)
  BY <1>1 DEF PaidInv, AtVideo
<1>3. ShotOf(at[w].on) = s
  BY <1>2, ShotOfVideo DEF PaidInv
<1> DEFINE read == [r \in PackOf(s) |-> disk[r]]
<1>4. \A v \in Servers : ~(at[v].step \in HoldsTask /\ at[v].on = VideoOf(s.id))
  BY <1>2 DEF Look, Locked, HoldsTask
<1>5. CASE tasks[s.id] = {} /\ Go(w, "new", VideoOf(s.id), read)
  <2>1. "new" \in AtVideo
    BY DEF AtVideo
  <2> HIDE DEF read
  <2> QED BY <1>1, <1>4, <1>5, <2>1, PaidGo
<1>6. CASE Go(w, "open", VideoOf(s.id), read)
  <2>1. "open" \in AtVideo /\ "open" # "new"
    BY DEF AtVideo
  <2> HIDE DEF read
  <2> QED BY <1>1, <1>4, <1>6, <2>1, PaidGo
<1>7. CASE Raise(w)
  BY <1>1, <1>7, AtIdle, PaidQuiet
<1> QED BY <1>2, <1>3, <1>5, <1>6, <1>7 DEF Look

LEMMA CreatePaid ==
  ASSUME PaidInv, NEW w \in Servers, Create(w)
  PROVE  PaidInv'
<1>1. at[w].step = "new" /\ plan' = plan
  BY DEF Create
<1>2. PICK s \in Shots : at[w].on = VideoOf(s.id)
  BY <1>1 DEF PaidInv, AtVideo
<1>3. ShotOf(at[w].on) = s /\ s.id \in ShotIds
  BY <1>2, ShotOfVideo DEF PaidInv, ShotIds
<1>4. PICK sent \in BOOLEAN, known \in BOOLEAN :
        /\ tasks' = [tasks EXCEPT ![s.id] = {[refs |-> at[w].read, known |-> known]}]
        /\ creations' = [creations EXCEPT ![s.id] = @ + (IF sent THEN 1 ELSE 0)]
        /\ IF known THEN Go(w, "open", at[w].on, at[w].read) ELSE Raise(w)
  BY <1>3 DEF Create
<1>5. creations[s.id] = 0
  BY <1>1, <1>3 DEF PaidInv
<1>6. /\ tasks' = [t \in ShotIds |-> tasks'[t]] /\ tasks'[s.id] # {}
      /\ \A t \in ShotIds : t # s.id => tasks'[t] = tasks[t] /\ creations'[t] = creations[t]
      /\ creations' \in [ShotIds -> Nat] /\ creations'[s.id] <= 1
  <2> DEFINE task == {[refs |-> at[w].read, known |-> known]}
             n == IF sent THEN 1 ELSE 0
  <2>1. tasks' = [tasks EXCEPT ![s.id] = task] /\ task # {}
    BY <1>4
  <2>2. creations' = [creations EXCEPT ![s.id] = creations[s.id] + n] /\ n \in {0, 1}
    BY <1>4
  <2>3. tasks = [t \in ShotIds |-> tasks[t]] /\ creations \in [ShotIds -> Nat]
    BY DEF PaidInv
  <2> HIDE DEF task, n
  <2>4. /\ tasks' = [t \in ShotIds |-> tasks'[t]] /\ tasks'[s.id] # {}
        /\ \A t \in ShotIds : t # s.id => tasks'[t] = tasks[t]
    BY <1>3, <2>1, <2>3
  <2>5. /\ creations' \in [ShotIds -> Nat] /\ creations'[s.id] <= 1
        /\ \A t \in ShotIds : t # s.id => creations'[t] = creations[t]
    BY <1>3, <1>5, <2>2, <2>3
  <2> QED BY <2>4, <2>5
<1>7. PICK r : /\ at' = [at EXCEPT ![w] = r] /\ r.step # "new"
               /\ r.step \in AtVideo => r.step = "open" /\ r.on = VideoOf(s.id)
  <2>1. CASE known
    <3> DEFINE r == [step |-> "open", on |-> at[w].on, read |-> at[w].read]
    <3>1. at' = [at EXCEPT ![w] = r] /\ r.step = "open" /\ r.on = VideoOf(s.id)
      BY <1>2, <1>4, <2>1 DEF Go
    <3> HIDE DEF r
    <3> QED BY <3>1
  <2>2. CASE ~known
    <3>1. at' = [at EXCEPT ![w] = Idle] /\ Idle.step = "idle"
      BY <1>4, <2>2 DEF Raise, Idle
    <3> QED BY <3>1 DEF AtVideo
  <2> QED BY <2>1, <2>2
<1>8. at'[w] = r /\ (\A v \in Servers : v # w => at'[v] = at[v]) /\ at' = [v \in Servers |-> at'[v]]
  BY <1>7 DEF PaidInv
<1>9. Shots' = Shots /\ ShotIds' = ShotIds
  BY <1>1 DEF Shots, ShotIds
<1>10. HoldsTask \subseteq AtVideo /\ "new" \in HoldsTask
  BY DEF HoldsTask, AtVideo
<1>11. \A v \in Servers : at'[v].step \in AtVideo => \E t \in Shots : at'[v].on = VideoOf(t.id)
  BY <1>7, <1>8 DEF PaidInv
<1>12. \A v \in Servers : v # w => ~(at[v].step \in HoldsTask /\ at[v].on = VideoOf(s.id))
  BY <1>1, <1>2, <1>10 DEF PaidInv
<1>13. \A v, u \in Servers :
         at'[v].step \in HoldsTask /\ at'[u].step \in HoldsTask /\ at'[v].on = at'[u].on => v = u
  BY <1>7, <1>8, <1>10, <1>12 DEF PaidInv
<1>14. ASSUME NEW v \in Servers, at'[v].step = "new"
       PROVE  (tasks[ShotOf(at[v].on).id] = {})'
  <2>1. v # w /\ at'[v] = at[v]
    BY <1>7, <1>8, <1>14
  <2>2. PICK t \in Shots : at[v].on = VideoOf(t.id)
    BY <1>10, <1>14, <2>1 DEF PaidInv
  <2>3. ShotOf(at[v].on) = t /\ ShotOf(at[v].on)' = t
    BY <1>1, <2>1, <2>2, ShotOfVideo DEF PaidInv, ShotOf, Shots
  <2>4. t.id \in ShotIds /\ t.id # s.id
    BY <1>10, <1>12, <1>14, <2>1, <2>2 DEF ShotIds
  <2>5. tasks[t.id] = {}
    BY <1>14, <2>1, <2>3 DEF PaidInv
  <2> QED BY <1>6, <2>3, <2>4, <2>5
<1>15. \A t \in ShotIds : creations'[t] <= 1 /\ (tasks'[t] = {} => creations'[t] = 0)
  BY <1>6 DEF PaidInv
<1> QED BY <1>1, <1>6, <1>8, <1>9, <1>11, <1>13, <1>14, <1>15 DEF PaidInv

LEMMA StepPaid ==
  ASSUME PaidInv, NEW w \in Servers, Step(w)
  PROVE  PaidInv'
<1>1. ASSUME NEW x \in SharedIds, SharedNode(w, x) PROVE PaidInv'
  BY <1>1, GeneratePaid DEF SharedNode
<1>2. ASSUME NEW shot \in Shots, KeyframeNode(w, shot) PROVE PaidInv'
  <2> DEFINE read == [r \in shot.deps |-> cache[w].images[r]]
  <2>1. Planned(w, shot.asset) \/ Generate(w, shot.asset, read)
    BY <1>2 DEF KeyframeNode
  <2> HIDE DEF read
  <2> QED BY <2>1, GeneratePaid
<1>3. ASSUME NEW shot \in Shots, VideoNode(w, shot) PROVE PaidInv'
  <2>1. UNCHANGED <<plan, tasks, creations>> /\ Go(w, "checked", VideoOf(shot.id), << >>)
    BY <1>3 DEF VideoNode, fileVars
  <2>2. "checked" \in AtVideo /\ "checked" \notin HoldsTask /\ "checked" # "new"
    BY DEF AtVideo, HoldsTask
  <2> QED BY <2>1, <2>2, PaidGo
<1>4. CASE Paint(w)
  <2>1. UNCHANGED <<plan, tasks, creations>> /\ (Raise(w) \/ Go(w, "painted", at[w].on, at[w].read))
    BY <1>4 DEF Paint
  <2>2. "painted" \notin AtVideo
    BY DEF AtVideo
  <2> QED BY <2>1, <2>2, AtIdle, Reasonable, PaidQuiet
<1>5. CASE Receive(w)
  <2>1. UNCHANGED <<plan, tasks, creations>> /\ at' = [at EXCEPT ![w] = Idle]
    BY <1>5 DEF Receive, Output
  <2> QED BY <2>1, AtIdle, PaidQuiet
<1>6. CASE Poll(w)
  <2>1. UNCHANGED <<plan, tasks, creations>> /\ Raise(w)
    BY <1>6 DEF Poll
  <2> QED BY <2>1, AtIdle, PaidQuiet
<1>7. CASE StoryNode(w)
  BY <1>7, PaidQuiet DEF StoryNode, fileVars
<1>8. CASE ReadReceipts(w)
  <2>1. UNCHANGED <<plan, tasks, creations>> /\ \E read : Go(w, "listed", << >>, read)
    BY <1>8 DEF ReadReceipts, fileVars
  <2>2. "listed" \notin AtVideo
    BY DEF AtVideo
  <2> QED BY <2>1, <2>2, Reasonable, PaidQuiet
<1>9. CASE WriteManifest(w)
  <2>1. UNCHANGED <<plan, tasks, creations>> /\ Raise(w)
    BY <1>9 DEF WriteManifest
  <2> QED BY <2>1, AtIdle, PaidQuiet
<1>10. CASE Crash(w)
  <2>1. UNCHANGED <<plan, tasks, creations>> /\ at' = [at EXCEPT ![w] = Idle]
    BY <1>10 DEF Crash, fileVars
  <2> QED BY <2>1, AtIdle, PaidQuiet
<1> QED BY <1>1, <1>2, <1>3, <1>4, <1>5, <1>6, <1>7, <1>8, <1>9, <1>10, LookPaid, CreatePaid DEF Step

\* However servers, prompts and crashes interleave, no second creation is asked for.
THEOREM VideosArePaidOnce == Spec => []PaidOnce
<1>1. PaidInv /\ [Next]_vars => PaidInv'
  <2>1. ASSUME PaidInv, NEW x \in DOMAIN disk, Damage(x) PROVE PaidInv'
    BY <2>1, PaidQuiet DEF Damage
  <2>2. ASSUME PaidInv, UNCHANGED vars PROVE PaidInv'
    BY <2>2, PaidQuiet DEF vars, fileVars
  <2> QED BY <2>1, <2>2, StepPaid DEF Next
<1>2. PaidInv => PaidOnce
  BY DEF PaidInv, PaidOnce
<1> QED BY <1>1, <1>2, PaidInit, PTL DEF Spec

-----------------------------------------------------------------------------
(* Complete manifests                                                        *)

LEMMA InjectiveCount ==
  ASSUME NEW n \in Nat, NEW f, DOMAIN f = 1..n, f = [i \in 1..n |-> f[i]], IsInjective(f)
  PROVE  IsFiniteSet(ToSet(f)) /\ Cardinality(ToSet(f)) = n
<1>1. f \in Bijection(1..n, ToSet(f))
  BY DEF Bijection, Injection, Surjection, ToSet
<1>2. ExistsBijection(1..n, ToSet(f))
  BY <1>1 DEF ExistsBijection
<1>3. IsFiniteSet(1..n) /\ Cardinality(1..n) = n
  BY FS_Interval
<1> QED BY <1>2, <1>3, FS_Bijection

\* The items of a plan are its shared images, and its shots after them.
LEMMA ItemsJoin ==
  ASSUME plan \in Plans
  PROVE  LET m == Len(plan.shared)
             n == Len(plan.shots)
             items == Items(plan)
         IN  /\ m \in Nat /\ n \in Nat /\ DOMAIN items = 1..(m + n) /\ DOMAIN plan.shots = 1..n
             /\ DOMAIN plan.shared = 1..m
             /\ \A i \in 1..m : i \in 1..(m + n) /\ items[i] = plan.shared[i]
             /\ \A i \in 1..(m + n) : i > m => i - m \in 1..n /\ items[i] = plan.shots[i - m]
             /\ \A i \in 1..n : m + i \in 1..(m + n) /\ items[m + i] = plan.shots[i]
<1> DEFINE s == plan.shared
           t == plan.shots
           T == ToSet(plan.shared) \cup ToSet(plan.shots)
           m == Len(plan.shared)
           n == Len(plan.shots)
           items == Items(plan)
<1>1. s \in Seq(T) /\ t \in Seq(T) /\ items = s \o t /\ m = Len(s) /\ n = Len(t)
  BY PlansAssumption DEF Items
<1> HIDE DEF T, s, t, m, n, items
<1>2. m \in Nat /\ n \in Nat /\ DOMAIN s = 1..m /\ DOMAIN t = 1..n /\ DOMAIN items = 1..(m + n)
  BY ONLY <1>1
<1>3. (\A i \in 1..m : items[i] = s[i]) /\ \A i \in 1..(m + n) : i > m => items[i] = t[i - m]
  BY ONLY <1>1
<1>4. (\A i \in 1..m : i \in 1..(m + n)) /\ \A i \in 1..(m + n) : i > m => i - m \in 1..n
  BY ONLY <1>2
<1>5. ASSUME NEW i \in 1..n PROVE m + i \in 1..(m + n) /\ items[m + i] = t[i]
  <2>1. m + i \in 1..(m + n) /\ m + i > m /\ (m + i) - m = i
    BY ONLY <1>2, i \in 1..n
  <2> QED BY <1>3, <2>1
<1> QED BY <1>2, <1>3, <1>4, <1>5 DEF s, t, m, n, items

\* An image belongs to one shared image or to one shot.
LEMMA AssetsDistinct ==
  ASSUME plan \in Plans
  PROVE  /\ \A s, t \in Shots : s.asset = t.asset => s = t
         /\ \A s \in Shots : s.asset \notin SharedIds
<1> DEFINE m == Len(plan.shared)
           n == Len(plan.shots)
           items == Items(plan)
<1>1. /\ m \in Nat /\ DOMAIN items = 1..(m + n) /\ DOMAIN plan.shots = 1..n
      /\ DOMAIN plan.shared = 1..m
      /\ \A i \in 1..m : i \in 1..(m + n) /\ items[i] = plan.shared[i]
      /\ \A i \in 1..n : m + i \in 1..(m + n) /\ items[m + i] = plan.shots[i]
  BY ItemsJoin
<1>2. \A i, j \in 1..(m + n) : items[i].asset = items[j].asset => i = j
  BY <1>1, PlanFacts DEF IdsUnique, IsInjective
<1> HIDE DEF m, n, items
<1>3. ASSUME NEW s \in Shots, NEW t \in Shots, s.asset = t.asset PROVE s = t
  <2>1. PICK i \in 1..n, j \in 1..n : s = plan.shots[i] /\ t = plan.shots[j]
    BY <1>1 DEF Shots, ToSet
  <2>2. m + i = m + j
    BY <1>1, <1>2, <1>3, <2>1
  <2> QED BY <1>1, <2>1, <2>2
<1>4. ASSUME NEW s \in Shots, NEW a \in ToSet(plan.shared), s.asset = a.asset PROVE FALSE
  <2>1. PICK i \in 1..n, j \in 1..m : s = plan.shots[i] /\ a = plan.shared[j]
    BY <1>1 DEF Shots, ToSet
  <2>2. m + i = j
    BY <1>1, <1>2, <1>4, <2>1
  <2> QED BY <1>1, <2>2
<1> QED BY <1>3, <1>4 DEF SharedIds

\* The images of a plan, the ones a shot rests on among them, and its videos are distinct.
LEMMA PlanSets ==
  ASSUME plan \in Plans
  PROVE  /\ Used \subseteq AssetIds(plan)
         /\ AssetIds(plan) \cap ({StoryVideo} \cup Videos) = {}
         /\ AssetIds(plan) = SharedIds \cup {s.asset : s \in Shots}
         /\ AssetIds(plan) \subseteq SharedIds \cup Used /\ SharedIds \subseteq AssetIds(plan)
         /\ IsFiniteSet(AssetIds(plan)) /\ Cardinality(AssetIds(plan)) = Len(plan.shared) + Len(plan.shots)
         /\ IsFiniteSet(Videos) /\ Cardinality(Videos) = Len(plan.shots)
<1>1. IdsUnique(plan) /\ DependenciesKnown(plan)
  BY PlanFacts
<1> DEFINE m == Len(plan.shared)
           n == Len(plan.shots)
           items == Items(plan)
<1>3. /\ m \in Nat /\ n \in Nat /\ DOMAIN items = 1..(m + n) /\ DOMAIN plan.shots = 1..n
      /\ DOMAIN plan.shared = 1..m
      /\ \A i \in 1..m : items[i] = plan.shared[i]
      /\ \A i \in 1..(m + n) : i > m => i - m \in 1..n /\ items[i] = plan.shots[i - m]
      /\ \A i \in 1..n : m + i \in 1..(m + n) /\ items[m + i] = plan.shots[i]
  BY ItemsJoin
<1> HIDE DEF m, n, items
<1>5. ToSet(items) = ToSet(plan.shared) \cup Shots
  <2>1. ASSUME NEW i \in 1..(m + n) PROVE items[i] \in ToSet(plan.shared) \cup Shots
    <3>1. CASE i <= m
      BY <1>3, <3>1 DEF ToSet
    <3>2. CASE i > m
      <4>1. i - m \in 1..n
        BY <1>3, <3>2
      <4> QED BY <1>3, <3>2, <4>1 DEF ToSet, Shots
    <3> QED BY <1>3, <3>1, <3>2
  <2>2. ASSUME NEW i \in 1..m PROVE plan.shared[i] \in ToSet(items)
    <3>1. i \in 1..(m + n)
      BY <1>3
    <3> QED BY <1>3, <3>1 DEF ToSet
  <2>3. ASSUME NEW i \in 1..n PROVE plan.shots[i] \in ToSet(items)
    BY <1>3 DEF ToSet
  <2>4. ASSUME NEW x \in ToSet(items) PROVE x \in ToSet(plan.shared) \cup Shots
    BY <1>3, <2>1 DEF ToSet
  <2>5. ASSUME NEW x \in ToSet(plan.shared) PROVE x \in ToSet(items)
    <3>1. PICK i \in 1..m : x = plan.shared[i]
      BY <1>3 DEF ToSet
    <3> QED BY <2>2, <3>1
  <2>6. ASSUME NEW x \in Shots PROVE x \in ToSet(items)
    <3>1. PICK i \in 1..n : x = plan.shots[i]
      BY <1>3 DEF ToSet, Shots
    <3> QED BY <2>3, <3>1
  <2> QED BY <2>4, <2>5, <2>6
<1>6. AssetIds(plan) = SharedIds \cup {s.asset : s \in Shots}
  BY <1>5 DEF AssetIds, SharedIds, items
<1>7. Used \subseteq AssetIds(plan)
  BY <1>1, <1>5, <1>6 DEF Used, DependenciesKnown, items
<1>8. AssetIds(plan) \cap ({StoryVideo} \cup Videos) = {}
  BY <1>1 DEF IdsUnique, Videos, Shots
<1>9. IsFiniteSet(AssetIds(plan)) /\ Cardinality(AssetIds(plan)) = m + n
  <2> DEFINE f == [i \in DOMAIN items |-> items[i].asset]
  <2>1. IsInjective(f)
    BY <1>1 DEF IdsUnique, items
  <2>2. ToSet(f) = AssetIds(plan)
    BY DEF ToSet, AssetIds, items
  <2>3. DOMAIN f = 1..(m + n) /\ f = [i \in 1..(m + n) |-> f[i]] /\ m + n \in Nat
    BY <1>3
  <2> HIDE DEF f
  <2> QED BY <2>1, <2>2, <2>3, InjectiveCount
<1>10. IsFiniteSet(Videos) /\ Cardinality(Videos) = n
  <2> DEFINE f == [i \in DOMAIN plan.shots |-> VideoOf(plan.shots[i].id)]
  <2>1. IsInjective(f)
    BY <1>1 DEF IdsUnique, IsInjective, VideoOf
  <2>2. ToSet(f) = Videos
    BY DEF ToSet, Videos, Shots
  <2>3. DOMAIN f = 1..n /\ f = [i \in 1..n |-> f[i]]
    BY <1>3
  <2> HIDE DEF f
  <2> QED BY <1>3, <2>1, <2>2, <2>3, InjectiveCount
<1> QED BY <1>6, <1>7, <1>8, <1>9, <1>10 DEF Used, m, n

\* When every used image and every video is listed, the counts tell whether the plan is whole.
LEMMA CountsTellWhole ==
  ASSUME plan \in Plans, NEW listed, mode # "plan_only",
         DOMAIN listed \cap AssetIds(plan) = Used, mode = "paid" => Videos \subseteq DOMAIN listed
  PROVE  Complete(listed) <=> SharedIds \subseteq Used /\ (mode = "paid" => StoryVideo \notin Videos)
<1>1. Cardinality(ImagesOf(listed)) = Len(plan.shared) + Len(plan.shots) <=> SharedIds \subseteq Used
  <2>1. ImagesOf(listed) = Used /\ Used \subseteq AssetIds(plan)
    BY PlanSets DEF ImagesOf
  <2>2. Cardinality(Used) = Cardinality(AssetIds(plan)) <=> Used = AssetIds(plan)
    BY <2>1, PlanSets, FS_Subset
  <2>3. Used = AssetIds(plan) <=> SharedIds \subseteq Used
    BY PlanSets
  <2> QED BY <2>1, <2>2, <2>3, PlanSets
<1>2. ASSUME mode = "paid"
      PROVE  Cardinality(VideosOf(listed)) = Len(plan.shots) <=> StoryVideo \notin Videos
  <2>1. VideosOf(listed) = Videos \ {StoryVideo}
    BY <1>2 DEF VideosOf, Videos
  <2>2. Cardinality(Videos \ {StoryVideo}) = Cardinality(Videos) <=> Videos \ {StoryVideo} = Videos
    BY PlanSets, FS_Subset
  <2> QED BY <2>1, <2>2, PlanSets
<1> QED BY <1>1, <1>2 DEF Complete

\* What a server has cached is on disk.
Backed(c) ==
  /\ c = [images |-> c.images, videos |-> c.videos, nodes |-> c.nodes]
  /\ mode # "plan_only" => DOMAIN c.images \subseteq DOMAIN receipts
  /\ c.videos \subseteq ShotIds /\ \A s \in c.videos : VideoOf(s) \in DOMAIN receipts
  /\ "story" \in c.nodes => ShotIds \subseteq c.videos

\* A server makes images that its workflow uses, and lists every image and video of it.
Fit(r) ==
  /\ r.step \in {"paint", "painted"} => r.on \in Used
  /\ r.step = "listed" /\ mode # "plan_only" =>
       /\ DOMAIN r.read \cap AssetIds(plan) = Used
       /\ mode = "paid" => Videos \subseteq DOMAIN r.read

CompleteInv ==
  /\ cache = [w \in Servers |-> cache[w]]
  /\ DOMAIN receipts \subseteq Used \cup Videos
  /\ \A w \in Servers : Backed(cache[w]) /\ Fit(at[w])
  /\ CompleteExactly

LEMMA CompleteInit == Init => CompleteInv
<1> SUFFICES ASSUME Init PROVE CompleteInv
  OBVIOUS
<1>1. cache = [w \in Servers |-> EmptyCache] /\ at = [w \in Servers |-> Idle] /\ DOMAIN receipts = {}
  BY DEF Init
<1>2. Backed(EmptyCache)
  BY DEF Backed, EmptyCache
<1>3. Fit(Idle)
  BY DEF Fit, Idle
<1>4. CompleteExactly
  BY DEF Init, CompleteExactly
<1> QED BY <1>1, <1>2, <1>3, <1>4 DEF CompleteInv

LEMMA FitStays ==
  ASSUME UNCHANGED <<plan, mode>>, NEW r, Fit(r)
  PROVE  Fit(r)'
BY DEF Fit, Used, Videos, Shots

LEMMA BackedStays ==
  ASSUME UNCHANGED <<plan, mode>>, DOMAIN receipts \subseteq DOMAIN receipts', NEW c, Backed(c)
  PROVE  Backed(c)'
<1>1. ShotIds' = ShotIds
  BY DEF ShotIds, Shots
<1> QED BY <1>1 DEF Backed

\* A step of one server that removes no receipt.
LEMMA CompleteStep ==
  ASSUME PaidInv, CompleteInv, UNCHANGED <<plan, mode>>,
         DOMAIN receipts \subseteq DOMAIN receipts', DOMAIN receipts' \subseteq Used \cup Videos,
         at' = at \/ \E w \in Servers : \E r : at' = [at EXCEPT ![w] = r] /\ Fit(r),
         cache' = cache \/ \E w \in Servers : \E c : cache' = [cache EXCEPT ![w] = c] /\ Backed(c)',
         manifest' = manifest \/ CompleteExactly'
  PROVE  CompleteInv'
<1>1. Shots' = Shots /\ Used' = Used /\ Videos' = Videos /\ SharedIds' = SharedIds
  BY DEF Shots, Used, Videos, SharedIds
<1>2. ASSUME NEW v \in Servers PROVE Fit(at[v])'
  <2>1. PICK r : r = at'[v] /\ Fit(r)
    <3>1. CASE at' = at
      BY <3>1 DEF CompleteInv
    <3>2. ASSUME NEW w \in Servers, NEW r, at' = [at EXCEPT ![w] = r] /\ Fit(r)
          PROVE  \E q : q = at'[v] /\ Fit(q)
      BY <3>2 DEF CompleteInv, PaidInv
    <3> QED BY <3>1, <3>2
  <2>2. Fit(r)'
    BY <2>1, FitStays
  <2> QED BY <2>1, <2>2 DEF Fit
<1>3. ASSUME NEW v \in Servers PROVE Backed(cache[v])'
  <2>1. PICK c : c = cache'[v] /\ Backed(c)'
    <3>1. ASSUME cache'[v] = cache[v] PROVE \E c : c = cache'[v] /\ Backed(c)'
      <4>1. PICK c : c = cache[v] /\ Backed(c)
        BY DEF CompleteInv
      <4> QED BY <3>1, <4>1, BackedStays
    <3>2. ASSUME NEW w \in Servers, NEW c, cache' = [cache EXCEPT ![w] = c] /\ Backed(c)'
          PROVE  cache'[v] = cache[v] \/ \E d : d = cache'[v] /\ Backed(d)'
      BY <3>2 DEF CompleteInv
    <3> QED BY <3>1, <3>2
  <2> QED BY <2>1 DEF Backed
<1>4. cache' = [v \in Servers |-> cache'[v]]
  BY DEF CompleteInv
<1>5. CompleteExactly'
  BY <1>1 DEF CompleteInv, CompleteExactly
<1> QED BY <1>1, <1>2, <1>3, <1>4, <1>5 DEF CompleteInv

LEMMA FitOthers ==
  ASSUME NEW w \in Servers, NEW step, NEW on, NEW read, Go(w, step, on, read),
         step # "listed", step \in {"paint", "painted"} => on \in Used
  PROVE  \E v \in Servers : \E r : at' = [at EXCEPT ![v] = r] /\ Fit(r)
<1> DEFINE r == [step |-> step, on |-> on, read |-> read]
<1>1. r.step = step /\ r.on = on /\ at' = [at EXCEPT ![w] = r]
  BY DEF Go
<1> HIDE DEF r
<1> QED BY <1>1 DEF Fit

LEMMA FitIdle ==
  ASSUME NEW w \in Servers, Raise(w) \/ at' = [at EXCEPT ![w] = Idle]
  PROVE  \E v \in Servers : \E r : at' = [at EXCEPT ![v] = r] /\ Fit(r)
<1>1. Fit(Idle)
  BY DEF Idle, Fit
<1> QED BY <1>1 DEF Raise

LEMMA PutDomain ==
  ASSUME NEW f, NEW x, NEW value
  PROVE  DOMAIN Put(f, x, value) = DOMAIN f \cup {x}
BY DEF Put

\* A server caches an image that has a receipt.
LEMMA BackedOutput ==
  ASSUME PaidInv, CompleteInv, UNCHANGED <<plan, mode>>, DOMAIN receipts \subseteq DOMAIN receipts',
         NEW w \in Servers, NEW x, NEW c, Output(w, x, c), mode = "plan_only" \/ x \in DOMAIN receipts'
  PROVE  /\ \E v \in Servers : \E d : cache' = [cache EXCEPT ![v] = d] /\ Backed(d)'
         /\ \E v \in Servers : \E r : at' = [at EXCEPT ![v] = r] /\ Fit(r)
<1>1. PICK b : b = cache[w] /\ Backed(b)
  BY DEF CompleteInv
<1>2. PICK images : images = Put(b.images, x, c)
  OBVIOUS
<1>3. DOMAIN images = DOMAIN b.images \cup {x}
  BY <1>2, PutDomain
<1>4. PICK d : d = [b EXCEPT !.images = images]
  OBVIOUS
<1>5. d = [images |-> images, videos |-> b.videos, nodes |-> b.nodes]
  BY <1>1, <1>4 DEF Backed
<1>6. d.images = images /\ d.videos = b.videos /\ d.nodes = b.nodes
  BY <1>5
<1>7. cache' = [cache EXCEPT ![w] = d] /\ at' = [at EXCEPT ![w] = Idle]
  BY <1>1, <1>2, <1>4 DEF Output
<1>8. Backed(b)'
  BY <1>1, BackedStays
<1>9. Backed(d)'
  BY <1>3, <1>5, <1>6, <1>8 DEF Backed
<1> QED BY <1>7, <1>9, FitIdle

LEMMA GenerateComplete ==
  ASSUME PaidInv, CompleteInv, NEW w \in Servers, NEW x \in Used, NEW read,
         Planned(w, x) \/ (mode # "plan_only" /\ Generate(w, x, read))
  PROVE  CompleteInv'
<1>1. UNCHANGED <<plan, mode, receipts, manifest>>
  BY DEF Generate, Planned, fileVars
<1>2. DOMAIN receipts \subseteq DOMAIN receipts' /\ DOMAIN receipts' \subseteq Used \cup Videos
  BY <1>1 DEF CompleteInv
<1>3. CASE Go(w, "paint", x, read) /\ UNCHANGED cache
  <2>1. "paint" # "listed"
    OBVIOUS
  <2> QED BY <1>1, <1>2, <1>3, <2>1, FitOthers, CompleteStep
<1>4. ASSUME NEW c, Output(w, x, c), mode = "plan_only" \/ x \in DOMAIN receipts'
      PROVE  CompleteInv'
  BY <1>1, <1>2, <1>4, BackedOutput, CompleteStep
<1> QED BY <1>1, <1>3, <1>4 DEF Generate, Planned, Valid

\* A step that changes no receipt, cache or manifest.
LEMMA CompleteQuiet ==
  ASSUME PaidInv, CompleteInv, UNCHANGED <<plan, mode, receipts, cache, manifest>>,
         at' = at \/ \E w \in Servers : \E r : at' = [at EXCEPT ![w] = r] /\ Fit(r)
  PROVE  CompleteInv'
<1>1. DOMAIN receipts \subseteq DOMAIN receipts' /\ DOMAIN receipts' \subseteq Used \cup Videos
  BY DEF CompleteInv
<1> QED BY <1>1, CompleteStep

LEMMA ReceiveComplete ==
  ASSUME PaidInv, CompleteInv, NEW w \in Servers, Receive(w)
  PROVE  CompleteInv'
<1>1. PICK x : x = at[w].on /\ x \in Used
  BY DEF Receive, CompleteInv, Fit
<1>2. \E c : Output(w, x, c)
  BY <1>1 DEF Receive
<1>3. UNCHANGED <<plan, mode, manifest>> /\ DOMAIN receipts' = DOMAIN receipts \cup {x}
  BY <1>1, PutDomain DEF Receive
<1>4. DOMAIN receipts' \subseteq Used \cup Videos
  BY <1>1, <1>3 DEF CompleteInv
<1> QED BY <1>2, <1>3, <1>4, BackedOutput, CompleteStep

LEMMA PollComplete ==
  ASSUME PaidInv, CompleteInv, NEW w \in Servers, Poll(w)
  PROVE  CompleteInv'
<1>1. UNCHANGED <<plan, mode, manifest>> /\ Raise(w) /\ at[w].step = "open"
  BY DEF Poll
<1>2. PICK s \in Shots : at[w].on = VideoOf(s.id) /\ ShotOf(at[w].on) = s
  BY <1>1, ShotOfVideo DEF PaidInv, AtVideo
<1>3. CASE UNCHANGED <<receipts, cache>>
  BY <1>1, <1>3, FitIdle, CompleteQuiet
<1>4. CASE /\ cache' = [cache EXCEPT ![w].videos = @ \cup {s.id}]
           /\ \E artifact : receipts' = Put(receipts, VideoOf(s.id), artifact)
  <2>1. DOMAIN receipts' = DOMAIN receipts \cup {VideoOf(s.id)}
    BY <1>4, PutDomain
  <2>2. s.id \in ShotIds /\ VideoOf(s.id) \in Videos
    BY DEF ShotIds, Videos
  <2>3. PICK b : b = cache[w] /\ Backed(b)
    BY DEF CompleteInv
  <2>4. PICK d : d = [b EXCEPT !.videos = @ \cup {s.id}]
    OBVIOUS
  <2>5. d = [images |-> b.images, videos |-> b.videos \cup {s.id}, nodes |-> b.nodes]
    BY <2>3, <2>4 DEF Backed
  <2>6. d.images = b.images /\ d.videos = b.videos \cup {s.id} /\ d.nodes = b.nodes
    BY <2>5
  <2>7. Backed(b)' /\ s.id \in ShotIds'
    BY <1>1, <2>1, <2>2, <2>3, BackedStays DEF ShotIds, Shots
  <2>8. Backed(d)'
    BY <2>1, <2>5, <2>6, <2>7 DEF Backed
  <2>9. cache' = [cache EXCEPT ![w] = d]
    BY <1>4, <2>3, <2>4
  <2>10. DOMAIN receipts' \subseteq Used \cup Videos
    BY <2>1, <2>2 DEF CompleteInv
  <2> QED BY <1>1, <2>1, <2>8, <2>9, <2>10, FitIdle, CompleteStep
<1> QED BY <1>2, <1>3, <1>4 DEF Poll

\* A node without media is cached.
LEMMA BackedNode ==
  ASSUME CompleteInv, UNCHANGED <<plan, mode, receipts>>, NEW w \in Servers, NEW node,
         cache' = [cache EXCEPT ![w].nodes = @ \cup {node}],
         node = "story" => ShotIds \subseteq cache[w].videos
  PROVE  \E v \in Servers : \E d : cache' = [cache EXCEPT ![v] = d] /\ Backed(d)'
<1>1. PICK b : b = cache[w] /\ Backed(b)
  BY DEF CompleteInv
<1>2. PICK d : d = [b EXCEPT !.nodes = @ \cup {node}]
  OBVIOUS
<1>3. d = [images |-> b.images, videos |-> b.videos, nodes |-> b.nodes \cup {node}]
  BY <1>1, <1>2 DEF Backed
<1>4. d.images = b.images /\ d.videos = b.videos /\ d.nodes = b.nodes \cup {node}
  BY <1>3
<1>5. Backed(d)
  BY <1>1, <1>3, <1>4 DEF Backed
<1>6. Backed(d)'
  BY <1>5, BackedStays
<1>7. cache' = [cache EXCEPT ![w] = d]
  BY <1>1, <1>2
<1> QED BY <1>6, <1>7

LEMMA StoryComplete ==
  ASSUME PaidInv, CompleteInv, NEW w \in Servers, StoryNode(w)
  PROVE  CompleteInv'
<1>1. UNCHANGED <<plan, mode, receipts, manifest, at>> /\ cache[w].videos = ShotIds
  BY DEF StoryNode, fileVars, PaidInv
<1>2. cache' = [cache EXCEPT ![w].nodes = @ \cup {"story"}]
  BY DEF StoryNode
<1>3. DOMAIN receipts \subseteq DOMAIN receipts' /\ DOMAIN receipts' \subseteq Used \cup Videos
  BY <1>1 DEF CompleteInv
<1> QED BY <1>1, <1>2, <1>3, BackedNode, CompleteStep

LEMMA ReadComplete ==
  ASSUME PaidInv, CompleteInv, NEW w \in Servers, ReadReceipts(w)
  PROVE  CompleteInv'
<1>1. UNCHANGED <<plan, mode, receipts, cache, manifest>> /\ Upstream(w)
  BY DEF ReadReceipts, fileVars
<1>2. PICK read : /\ Go(w, "listed", << >>, read)
                  /\ DOMAIN receipts \subseteq DOMAIN read
                  /\ DOMAIN read \subseteq DOMAIN receipts \cup {StoryVideo}
  <2>1. CASE mode = "paid"
    <3>1. \E artifact : Go(w, "listed", << >>, Put(receipts, StoryVideo, artifact))
      BY <2>1 DEF ReadReceipts
    <3> QED BY <3>1, PutDomain
  <2>2. CASE mode # "paid"
    BY <2>2 DEF ReadReceipts
  <2> QED BY <2>1, <2>2
<1> DEFINE r == [step |-> "listed", on |-> << >>, read |-> read]
<1>3. at' = [at EXCEPT ![w] = r] /\ r.step = "listed" /\ r.read = read
  BY <1>2 DEF Go
<1> HIDE DEF r
<1>4. PICK b : b = cache[w] /\ Backed(b)
  BY DEF CompleteInv
<1>5. ASSUME mode # "plan_only"
      PROVE  DOMAIN read \cap AssetIds(plan) = Used /\ (mode = "paid" => Videos \subseteq DOMAIN read)
  <2>1. Used \subseteq DOMAIN receipts
    BY <1>1, <1>4, <1>5 DEF Backed, Upstream
  <2>2. DOMAIN read \cap AssetIds(plan) = Used
    BY <1>2, <2>1, PlanSets DEF CompleteInv, PaidInv
  <2>3. ASSUME mode = "paid" PROVE Videos \subseteq DOMAIN read
    <3>1. ShotIds \subseteq b.videos
      BY <1>1, <1>4, <2>3 DEF Backed, Upstream
    <3>2. \A s \in Shots : VideoOf(s.id) \in DOMAIN receipts
      BY <1>4, <3>1 DEF Backed, ShotIds
    <3> QED BY <1>2, <3>2 DEF Videos
  <2> QED BY <2>2, <2>3
<1>6. Fit(r)
  BY <1>3, <1>5 DEF Fit
<1> QED BY <1>1, <1>3, <1>6, CompleteQuiet

LEMMA WriteComplete ==
  ASSUME PaidInv, CompleteInv, NEW w \in Servers, WriteManifest(w)
  PROVE  CompleteInv'
<1>1. /\ UNCHANGED <<plan, mode, receipts>> /\ Raise(w) /\ at[w].step = "listed"
      /\ cache' = [cache EXCEPT ![w].nodes = @ \cup {"manifest"}]
  BY DEF WriteManifest
<1>2. PICK read : read = at[w].read
  OBVIOUS
<1>3. manifest' = {[complete |-> Complete(read), listed |-> read]}
  BY <1>2 DEF WriteManifest
<1>4. Complete(read) <=> \/ mode = "plan_only"
                         \/ SharedIds \subseteq Used /\ (mode = "paid" => StoryVideo \notin Videos)
  <2>1. CASE mode = "plan_only"
    BY <2>1 DEF Complete
  <2>2. CASE mode # "plan_only"
    <3>1. Fit(at[w]) /\ plan \in Plans
      BY DEF CompleteInv, PaidInv
    <3>2. DOMAIN read \cap AssetIds(plan) = Used /\ (mode = "paid" => Videos \subseteq DOMAIN read)
      BY <1>1, <1>2, <2>2, <3>1 DEF Fit
    <3> QED BY <2>2, <3>1, <3>2, CountsTellWhole
  <2> QED BY <2>1, <2>2
<1>5. Used' = Used /\ Shots' = Shots /\ SharedIds' = SharedIds
  BY <1>1 DEF Used, Shots, SharedIds
<1>6. \A m \in manifest' : m.complete = Complete(read)
  BY <1>3
<1>7. CompleteExactly'
  BY <1>1, <1>4, <1>5, <1>6 DEF CompleteExactly, Videos
<1>8. DOMAIN receipts \subseteq DOMAIN receipts' /\ DOMAIN receipts' \subseteq Used \cup Videos
  BY <1>1 DEF CompleteInv
<1>9. "manifest" # "story"
  OBVIOUS
<1> QED BY <1>1, <1>7, <1>8, <1>9, BackedNode, FitIdle, CompleteStep

LEMMA CrashComplete ==
  ASSUME PaidInv, CompleteInv, NEW w \in Servers, Crash(w)
  PROVE  CompleteInv'
<1>1. /\ UNCHANGED <<plan, mode, receipts, manifest>>
      /\ at' = [at EXCEPT ![w] = Idle] /\ cache' = [cache EXCEPT ![w] = EmptyCache]
  BY DEF Crash, fileVars
<1>2. PICK c : c = EmptyCache
  OBVIOUS
<1>3. /\ c.images = << >> /\ c.videos = {} /\ c.nodes = {}
      /\ c = [images |-> c.images, videos |-> c.videos, nodes |-> c.nodes]
  BY <1>2 DEF EmptyCache
<1>4. Backed(c)'
  BY <1>3 DEF Backed
<1>5. DOMAIN receipts \subseteq DOMAIN receipts' /\ DOMAIN receipts' \subseteq Used \cup Videos
  BY <1>1 DEF CompleteInv
<1> QED BY <1>1, <1>2, <1>4, <1>5, FitIdle, CompleteStep

LEMMA StepComplete ==
  ASSUME PaidInv, CompleteInv, NEW w \in Servers, Step(w)
  PROVE  CompleteInv'
<1>1. ASSUME NEW x \in SharedIds, SharedNode(w, x) PROVE CompleteInv'
  BY <1>1, GenerateComplete DEF SharedNode, Wanted
<1>2. ASSUME NEW shot \in Shots, KeyframeNode(w, shot) PROVE CompleteInv'
  <2>1. shot.asset \in Used
    BY DEF Used
  <2>2. \E read : Planned(w, shot.asset) \/ (mode # "plan_only" /\ Generate(w, shot.asset, read))
    BY <1>2 DEF KeyframeNode
  <2> QED BY <2>1, <2>2, GenerateComplete
<1>3. ASSUME NEW shot \in Shots, VideoNode(w, shot) PROVE CompleteInv'
  <2>1. UNCHANGED <<plan, mode, receipts, cache, manifest>> /\ Go(w, "checked", VideoOf(shot.id), << >>)
    BY <1>3 DEF VideoNode, fileVars
  <2> QED BY <2>1, FitOthers, CompleteQuiet
<1>4. CASE Paint(w)
  <2>1. UNCHANGED <<plan, mode, receipts, cache, manifest>> /\ (Raise(w) \/ Go(w, "painted", at[w].on, at[w].read))
    BY <1>4 DEF Paint
  <2>2. at[w].on \in Used
    BY <1>4 DEF Paint, CompleteInv, Fit
  <2> QED BY <2>1, <2>2, FitIdle, FitOthers, CompleteQuiet
<1>5. CASE Look(w)
  <2>1. UNCHANGED <<plan, mode, receipts, cache, manifest>>
    BY <1>5 DEF Look, fileVars
  <2>2. Raise(w) \/ \E read : Go(w, "new", at[w].on, read) \/ Go(w, "open", at[w].on, read)
    BY <1>5 DEF Look
  <2> QED BY <2>1, <2>2, FitIdle, FitOthers, CompleteQuiet
<1>6. CASE Create(w)
  <2>1. UNCHANGED <<plan, mode, receipts, cache, manifest>>
    BY <1>6 DEF Create
  <2>2. Raise(w) \/ Go(w, "open", at[w].on, at[w].read)
    BY <1>6 DEF Create
  <2> QED BY <2>1, <2>2, FitIdle, FitOthers, CompleteQuiet
<1> QED BY <1>1, <1>2, <1>3, <1>4, <1>5, <1>6, ReceiveComplete, PollComplete, StoryComplete,
           ReadComplete, WriteComplete, CrashComplete DEF Step

LEMMA InvariantsStep ==
  ASSUME PaidInv, CompleteInv, [Next]_vars
  PROVE  PaidInv' /\ CompleteInv'
<1>1. ASSUME NEW x \in DOMAIN disk, Damage(x) PROVE PaidInv' /\ CompleteInv'
  BY <1>1, PaidQuiet, CompleteQuiet DEF Damage
<1>2. ASSUME UNCHANGED vars PROVE PaidInv' /\ CompleteInv'
  BY <1>2, PaidQuiet, CompleteQuiet DEF vars, fileVars
<1> QED BY <1>1, <1>2, StepPaid, StepComplete DEF Next

\* A manifest says complete exactly if its workflow can complete the plan.
THEOREM ManifestsTellCompleteness == Spec => []CompleteExactly
<1>1. PaidInv /\ CompleteInv /\ [Next]_vars => PaidInv' /\ CompleteInv'
  BY InvariantsStep
<1>2. CompleteInv => CompleteExactly
  BY DEF CompleteInv
<1> QED BY <1>1, <1>2, PaidInit, CompleteInit, PTL DEF Spec

-----------------------------------------------------------------------------
(* What a manifest lists                                                     *)

Painting == {"paint", "painted"}

\* Every artifact of a list was made from what the list says of its references.
Closed(listed) ==
  \A a \in DOMAIN listed : \A r \in DOMAIN listed[a].refs :
    r \in DOMAIN listed /\ listed[a].refs[r] = listed[r].sha

BaseAt(w) ==
  /\ w \notin seen => at[w] = Idle /\ cache[w] = EmptyCache
  /\ at[w].step \in AtVideo =>
       mode = "paid" /\ PackOf(ShotOf(at[w].on)) \subseteq DOMAIN cache[w].images
  /\ at[w].step \in Painting => mode # "plan_only"
  /\ DOMAIN cache[w].images \subseteq Used

\* A server that was never used is idle; images are written under their locks, and videos only in
\* the paid mode, from images that the server has cached.
BaseInv ==
  /\ disk \in [AssetIds(plan) -> Nat] /\ contents \in [AssetIds(plan) -> Nat]
  /\ mishaps \in Nat /\ IsFiniteSet(seen) /\ seen \subseteq Servers
  /\ mode # "paid" => DOMAIN receipts \subseteq Used
  /\ mode = "plan_only" => DOMAIN receipts = {}
  /\ \A w \in Servers : BaseAt(w)
  /\ \A v, w \in Servers :
       at[v].step \in Painting /\ at[w].step \in Painting /\ at[v].on = at[w].on => v = w

\* The request of image x, from the receipts as they are.
Right(x, refs) ==
  /\ x \in SharedIds => refs = << >>
  /\ \A s \in Shots : x = s.asset =>
       s.deps \subseteq DOMAIN receipts /\ refs = [r \in s.deps |-> receipts[r].sha]

WholeAt(w) ==
  /\ at[w].step \in Painting => at[w].on \notin DOMAIN receipts /\ Right(at[w].on, at[w].read)
  /\ at[w].step = "painted" => disk[at[w].on] # 0
  /\ mode # "plan_only" => \A x \in DOMAIN cache[w].images : cache[w].images[x] = receipts[x].sha
  /\ at[w].step = "listed" => Closed(at[w].read)

\* While no file is damaged an image that has a receipt stays, whoever asks for it.
Whole ==
  /\ \A x \in DOMAIN receipts \cap Used :
       /\ receipts[x] = [sha |-> disk[x], refs |-> receipts[x].refs] /\ disk[x] # 0
       /\ Right(x, receipts[x].refs)
  /\ \A x \in DOMAIN receipts \ Used : \A r \in DOMAIN receipts[x].refs :
       r \in DOMAIN receipts \cap Used /\ receipts[x].refs[r] = receipts[r].sha
  /\ \A w \in Servers : WholeAt(w)
  /\ \A m \in manifest : Closed(m.listed)

FromCache(w, refs) ==
  \A r \in DOMAIN refs : r \in DOMAIN cache[w].images /\ refs[r] = cache[w].images[r]

\* A server that is alone has cached what the receipts say, and makes what it makes from its cache.
Solo(w) ==
  /\ mode # "plan_only" => \A x \in DOMAIN cache[w].images :
       receipts[x].sha = cache[w].images[x] /\ FromCache(w, receipts[x].refs)
  /\ \A s \in cache[w].videos : FromCache(w, receipts[VideoOf(s)].refs)
  /\ at[w].step \in Painting => at[w].on \notin DOMAIN cache[w].images /\ FromCache(w, at[w].read)
  /\ at[w].step = "listed" => Closed(at[w].read)
  /\ \A m \in manifest : Closed(m.listed)

LineageInv ==
  /\ BaseInv
  /\ mishaps = 0 => Whole
  /\ \A w \in Servers : seen \subseteq {w} => Solo(w)

LEMMA LineageInit == Init => LineageInv
<1> SUFFICES ASSUME Init PROVE LineageInv
  OBVIOUS
<1>1. /\ at = [w \in Servers |-> Idle] /\ cache = [w \in Servers |-> EmptyCache]
      /\ DOMAIN receipts = {} /\ manifest = {} /\ seen = {} /\ mishaps = 0
  BY DEF Init
<1>2. \A w \in Servers : /\ at[w].step = "idle" /\ at[w] = Idle /\ cache[w] = EmptyCache
                         /\ DOMAIN cache[w].images = {} /\ cache[w].videos = {}
  BY <1>1 DEF Idle, EmptyCache
<1>3. "idle" \notin AtVideo \cup Painting \cup {"painted", "listed"}
  BY DEF AtVideo, Painting
<1>4. IsFiniteSet(seen)
  BY <1>1, FS_EmptySet
<1>5. disk \in [AssetIds(plan) -> Nat] /\ contents \in [AssetIds(plan) -> Nat]
  BY DEF Init
<1>6. BaseInv
  BY <1>1, <1>2, <1>3, <1>4, <1>5 DEF BaseInv, BaseAt
<1>7. Whole
  BY <1>1, <1>2, <1>3 DEF Whole, WholeAt
<1>8. \A w \in Servers : Solo(w)
  BY <1>1, <1>2, <1>3 DEF Solo
<1> QED BY <1>6, <1>7, <1>8 DEF LineageInv

-----------------------------------------------------------------------------
(* What the steps do                                                         *)

\* The other servers stay where they are.
Alone(w) == \A v \in Servers \ {w} : at'[v] = at[v] /\ cache'[v] = cache[v]

LEMMA GoDoes ==
  ASSUME PaidInv, NEW w \in Servers, NEW step, NEW on, NEW read, Go(w, step, on, read)
  PROVE  /\ at'[w].step = step /\ at'[w].on = on /\ at'[w].read = read
         /\ \A v \in Servers \ {w} : at'[v] = at[v]
BY DEF PaidInv, Go

LEMMA IdleDoes ==
  ASSUME PaidInv, NEW w \in Servers, Raise(w) \/ at' = [at EXCEPT ![w] = Idle]
  PROVE  at'[w] = Idle /\ at'[w].step = "idle" /\ \A v \in Servers \ {w} : at'[v] = at[v]
BY DEF PaidInv, Raise, Idle

\* The parts of a cache.
LEMMA CacheParts ==
  ASSUME CompleteInv, NEW w \in Servers
  PROVE  \E i, s, n : /\ cache[w] = [images |-> i, videos |-> s, nodes |-> n]
                      /\ i = cache[w].images /\ s = cache[w].videos /\ n = cache[w].nodes
BY DEF CompleteInv, Backed

LEMMA ImagesDo ==
  ASSUME CompleteInv, NEW w \in Servers, NEW i, cache' = [cache EXCEPT ![w].images = i]
  PROVE  /\ cache'[w].images = i /\ cache'[w].videos = cache[w].videos
         /\ cache'[w].nodes = cache[w].nodes /\ \A v \in Servers \ {w} : cache'[v] = cache[v]
<1>1. PICK j, s, n : /\ cache[w] = [images |-> j, videos |-> s, nodes |-> n]
                     /\ s = cache[w].videos /\ n = cache[w].nodes
  BY CacheParts
<1>2. cache = [v \in Servers |-> cache[v]]
  BY DEF CompleteInv
<1>3. cache'[w] = [cache[w] EXCEPT !.images = i] /\ \A v \in Servers \ {w} : cache'[v] = cache[v]
  BY <1>2
<1>4. cache'[w] = [images |-> i, videos |-> s, nodes |-> n]
  BY <1>1, <1>3
<1> QED BY <1>1, <1>3, <1>4

LEMMA VideosDo ==
  ASSUME CompleteInv, NEW w \in Servers, NEW t, cache' = [cache EXCEPT ![w].videos = t]
  PROVE  /\ cache'[w].videos = t /\ cache'[w].images = cache[w].images
         /\ cache'[w].nodes = cache[w].nodes /\ \A v \in Servers \ {w} : cache'[v] = cache[v]
<1>1. PICK j, s, n : /\ cache[w] = [images |-> j, videos |-> s, nodes |-> n]
                     /\ j = cache[w].images /\ n = cache[w].nodes
  BY CacheParts
<1>2. cache = [v \in Servers |-> cache[v]]
  BY DEF CompleteInv
<1>3. cache'[w] = [cache[w] EXCEPT !.videos = t] /\ \A v \in Servers \ {w} : cache'[v] = cache[v]
  BY <1>2
<1>4. cache'[w] = [images |-> j, videos |-> t, nodes |-> n]
  BY <1>1, <1>3
<1> QED BY <1>1, <1>3, <1>4

LEMMA NodesDo ==
  ASSUME CompleteInv, NEW w \in Servers, NEW t, cache' = [cache EXCEPT ![w].nodes = t]
  PROVE  /\ cache'[w].images = cache[w].images /\ cache'[w].videos = cache[w].videos
         /\ \A v \in Servers \ {w} : cache'[v] = cache[v]
<1>1. PICK j, s, n : /\ cache[w] = [images |-> j, videos |-> s, nodes |-> n]
                     /\ j = cache[w].images /\ s = cache[w].videos
  BY CacheParts
<1>2. cache = [v \in Servers |-> cache[v]]
  BY DEF CompleteInv
<1>3. cache'[w] = [cache[w] EXCEPT !.nodes = t] /\ \A v \in Servers \ {w} : cache'[v] = cache[v]
  BY <1>2
<1>4. cache'[w] = [images |-> j, videos |-> s, nodes |-> t]
  BY <1>1, <1>3
<1> QED BY <1>1, <1>3, <1>4

\* A step of w, which has been used by then.
LEMMA LineageStep ==
  ASSUME LineageInv, NEW w \in Servers, Alone(w), UNCHANGED <<plan, mode, mishaps>>,
         seen' = seen \cup {w}, disk' \in [AssetIds(plan) -> Nat],
         contents' \in [AssetIds(plan) -> Nat],
         mode # "paid" => DOMAIN receipts' \subseteq Used,
         mode = "plan_only" => DOMAIN receipts' = {},
         BaseAt(w)',
         at'[w].step \in Painting =>
           \/ at[w].step \in Painting /\ at[w].on = at'[w].on
           \/ ~Locked(Painting, at'[w].on),
         mishaps = 0 => Whole', Solo(w) => Solo(w)'
  PROVE  LineageInv'
<1>1. BaseInv
  BY DEF LineageInv
<1>2. Used' = Used /\ Shots' = Shots
  BY DEF Used, Shots
<1>3. ASSUME NEW v \in Servers PROVE BaseAt(v)'
  <2>1. CASE v = w
    BY <2>1
  <2>2. CASE v # w
    <3>1. at'[v] = at[v] /\ cache'[v] = cache[v] /\ BaseAt(v)
      BY <1>1, <2>2 DEF Alone, BaseInv
    <3>2. ShotOf(at[v].on)' = ShotOf(at[v].on)
      BY <1>2, <3>1 DEF ShotOf
    <3>3. PackOf(ShotOf(at[v].on))' = PackOf(ShotOf(at[v].on))
      BY <3>2 DEF PackOf
    <3> QED BY <1>2, <3>1, <3>3 DEF BaseAt
  <2> QED BY <2>1, <2>2
<1>4. ASSUME NEW u \in Servers, NEW v \in Servers, at'[u].step \in Painting,
             at'[v].step \in Painting, at'[u].on = at'[v].on
      PROVE  u = v
  <2>1. \A t \in Servers \ {w} : at'[t] = at[t]
    BY DEF Alone
  <2> QED BY <1>1, <1>4, <2>1 DEF BaseInv, Locked
<1>5. IsFiniteSet(seen')
  BY <1>1, FS_AddElement DEF BaseInv
<1>6. BaseInv'
  BY <1>1, <1>2, <1>3, <1>4, <1>5 DEF BaseInv
<1>7. ASSUME NEW u \in Servers, seen' \subseteq {u} PROVE Solo(u)'
  <2>1. u = w /\ seen \subseteq {u}
    BY <1>7
  <2> QED BY <2>1 DEF LineageInv
<1> QED BY <1>6, <1>7 DEF LineageInv

\* The receipts of images stay.
Kept == \A x \in DOMAIN receipts \cap Used : x \in DOMAIN receipts' /\ receipts'[x] = receipts[x]

LEMMA RightKept ==
  ASSUME Kept, UNCHANGED plan, NEW x, NEW refs, Right(x, refs)
  PROVE  Right(x, refs)'
<1>1. Shots' = Shots /\ SharedIds' = SharedIds
  BY DEF Shots, SharedIds
<1>2. ASSUME NEW s \in Shots, x = s.asset
      PROVE  s.deps \subseteq DOMAIN receipts' /\ refs = [r \in s.deps |-> receipts'[r].sha]
  <2>1. s.deps \subseteq Used
    BY DEF Used
  <2>2. s.deps \subseteq DOMAIN receipts /\ refs = [r \in s.deps |-> receipts[r].sha]
    BY <1>2 DEF Right
  <2>3. \A r \in s.deps : r \in DOMAIN receipts' /\ receipts'[r].sha = receipts[r].sha
    BY <2>1, <2>2 DEF Kept
  <2> QED BY <2>2, <2>3
<1> QED BY <1>1, <1>2 DEF Right

\* A step of w that changes no receipt of an image, and neither the images that have one nor
\* those that the others write.
LEMMA WholeStep ==
  ASSUME CompleteInv, BaseInv, Whole, NEW w \in Servers, Alone(w), UNCHANGED <<plan, mode>>, Kept,
         \A x \in DOMAIN receipts \cap Used : disk'[x] = disk[x],
         \A x \in (DOMAIN receipts' \cap Used) \ DOMAIN receipts :
           /\ receipts'[x] = [sha |-> disk'[x], refs |-> receipts'[x].refs] /\ disk'[x] # 0
           /\ Right(x, receipts[x].refs)',
         \A x \in DOMAIN receipts' \ Used :
           \/ x \in DOMAIN receipts /\ receipts'[x] = receipts[x]
           \/ \A r \in DOMAIN receipts'[x].refs :
                r \in DOMAIN receipts' \cap Used /\ receipts'[x].refs[r] = receipts'[r].sha,
         \A v \in Servers \ {w} : at[v].step \in Painting =>
           at[v].on \notin DOMAIN receipts' /\ disk'[at[v].on] = disk[at[v].on],
         WholeAt(w)', manifest' = manifest \/ \A m \in manifest' : Closed(m.listed)
  PROVE  Whole'
<1>1. Used' = Used
  BY DEF Used, Shots
<1>2. ASSUME NEW x \in DOMAIN receipts' \cap Used
      PROVE  /\ receipts'[x] = [sha |-> disk'[x], refs |-> receipts'[x].refs] /\ disk'[x] # 0
             /\ Right(x, receipts[x].refs)'
  <2>1. CASE x \in DOMAIN receipts
    <3>1. /\ receipts'[x] = receipts[x] /\ disk'[x] = disk[x]
          /\ receipts[x] = [sha |-> disk[x], refs |-> receipts[x].refs] /\ disk[x] # 0
          /\ Right(x, receipts[x].refs)
      BY <2>1 DEF Kept, Whole
    <3>2. PICK refs : refs = receipts[x].refs
      OBVIOUS
    <3>3. Right(x, refs)'
      BY <3>1, <3>2, RightKept
    <3> QED BY <3>1, <3>2, <3>3 DEF Right
  <2> QED BY <2>1
<1>3. ASSUME NEW x \in DOMAIN receipts' \ Used, NEW r \in DOMAIN receipts'[x].refs
      PROVE  r \in DOMAIN receipts' \cap Used /\ receipts'[x].refs[r] = receipts'[r].sha
  <2>1. CASE x \in DOMAIN receipts /\ receipts'[x] = receipts[x]
    <3>1. r \in DOMAIN receipts \cap Used /\ receipts[x].refs[r] = receipts[r].sha
      BY <1>3, <2>1 DEF Whole
    <3> QED BY <2>1, <3>1 DEF Kept
  <2> QED BY <2>1
<1>4. ASSUME NEW v \in Servers PROVE WholeAt(v)'
  <2>1. CASE v = w
    BY <2>1
  <2>2. CASE v # w
    <3>1. at'[v] = at[v] /\ cache'[v] = cache[v] /\ WholeAt(v) /\ BaseAt(v) /\ Backed(cache[v])
      BY <2>2 DEF Alone, Whole, BaseInv, CompleteInv
    <3>2. ASSUME at[v].step \in Painting
          PROVE  /\ at[v].on \notin DOMAIN receipts' /\ disk'[at[v].on] = disk[at[v].on]
                 /\ Right(at[v].on, at[v].read)'
      <4>1. PICK x, refs : x = at[v].on /\ refs = at[v].read
        OBVIOUS
      <4>2. Right(x, refs)'
        BY <3>1, <3>2, <4>1, RightKept DEF WholeAt
      <4> QED BY <2>2, <3>1, <3>2, <4>1, <4>2 DEF Right
    <3>3. \A x \in DOMAIN cache[v].images : mode # "plan_only" => receipts'[x] = receipts[x]
      BY <3>1 DEF BaseAt, Backed, Kept
    <3> QED BY <3>1, <3>2, <3>3 DEF WholeAt, Painting
  <2> QED BY <2>1, <2>2
<1> QED BY <1>1, <1>2, <1>3, <1>4 DEF Whole

\* In particular a step that changes neither receipts nor files.
LEMMA WholeQuiet ==
  ASSUME CompleteInv, BaseInv, Whole, NEW w \in Servers, Alone(w),
         UNCHANGED <<plan, mode, receipts, disk>>,
         WholeAt(w)', manifest' = manifest \/ \A m \in manifest' : Closed(m.listed)
  PROVE  Whole'
<1>1. Kept
  BY DEF Kept
<1>2. \A v \in Servers \ {w} : at[v].step \in Painting => at[v].on \notin DOMAIN receipts
  BY DEF Whole, WholeAt
<1> QED BY <1>1, <1>2, WholeStep

LEMMA WasUsed ==
  ASSUME BaseInv, NEW w \in Servers, at[w].step # "idle" \/ cache[w] # EmptyCache
  PROVE  w \in seen
BY DEF BaseInv, BaseAt, Idle

\* A step that changes no file and no cache, after which the server is idle or at a video.
LEMMA LineageQuiet ==
  ASSUME CompleteInv, LineageInv, NEW w \in Servers, Alone(w), seen' = seen \cup {w},
         UNCHANGED <<plan, mode, mishaps, disk, contents, receipts, cache, manifest>>,
         at'[w].step \notin Painting, at'[w].step # "listed",
         at'[w].step \in AtVideo =>
           mode = "paid" /\ PackOf(ShotOf(at'[w].on)) \subseteq DOMAIN cache[w].images
  PROVE  LineageInv'
<1>1. BaseInv /\ Used' = Used /\ Shots' = Shots /\ BaseAt(w)
  BY DEF LineageInv, BaseInv, Used, Shots
<1>2. ShotOf(at[w].on)' = ShotOf(at'[w].on)
  BY <1>1 DEF ShotOf
<1>3. BaseAt(w)'
  BY <1>1, <1>2 DEF BaseAt, PackOf
<1>4. ASSUME mishaps = 0 PROVE Whole'
  <2>1. Whole
    BY <1>4 DEF LineageInv
  <2>2. WholeAt(w)'
    BY <2>1 DEF Whole, WholeAt, Painting
  <2> QED BY <1>1, <2>1, <2>2, WholeQuiet
<1>5. ASSUME Solo(w) PROVE Solo(w)'
  BY <1>5 DEF Solo, FromCache
<1> QED BY <1>1, <1>3, <1>4, <1>5, LineageStep DEF BaseInv

LEMMA LookLineage ==
  ASSUME PaidInv, CompleteInv, LineageInv, NEW w \in Servers, Look(w) \/ Create(w)
  PROVE  LineageInv'
<1>1. /\ at[w].step \in AtVideo /\ seen' = seen
      /\ UNCHANGED <<plan, mode, mishaps, disk, contents, receipts, cache, manifest>>
      /\ \/ Raise(w)
         \/ \E step \in AtVideo : \E read : Go(w, step, at[w].on, read)
  BY DEF Look, Create, fileVars, AtVideo
<1>2. BaseInv /\ BaseAt(w)
  BY DEF LineageInv, BaseInv
<1>3. seen' = seen \cup {w}
  BY <1>1, <1>2, WasUsed DEF AtVideo
<1>4. \A step \in AtVideo : step \notin Painting /\ step # "listed"
  BY DEF AtVideo, Painting
<1>5. CASE Raise(w)
  <2>1. at'[w].step = "idle" /\ Alone(w)
    BY <1>1, <1>5, IdleDoes DEF Alone
  <2>2. "idle" \notin Painting \cup AtVideo
    BY DEF Painting, AtVideo
  <2> QED BY <1>1, <1>3, <2>1, <2>2, LineageQuiet
<1>6. ASSUME NEW step \in AtVideo, NEW read, Go(w, step, at[w].on, read) PROVE LineageInv'
  <2>1. at'[w].step = step /\ at'[w].on = at[w].on /\ Alone(w)
    BY <1>1, <1>6, GoDoes DEF Alone
  <2>2. mode = "paid" /\ PackOf(ShotOf(at'[w].on)) \subseteq DOMAIN cache[w].images
    BY <1>1, <1>2, <2>1 DEF BaseAt
  <2> QED BY <1>1, <1>3, <1>4, <2>1, <2>2, LineageQuiet
<1> QED BY <1>1, <1>5, <1>6

LEMMA VideoLineage ==
  ASSUME PaidInv, CompleteInv, LineageInv, NEW w \in Servers, NEW shot \in Shots, VideoNode(w, shot)
  PROVE  LineageInv'
<1>1. /\ UNCHANGED <<plan, mode, mishaps, disk, contents, receipts, cache, manifest>>
      /\ seen' = seen \cup {w} /\ mode = "paid" /\ PackOf(shot) \subseteq DOMAIN cache[w].images
      /\ Go(w, "checked", VideoOf(shot.id), << >>)
  BY DEF VideoNode, RuntimeRoot, fileVars
<1>2. at'[w].step = "checked" /\ at'[w].on = VideoOf(shot.id) /\ Alone(w)
  BY <1>1, GoDoes DEF Alone
<1>3. ShotOf(at'[w].on) = shot
  BY <1>2, ShotOfVideo DEF PaidInv
<1>4. "checked" \notin Painting
  BY DEF Painting
<1> QED BY <1>1, <1>2, <1>3, <1>4, LineageQuiet

\* What a server asks for: a shared image, or a keyframe with the images that it has cached.
Asked(w, x, read) ==
  \/ x \in SharedIds /\ read = << >>
  \/ \E s \in Shots : /\ x = s.asset /\ s.deps \subseteq DOMAIN cache[w].images
                      /\ read = [r \in s.deps |-> cache[w].images[r]]

\* While no file is damaged the request is what the receipts give.
LEMMA AskedIsRight ==
  ASSUME PaidInv, CompleteInv, Whole, mode # "plan_only", NEW w \in Servers, NEW x, NEW read,
         Asked(w, x, read)
  PROVE  Right(x, read)
<1>1. /\ \A s, t \in Shots : s.asset = t.asset => s = t
      /\ \A s \in Shots : s.asset \notin SharedIds
  BY AssetsDistinct DEF PaidInv
<1>2. ASSUME NEW s \in Shots, x = s.asset
      PROVE  s.deps \subseteq DOMAIN receipts /\ read = [r \in s.deps |-> receipts[r].sha]
  <2>1. s.deps \subseteq DOMAIN cache[w].images /\ read = [r \in s.deps |-> cache[w].images[r]]
    BY <1>1, <1>2 DEF Asked
  <2>2. \A r \in s.deps : r \in DOMAIN receipts /\ cache[w].images[r] = receipts[r].sha
    BY <2>1 DEF CompleteInv, Backed, Whole, WholeAt
  <2> QED BY <2>1, <2>2
<1> QED BY <1>1, <1>2 DEF Right, Asked

\* There is one right request for an image.
LEMMA RightIsOne ==
  ASSUME PaidInv, NEW x \in Used, NEW p, NEW q, Right(x, p), Right(x, q)
  PROVE  p = q
<1>1. x \in SharedIds \/ \E s \in Shots : x = s.asset
  <2>1. Used \subseteq AssetIds(plan) /\ AssetIds(plan) = SharedIds \cup {s.asset : s \in Shots}
    BY PlanSets DEF PaidInv
  <2> QED BY <2>1
<1> QED BY <1>1 DEF Right

\* What a server returns for an image is what it has, and the request is of what it has cached.
LEMMA AskedFromCache ==
  ASSUME NEW w \in Servers, NEW x, NEW read, Asked(w, x, read)
  PROVE  FromCache(w, read)
BY DEF Asked, FromCache

\* A server has a shared image or a keyframe in its cache, or sets out to make it.
Made(w, x, read) ==
  /\ Wanted(w, x) /\ Asked(w, x, read)
  /\ Planned(w, x) \/ (mode # "plan_only" /\ Generate(w, x, read))

LEMMA PaintLineage ==
  ASSUME PaidInv, CompleteInv, LineageInv, NEW w \in Servers, NEW x, NEW read, Made(w, x, read),
         mode # "plan_only", Go(w, "paint", x, read), ~Valid(x, read), Generate(w, x, read),
         UNCHANGED cache
  PROVE  LineageInv'
<1>1. /\ UNCHANGED <<plan, mode, mishaps, disk, contents, receipts, cache, manifest>>
      /\ seen' = seen \cup {w} /\ x \in Used /\ x \notin DOMAIN cache[w].images
      /\ ~Locked(Painting, x) /\ \A r \in DOMAIN read : disk[r] = read[r]
  BY DEF Made, Generate, RuntimeRoot, Wanted, fileVars, Painting
<1>2. at'[w].step = "paint" /\ at'[w].on = x /\ at'[w].read = read /\ Alone(w)
  BY <1>1, GoDoes DEF Alone
<1>3. BaseInv /\ BaseAt(w) /\ Used' = Used
  BY <1>1 DEF LineageInv, BaseInv, Used, Shots
<1>4. BaseAt(w)'
  BY <1>1, <1>2, <1>3 DEF BaseAt, AtVideo
<1>5. ASSUME mishaps = 0 PROVE Whole'
  <2>1. Whole
    BY <1>5 DEF LineageInv
  <2>2. Right(x, read)
    BY <2>1, AskedIsRight DEF Made
  <2>3. x \notin DOMAIN receipts
    <3> SUFFICES ASSUME x \in DOMAIN receipts PROVE FALSE
      OBVIOUS
    <3>1. /\ receipts[x] = [sha |-> disk[x], refs |-> receipts[x].refs] /\ disk[x] # 0
          /\ Right(x, receipts[x].refs)
      BY <1>1, <2>1 DEF Whole
    <3>2. receipts[x].refs = read
      BY <1>1, <2>2, <3>1, RightIsOne
    <3> QED BY <3>1, <3>2 DEF Valid
  <2>4. Right(x, read)'
    BY <1>1, <2>2 DEF Right, Shots, SharedIds
  <2>5. WholeAt(w)'
    BY <1>1, <1>2, <2>1, <2>3, <2>4 DEF Whole, WholeAt, Right
  <2> QED BY <1>1, <1>2, <1>3, <2>1, <2>5, WholeQuiet
<1>6. ASSUME Solo(w) PROVE Solo(w)'
  <2>1. FromCache(w, read)
    BY AskedFromCache DEF Made
  <2> QED BY <1>1, <1>2, <1>6, <2>1 DEF Solo, FromCache
<1> QED BY <1>1, <1>2, <1>3, <1>4, <1>5, <1>6, LineageStep DEF BaseInv

LEMMA FromCacheGrows ==
  ASSUME NEW w \in Servers, NEW x, NEW c, x \notin DOMAIN cache[w].images,
         cache'[w].images = Put(cache[w].images, x, c), NEW refs, FromCache(w, refs)
  PROVE  FromCache(w, refs)'
<1>1. /\ DOMAIN cache'[w].images = DOMAIN cache[w].images \cup {x}
      /\ \A y \in DOMAIN cache[w].images : cache'[w].images[y] = cache[w].images[y]
  <2>1. PICK f : f = cache[w].images
    OBVIOUS
  <2>2. PICK g : g = Put(f, x, c)
    OBVIOUS
  <2>3. DOMAIN g = DOMAIN f \cup {x} /\ \A y \in DOMAIN f : y # x => g[y] = f[y]
    BY <2>2 DEF Put
  <2>4. cache'[w].images = g /\ x \notin DOMAIN f
    BY <2>1, <2>2
  <2> QED BY <2>1, <2>3, <2>4
<1> QED BY <1>1 DEF FromCache

LEMMA OutputLineage ==
  ASSUME PaidInv, CompleteInv, LineageInv, NEW w \in Servers, NEW x, NEW read, Made(w, x, read),
         NEW c, Output(w, x, c), mode = "plan_only" \/ (Valid(x, read) /\ c = disk[x]),
         UNCHANGED <<plan, mode, mishaps, disk, contents, receipts, manifest>>,
         seen' = seen \cup {w}
  PROVE  LineageInv'
<1>1. x \in Used /\ x \notin DOMAIN cache[w].images
  BY DEF Made, Wanted
<1>2. at'[w] = Idle /\ at'[w].step = "idle" /\ \A v \in Servers \ {w} : at'[v] = at[v]
  BY IdleDoes DEF Output
<1>3. /\ cache'[w].images = Put(cache[w].images, x, c) /\ cache'[w].videos = cache[w].videos
      /\ \A v \in Servers \ {w} : cache'[v] = cache[v]
  BY ImagesDo DEF Output
<1>4. /\ DOMAIN cache'[w].images = DOMAIN cache[w].images \cup {x} /\ cache'[w].images[x] = c
      /\ \A y \in DOMAIN cache[w].images : cache'[w].images[y] = cache[w].images[y]
  <2>1. PICK f : f = cache[w].images
    OBVIOUS
  <2>2. PICK g : g = Put(f, x, c)
    OBVIOUS
  <2>3. DOMAIN g = DOMAIN f \cup {x} /\ g[x] = c /\ \A y \in DOMAIN f : y # x => g[y] = f[y]
    BY <2>2 DEF Put
  <2>4. cache'[w].images = g /\ x \notin DOMAIN f
    BY <1>1, <1>3, <2>1, <2>2
  <2> QED BY <2>1, <2>3, <2>4
<1>5. BaseInv /\ BaseAt(w) /\ Used' = Used /\ Alone(w)
  BY <1>2, <1>3 DEF LineageInv, BaseInv, Used, Shots, Alone
<1>6. BaseAt(w)'
  BY <1>1, <1>2, <1>4, <1>5 DEF BaseAt, AtVideo, Painting
<1>7. mode # "plan_only" => receipts[x].sha = c /\ receipts[x].refs = read /\ x \in DOMAIN receipts
  BY DEF Valid
<1>8. ASSUME mishaps = 0 PROVE Whole'
  <2>1. Whole
    BY <1>8 DEF LineageInv
  <2>2. WholeAt(w)'
    BY <1>2, <1>4, <1>7, <2>1 DEF Whole, WholeAt, Painting
  <2> QED BY <1>5, <2>1, <2>2, WholeQuiet
<1>9. ASSUME Solo(w) PROVE Solo(w)'
  <2>1. \A refs : FromCache(w, refs) => FromCache(w, refs)'
    BY <1>1, <1>3, FromCacheGrows
  <2>2. FromCache(w, read)
    BY AskedFromCache DEF Made
  <2>3. ASSUME mode # "plan_only", NEW y \in DOMAIN cache'[w].images
        PROVE  receipts[y].sha = cache'[w].images[y] /\ FromCache(w, receipts[y].refs)'
    <3>1. PICK refs : refs = receipts[y].refs
      OBVIOUS
    <3>2. receipts[y].sha = cache'[w].images[y] /\ FromCache(w, refs)
      BY <1>4, <1>7, <1>9, <2>2, <2>3, <3>1 DEF Solo
    <3>3. FromCache(w, refs)'
      BY <2>1, <3>2
    <3> QED BY <3>1, <3>2, <3>3 DEF FromCache
  <2>4. ASSUME NEW s \in cache'[w].videos PROVE FromCache(w, receipts[VideoOf(s)].refs)'
    <3>1. PICK refs : refs = receipts[VideoOf(s)].refs
      OBVIOUS
    <3>2. FromCache(w, refs)
      BY <1>3, <1>9, <3>1 DEF Solo
    <3>3. FromCache(w, refs)'
      BY <2>1, <3>2
    <3> QED BY <3>1, <3>3 DEF FromCache
  <2>5. \A m \in manifest : Closed(m.listed)
    BY <1>9 DEF Solo
  <2> QED BY <1>2, <2>3, <2>4, <2>5 DEF Solo, Painting
<1>10. at'[w].step \notin Painting
  BY <1>2 DEF Painting
<1> QED BY <1>5, <1>6, <1>8, <1>9, <1>10, LineageStep DEF BaseInv

\* Every step of an image node before the provider.
LEMMA MadeLineage ==
  ASSUME PaidInv, CompleteInv, LineageInv, NEW w \in Servers, NEW x, NEW read, Made(w, x, read)
  PROVE  LineageInv'
<1>1. CASE Planned(w, x)
  BY <1>1, OutputLineage DEF Planned, fileVars
<1>2. CASE mode # "plan_only" /\ Generate(w, x, read)
  <2>1. CASE Valid(x, read) /\ Output(w, x, disk[x])
    BY <1>2, <2>1, OutputLineage DEF Generate, RuntimeRoot, fileVars
  <2>2. CASE ~Valid(x, read) /\ Go(w, "paint", x, read) /\ UNCHANGED cache
    BY <1>2, <2>2, PaintLineage
  <2> QED BY <1>2, <2>1, <2>2 DEF Generate
<1> QED BY <1>1, <1>2 DEF Made

LEMMA NodesLineage ==
  ASSUME PaidInv, CompleteInv, LineageInv, NEW w \in Servers,
         \/ \E x \in SharedIds : SharedNode(w, x)
         \/ \E s \in Shots : KeyframeNode(w, s)
  PROVE  LineageInv'
<1>1. ASSUME NEW x \in SharedIds, SharedNode(w, x) PROVE LineageInv'
  <2>1. Made(w, x, << >>)
    BY <1>1 DEF SharedNode, Made, Asked
  <2> QED BY <2>1, MadeLineage
<1>2. ASSUME NEW s \in Shots, KeyframeNode(w, s) PROVE LineageInv'
  <2> DEFINE read == [r \in s.deps |-> cache[w].images[r]]
  <2>1. Asked(w, s.asset, read)
    BY <1>2 DEF KeyframeNode, Asked
  <2>2. Made(w, s.asset, read)
    BY <1>2, <2>1 DEF KeyframeNode, Made
  <2> HIDE DEF read
  <2> QED BY <2>2, MadeLineage
<1> QED BY <1>1, <1>2

\* The provider of w wrote the image.
LEMMA WrittenLineage ==
  ASSUME PaidInv, CompleteInv, LineageInv, NEW w \in Servers, Paint(w), contents' # contents
  PROVE  LineageInv'
<1>1. PICK x : x = at[w].on /\ x \in Used
  BY DEF Paint, CompleteInv, Fit
<1>2. /\ at[w].step = "paint" /\ UNCHANGED <<plan, mode, mishaps, receipts, cache, manifest, seen>>
      /\ contents' = [contents EXCEPT ![x] = @ + 1] /\ disk' = [disk EXCEPT ![x] = contents'[x]]
      /\ Raise(w) \/ Go(w, "painted", x, at[w].read)
  BY <1>1 DEF Paint
<1>3. BaseInv /\ BaseAt(w) /\ Used' = Used /\ x \in AssetIds(plan)
  BY <1>1, <1>2, PlanSets DEF LineageInv, BaseInv, Used, Shots, PaidInv
<1>4. /\ contents' \in [AssetIds(plan) -> Nat] /\ disk' \in [AssetIds(plan) -> Nat]
      /\ disk'[x] # 0 /\ \A y \in AssetIds(plan) : y # x => disk'[y] = disk[y]
  BY <1>2, <1>3 DEF BaseInv
<1>5. /\ at'[w].step \in {"idle", "painted"} /\ Alone(w)
      /\ at'[w].step = "painted" => at'[w].on = x /\ at'[w].read = at[w].read
  BY <1>2, IdleDoes, GoDoes DEF Alone
<1>6. BaseAt(w)'
  BY <1>2, <1>3, <1>5, WasUsed DEF BaseAt, AtVideo, Painting
<1>7. seen' = seen \cup {w}
  BY <1>2, <1>3, WasUsed
<1>8. ASSUME mishaps = 0 PROVE Whole'
  <2>1. Whole /\ WholeAt(w)
    BY <1>8 DEF LineageInv, Whole
  <2>2. x \notin DOMAIN receipts /\ Right(x, at[w].read)
    BY <1>1, <1>2, <2>1 DEF WholeAt, Painting
  <2>3. Used \subseteq AssetIds(plan)
    BY PlanSets DEF PaidInv
  <2>4. \A y \in DOMAIN receipts \cap Used : disk'[y] = disk[y]
    BY <1>4, <2>2, <2>3
  <2>5. ASSUME NEW v \in Servers \ {w}, at[v].step \in Painting
        PROVE  at[v].on \notin DOMAIN receipts /\ disk'[at[v].on] = disk[at[v].on]
    <3>1. at[v].on # x /\ at[v].on \in Used
      BY <1>1, <1>2, <1>3, <2>5 DEF BaseInv, Painting, CompleteInv, Fit
    <3> QED BY <1>4, <2>1, <2>3, <2>5, <3>1 DEF Whole, WholeAt
  <2>6. Kept
    BY <1>2 DEF Kept
  <2>7. WholeAt(w)'
    <3>1. PICK refs : refs = at[w].read
      OBVIOUS
    <3>2. Right(x, refs)'
      BY <1>2, <2>2, <2>6, <3>1, RightKept
    <3>3. at'[w].step = "painted" => Right(at[w].on, at[w].read)'
      BY <1>5, <3>1, <3>2 DEF Right
    <3>4. \A y \in DOMAIN cache[w].images : mode # "plan_only" => cache[w].images[y] = receipts[y].sha
      BY <2>1 DEF WholeAt
    <3> QED BY <1>2, <1>4, <1>5, <2>2, <3>3, <3>4 DEF WholeAt, Painting
  <2> QED BY <1>2, <1>3, <1>5, <2>1, <2>4, <2>5, <2>6, <2>7, WholeStep
<1>9. ASSUME Solo(w) PROVE Solo(w)'
  BY <1>1, <1>2, <1>5, <1>9 DEF Solo, FromCache, Painting
<1>10. at'[w].step \in Painting => at[w].step \in Painting /\ at[w].on = at'[w].on
  BY <1>1, <1>2, <1>5 DEF Painting
<1>11. /\ mode # "paid" => DOMAIN receipts' \subseteq Used
       /\ mode = "plan_only" => DOMAIN receipts' = {}
  BY <1>2, <1>3 DEF BaseInv
<1> QED BY <1>2, <1>4, <1>5, <1>6, <1>7, <1>8, <1>9, <1>10, <1>11, LineageStep


\* A server raises, and nothing else has happened.
LEMMA RaiseLineage ==
  ASSUME PaidInv, CompleteInv, LineageInv, NEW w \in Servers, Raise(w), at[w].step # "idle",
         UNCHANGED <<plan, mode, mishaps, disk, contents, receipts, cache, manifest, seen>>
  PROVE  LineageInv'
<1>1. seen' = seen \cup {w}
  BY WasUsed DEF LineageInv
<1>2. at'[w].step = "idle" /\ Alone(w)
  BY IdleDoes DEF Alone
<1>3. "idle" \notin Painting \cup AtVideo
  BY DEF Painting, AtVideo
<1> QED BY <1>1, <1>2, <1>3, LineageQuiet

LEMMA PaintingLineage ==
  ASSUME PaidInv, CompleteInv, LineageInv, NEW w \in Servers, Paint(w)
  PROVE  LineageInv'
<1>1. CASE contents' # contents
  BY <1>1, WrittenLineage
<1>2. CASE contents' = contents
  <2>1. CASE Raise(w) /\ UNCHANGED <<disk, contents>>
    BY <2>1, RaiseLineage DEF Paint
  <2>2. CASE contents' = [contents EXCEPT ![at[w].on] = @ + 1]
    <3>1. at[w].on \in AssetIds(plan) /\ contents \in [AssetIds(plan) -> Nat]
      BY PlanSets DEF Paint, PaidInv, CompleteInv, Fit, LineageInv, BaseInv
    <3>2. contents'[at[w].on] # contents[at[w].on]
      BY <2>2, <3>1
    <3> QED BY <1>2, <3>2
  <2> QED BY <2>1, <2>2 DEF Paint
<1> QED BY <1>1, <1>2

\* The image that w wrote gets its receipt.
LEMMA ReceiveLineage ==
  ASSUME PaidInv, CompleteInv, LineageInv, NEW w \in Servers, Receive(w)
  PROVE  LineageInv'
<1>1. PICK x, read, c : x = at[w].on /\ read = at[w].read /\ c = disk[x] /\ x \in Used
  BY DEF Receive, CompleteInv, Fit
<1>2. /\ at[w].step = "painted" /\ Output(w, x, c)
      /\ UNCHANGED <<plan, mode, mishaps, disk, contents, manifest, seen>>
      /\ receipts' = Put(receipts, x, [sha |-> c, refs |-> read])
  BY <1>1 DEF Receive
<1>3. /\ DOMAIN receipts' = DOMAIN receipts \cup {x} /\ receipts'[x] = [sha |-> c, refs |-> read]
      /\ \A y \in DOMAIN receipts : y # x => receipts'[y] = receipts[y]
  BY <1>2 DEF Put
<1>4. at'[w] = Idle /\ at'[w].step = "idle" /\ \A v \in Servers \ {w} : at'[v] = at[v]
  BY <1>2, IdleDoes DEF Output
<1>5. /\ cache'[w].images = Put(cache[w].images, x, c) /\ cache'[w].videos = cache[w].videos
      /\ \A v \in Servers \ {w} : cache'[v] = cache[v]
  BY <1>2, ImagesDo DEF Output
<1>6. /\ DOMAIN cache'[w].images = DOMAIN cache[w].images \cup {x} /\ cache'[w].images[x] = c
      /\ \A y \in DOMAIN cache[w].images : y # x => cache'[w].images[y] = cache[w].images[y]
  <2>1. PICK f : f = cache[w].images
    OBVIOUS
  <2>2. PICK g : g = Put(f, x, c)
    OBVIOUS
  <2>3. DOMAIN g = DOMAIN f \cup {x} /\ g[x] = c /\ \A y \in DOMAIN f : y # x => g[y] = f[y]
    BY <2>2 DEF Put
  <2>4. cache'[w].images = g
    BY <1>5, <2>1, <2>2
  <2> QED BY <2>1, <2>3, <2>4
<1>7. /\ BaseInv /\ BaseAt(w) /\ Used' = Used /\ Alone(w) /\ mode # "plan_only"
      /\ seen' = seen \cup {w}
  <2>1. BaseInv /\ BaseAt(w) /\ w \in seen
    BY <1>2, WasUsed DEF LineageInv, BaseInv
  <2> QED BY <1>2, <1>4, <1>5, <2>1 DEF BaseAt, Used, Shots, Alone, Painting
<1>8. BaseAt(w)'
  BY <1>1, <1>4, <1>6, <1>7 DEF BaseAt, AtVideo, Painting
<1>9. /\ DOMAIN cache[w].images \subseteq DOMAIN receipts
      /\ \A s \in cache[w].videos : VideoOf(s) \in DOMAIN receipts /\ VideoOf(s) # x
  <2>1. Backed(cache[w])
    BY DEF CompleteInv
  <2>2. ShotIds = {s.id : s \in Shots} /\ x \notin Videos
    BY <1>1, PlanSets DEF PaidInv, ShotIds
  <2> QED BY <1>7, <2>1, <2>2 DEF Backed, Videos
<1>10. ASSUME mishaps = 0 PROVE Whole'
  <2>1. Whole /\ WholeAt(w)
    BY <1>10 DEF LineageInv, Whole
  <2>2. x \notin DOMAIN receipts /\ Right(x, read) /\ c # 0
    BY <1>1, <1>2, <2>1 DEF WholeAt, Painting
  <2>3. Kept
    BY <1>3, <2>2 DEF Kept
  <2>4. Right(x, receipts[x].refs)'
    <3>1. Right(x, read)'
      BY <1>2, <2>2, <2>3, RightKept
    <3>2. receipts'[x].refs = read
      BY <1>3
    <3> QED BY <3>1, <3>2 DEF Right
  <2>5. ASSUME NEW v \in Servers \ {w}, at[v].step \in Painting
        PROVE  at[v].on \notin DOMAIN receipts' /\ disk'[at[v].on] = disk[at[v].on]
    <3>1. at[v].on # x
      BY <1>1, <1>2, <1>7, <2>5 DEF BaseInv, Painting
    <3> QED BY <1>2, <1>3, <2>1, <2>5, <3>1 DEF Whole, WholeAt
  <2>6. WholeAt(w)'
    <3>1. \A y \in DOMAIN cache'[w].images : cache'[w].images[y] = receipts'[y].sha
      BY <1>3, <1>6, <1>7, <1>9, <2>1, <2>2 DEF WholeAt
    <3> QED BY <1>4, <3>1 DEF WholeAt, Painting
  <2>7. \A y \in (DOMAIN receipts' \cap Used) \ DOMAIN receipts :
          /\ receipts'[y] = [sha |-> disk'[y], refs |-> receipts'[y].refs] /\ disk'[y] # 0
          /\ Right(y, receipts[y].refs)'
    <3>1. receipts'[x] = [sha |-> disk'[x], refs |-> receipts'[x].refs] /\ disk'[x] # 0
      BY <1>1, <1>2, <1>3, <2>2
    <3>2. ASSUME NEW y \in (DOMAIN receipts' \cap Used) \ DOMAIN receipts PROVE y = x
      BY <1>3
    <3> QED BY <2>4, <3>1, <3>2
  <2>8. \A y \in DOMAIN receipts' \ Used : y \in DOMAIN receipts /\ receipts'[y] = receipts[y]
    BY <1>1, <1>3
  <2> QED BY <1>2, <1>7, <2>1, <2>3, <2>5, <2>6, <2>7, <2>8, WholeStep
<1>11. ASSUME Solo(w) PROVE Solo(w)'
  <2>1. x \notin DOMAIN cache[w].images /\ FromCache(w, read)
    BY <1>1, <1>2, <1>11 DEF Solo, Painting
  <2>2. \A refs : FromCache(w, refs) => FromCache(w, refs)'
    BY <1>5, <2>1, FromCacheGrows
  <2>3. ASSUME NEW y \in DOMAIN cache'[w].images
        PROVE  receipts'[y].sha = cache'[w].images[y] /\ FromCache(w, receipts[y].refs)'
    <3>1. PICK refs : refs = receipts'[y].refs
      OBVIOUS
    <3>2. receipts'[y].sha = cache'[w].images[y] /\ FromCache(w, refs)
      <4>1. CASE y = x
        BY <1>3, <1>6, <2>1, <3>1, <4>1
      <4>2. CASE y # x
        <5>1. y \in DOMAIN cache[w].images /\ receipts'[y] = receipts[y]
          BY <1>3, <1>6, <1>9, <2>3, <4>2
        <5> QED BY <1>6, <1>7, <1>11, <3>1, <4>2, <5>1 DEF Solo
      <4> QED BY <4>1, <4>2
    <3>3. FromCache(w, refs)'
      BY <2>2, <3>2
    <3> QED BY <3>1, <3>2, <3>3 DEF FromCache
  <2>4. ASSUME NEW s \in cache'[w].videos PROVE FromCache(w, receipts[VideoOf(s)].refs)'
    <3>1. PICK refs : refs = receipts[VideoOf(s)].refs
      OBVIOUS
    <3>2. FromCache(w, refs) /\ receipts'[VideoOf(s)] = receipts[VideoOf(s)]
      BY <1>3, <1>5, <1>9, <1>11, <3>1 DEF Solo
    <3>3. FromCache(w, refs)'
      BY <2>2, <3>2
    <3> QED BY <3>1, <3>2, <3>3 DEF FromCache
  <2>5. \A m \in manifest : Closed(m.listed)
    BY <1>11 DEF Solo
  <2> QED BY <1>2, <1>4, <2>3, <2>4, <2>5 DEF Solo, Painting
<1>12. /\ mode # "paid" => DOMAIN receipts' \subseteq Used
       /\ disk' \in [AssetIds(plan) -> Nat] /\ contents' \in [AssetIds(plan) -> Nat]
  BY <1>1, <1>2, <1>3, <1>7 DEF BaseInv
<1>13. at'[w].step \notin Painting
  BY <1>4 DEF Painting
<1> QED BY <1>2, <1>7, <1>8, <1>10, <1>11, <1>12, <1>13, LineageStep

\* The video of a shot is there, and is decoded.
LEMMA PollLineage ==
  ASSUME PaidInv, CompleteInv, LineageInv, NEW w \in Servers, Poll(w)
  PROVE  LineageInv'
<1>1. /\ at[w].step = "open" /\ Raise(w)
      /\ UNCHANGED <<plan, mode, mishaps, disk, contents, manifest, seen>>
  BY DEF Poll
<1>2. PICK s \in Shots : at[w].on = VideoOf(s.id) /\ ShotOf(at[w].on) = s
  BY <1>1, ShotOfVideo DEF PaidInv, AtVideo
<1>3. CASE UNCHANGED <<receipts, cache>>
  BY <1>1, <1>3, RaiseLineage
<1>4. CASE /\ cache' = [cache EXCEPT ![w].videos = @ \cup {s.id}]
           /\ receipts' = Put(receipts, VideoOf(s.id),
                              [sha |-> 1, refs |-> [r \in PackOf(s) |-> cache[w].images[r]]])
  <2>1. PICK v, pack : v = VideoOf(s.id) /\ pack = [r \in PackOf(s) |-> cache[w].images[r]]
    OBVIOUS
  <2>2. /\ DOMAIN receipts' = DOMAIN receipts \cup {v} /\ receipts'[v] = [sha |-> 1, refs |-> pack]
        /\ \A y \in DOMAIN receipts : y # v => receipts'[y] = receipts[y]
    BY <1>4, <2>1 DEF Put
  <2>3. at'[w] = Idle /\ at'[w].step = "idle" /\ \A u \in Servers \ {w} : at'[u] = at[u]
    BY <1>1, IdleDoes
  <2>4. /\ cache'[w].videos = cache[w].videos \cup {s.id} /\ cache'[w].images = cache[w].images
        /\ \A u \in Servers \ {w} : cache'[u] = cache[u]
    <3>1. PICK t : t = cache[w].videos \cup {s.id}
      OBVIOUS
    <3>2. cache' = [cache EXCEPT ![w].videos = t]
      BY <1>4, <3>1
    <3> QED BY <3>1, <3>2, VideosDo
  <2>5. /\ BaseInv /\ BaseAt(w) /\ Used' = Used /\ Alone(w) /\ seen' = seen \cup {w}
        /\ mode = "paid" /\ PackOf(s) \subseteq DOMAIN cache[w].images
    <3>1. BaseInv /\ BaseAt(w) /\ w \in seen
      BY <1>1, WasUsed DEF LineageInv, BaseInv
    <3> QED BY <1>1, <1>2, <2>3, <2>4, <3>1 DEF BaseAt, Used, Shots, Alone, AtVideo
  <2>6. v \notin Used
    BY <2>1, PlanSets DEF PaidInv, Videos
  <2>7. /\ DOMAIN cache[w].images \subseteq DOMAIN receipts \cap Used
        /\ \A t \in cache[w].videos : VideoOf(t) \in DOMAIN receipts
    <3>1. Backed(cache[w])
      BY DEF CompleteInv
    <3> QED BY <2>5, <3>1 DEF Backed, BaseAt
  <2>8. BaseAt(w)'
    BY <2>3, <2>4, <2>5 DEF BaseAt, AtVideo, Painting
  <2>9. Kept
    BY <2>2, <2>6 DEF Kept
  <2>10. FromCache(w, pack)
    BY <2>1, <2>5 DEF FromCache
  <2>11. ASSUME mishaps = 0 PROVE Whole'
    <3>1. Whole /\ WholeAt(w)
      BY <2>11 DEF LineageInv, Whole
    <3>2. \A r \in DOMAIN pack : r \in DOMAIN receipts' \cap Used /\ pack[r] = receipts'[r].sha
      BY <2>5, <2>7, <2>9, <2>10, <3>1 DEF Kept, WholeAt, FromCache
    <3>3. \A y \in DOMAIN receipts' \ Used :
            \/ y \in DOMAIN receipts /\ receipts'[y] = receipts[y]
            \/ \A r \in DOMAIN receipts'[y].refs :
                 r \in DOMAIN receipts' \cap Used /\ receipts'[y].refs[r] = receipts'[r].sha
      BY <2>2, <3>2
    <3>4. \A u \in Servers \ {w} : at[u].step \in Painting => at[u].on \notin DOMAIN receipts'
      BY <2>2, <2>6, <3>1 DEF Whole, WholeAt, CompleteInv, Fit, Painting
    <3>5. \A y \in DOMAIN cache'[w].images : cache'[w].images[y] = receipts'[y].sha
      BY <2>4, <2>5, <2>7, <2>9, <3>1 DEF Kept, WholeAt
    <3>6. WholeAt(w)'
      BY <2>3, <3>5 DEF WholeAt, Painting
    <3>7. (DOMAIN receipts' \cap Used) \ DOMAIN receipts = {}
      BY <2>2, <2>6
    <3> QED BY <1>1, <2>5, <2>9, <3>1, <3>3, <3>4, <3>6, <3>7, WholeStep
  <2>12. ASSUME Solo(w) PROVE Solo(w)'
    <3>1. ASSUME NEW y \in DOMAIN cache'[w].images
          PROVE  receipts'[y].sha = cache'[w].images[y] /\ FromCache(w, receipts[y].refs)'
      <4>1. receipts'[y] = receipts[y] /\ receipts[y].sha = cache[w].images[y]
        BY <2>4, <2>5, <2>7, <2>9, <2>12, <3>1 DEF Solo, Kept
      <4>2. FromCache(w, receipts[y].refs)
        BY <2>4, <2>5, <2>12, <3>1 DEF Solo
      <4> QED BY <2>4, <4>1, <4>2 DEF FromCache
    <3>2. ASSUME NEW t \in cache'[w].videos PROVE FromCache(w, receipts[VideoOf(t)].refs)'
      <4>1. CASE VideoOf(t) = v
        BY <2>2, <2>4, <2>10, <4>1 DEF FromCache
      <4>2. CASE VideoOf(t) # v
        <5>1. t \in cache[w].videos
          BY <2>1, <2>4, <3>2, <4>2
        <5>2. receipts'[VideoOf(t)] = receipts[VideoOf(t)] /\ FromCache(w, receipts[VideoOf(t)].refs)
          BY <2>2, <2>7, <2>12, <4>2, <5>1 DEF Solo
        <5> QED BY <2>4, <5>2 DEF FromCache
      <4> QED BY <4>1, <4>2
    <3>3. \A m \in manifest : Closed(m.listed)
      BY <2>12 DEF Solo
    <3> QED BY <1>1, <2>3, <3>1, <3>2, <3>3 DEF Solo, Painting
  <2>13. at'[w].step \notin Painting
    BY <2>3 DEF Painting
  <2>14. disk' \in [AssetIds(plan) -> Nat] /\ contents' \in [AssetIds(plan) -> Nat]
    BY <1>1, <2>5 DEF BaseInv
  <2> QED BY <1>1, <2>5, <2>8, <2>11, <2>12, <2>13, <2>14, LineageStep
<1> QED BY <1>1, <1>2, <1>3, <1>4 DEF Poll

\* What a server reads for the manifest is closed while no file is damaged, and when it is alone.
LEMMA ListIsClosed ==
  ASSUME PaidInv, CompleteInv, LineageInv, NEW w \in Servers, Upstream(w),
         mishaps = 0 \/ Solo(w), NEW listed,
         DOMAIN listed \subseteq DOMAIN receipts \cup {StoryVideo}, DOMAIN receipts \subseteq DOMAIN listed,
         \A a \in DOMAIN receipts : a # StoryVideo => listed[a] = receipts[a],
         StoryVideo \in DOMAIN listed => DOMAIN listed[StoryVideo].refs = {}
  PROVE  Closed(listed)
<1>1. BaseInv /\ Used \subseteq AssetIds(plan) /\ StoryVideo \notin Used
  BY PlanSets DEF LineageInv, PaidInv
<1>2. SUFFICES ASSUME NEW a \in DOMAIN receipts, a # StoryVideo, NEW r \in DOMAIN receipts[a].refs
               PROVE  r \in DOMAIN receipts \cap Used /\ receipts[a].refs[r] = receipts[r].sha
  BY <1>1 DEF Closed
<1>3. mode # "plan_only"
  BY <1>1, <1>2 DEF BaseInv
<1>4. CASE mishaps = 0
  <2>1. Whole
    BY <1>4 DEF LineageInv
  <2>2. CASE a \in Used
    <3>1. PICK refs : refs = receipts[a].refs /\ Right(a, refs)
      BY <2>1, <2>2 DEF Whole
    <3>2. a \notin SharedIds
      BY <1>2, <3>1 DEF Right
    <3>3. PICK s \in Shots : a = s.asset
      BY <1>1, <2>2, <3>2, PlanSets DEF PaidInv
    <3>4. s.deps \subseteq DOMAIN receipts /\ refs = [q \in s.deps |-> receipts[q].sha]
      BY <3>1, <3>3 DEF Right
    <3>5. s.deps \subseteq Used
      BY DEF Used
    <3> QED BY <1>2, <3>1, <3>4, <3>5
  <2>3. CASE a \notin Used
    BY <1>2, <2>1, <2>3 DEF Whole
  <2> QED BY <2>2, <2>3
<1>5. CASE Solo(w)
  <2>1. Backed(cache[w]) /\ DOMAIN cache[w].images = Used
    BY DEF CompleteInv, Upstream
  <2>2. FromCache(w, receipts[a].refs)
    <3>1. CASE a \in Used
      BY <1>3, <1>5, <2>1, <3>1 DEF Solo
    <3>2. CASE a \notin Used
      <4>1. a \in Videos /\ mode = "paid"
        BY <1>1, <1>2, <3>2 DEF CompleteInv, BaseInv
      <4>2. PICK s \in ShotIds : a = VideoOf(s)
        BY <4>1 DEF Videos, ShotIds
      <4>3. s \in cache[w].videos
        BY <2>1, <4>1, <4>2 DEF Backed, Upstream
      <4> QED BY <1>5, <4>2, <4>3 DEF Solo
    <3> QED BY <3>1, <3>2
  <2>3. \A y \in Used : y \in DOMAIN receipts /\ receipts[y].sha = cache[w].images[y]
    BY <1>3, <1>5, <2>1 DEF Solo, Backed
  <2> QED BY <1>2, <2>1, <2>2, <2>3 DEF FromCache
<1> QED BY <1>4, <1>5

LEMMA ReadLineage ==
  ASSUME PaidInv, CompleteInv, LineageInv, NEW w \in Servers, ReadReceipts(w)
  PROVE  LineageInv'
<1>1. /\ UNCHANGED <<plan, mode, mishaps, disk, contents, receipts, cache, manifest>>
      /\ seen' = seen \cup {w} /\ Upstream(w)
  BY DEF ReadReceipts, RuntimeRoot, fileVars
<1>2. PICK listed : /\ Go(w, "listed", << >>, listed)
                    /\ DOMAIN listed \subseteq DOMAIN receipts \cup {StoryVideo}
                    /\ DOMAIN receipts \subseteq DOMAIN listed
                    /\ \A a \in DOMAIN receipts : a # StoryVideo => listed[a] = receipts[a]
                    /\ StoryVideo \in DOMAIN listed => DOMAIN listed[StoryVideo].refs = {}
  <2>1. CASE mode = "paid"
    <3>1. PICK none : none = << >>
      OBVIOUS
    <3>2. DOMAIN none = {}
      BY <3>1
    <3>3. PICK listed : listed = Put(receipts, StoryVideo, [sha |-> 1, refs |-> none])
      OBVIOUS
    <3>4. Go(w, "listed", << >>, listed)
      BY <2>1, <3>1, <3>3 DEF ReadReceipts
    <3>5. /\ DOMAIN listed = DOMAIN receipts \cup {StoryVideo}
          /\ listed[StoryVideo] = [sha |-> 1, refs |-> none]
          /\ \A a \in DOMAIN receipts : a # StoryVideo => listed[a] = receipts[a]
      BY <3>3 DEF Put
    <3>6. DOMAIN listed[StoryVideo].refs = {}
      BY <3>2, <3>5
    <3> QED BY <3>4, <3>5, <3>6
  <2>2. CASE mode # "paid"
    <3>1. Go(w, "listed", << >>, receipts)
      BY <2>2 DEF ReadReceipts
    <3>2. StoryVideo \notin DOMAIN receipts
      BY <2>2, PlanSets DEF LineageInv, BaseInv, PaidInv
    <3> QED BY <3>1, <3>2
  <2> QED BY <2>1, <2>2
<1>3. at'[w].step = "listed" /\ at'[w].read = listed /\ Alone(w)
  BY <1>1, <1>2, GoDoes DEF Alone
<1>4. BaseInv /\ BaseAt(w) /\ Used' = Used
  BY <1>1 DEF LineageInv, BaseInv, Used, Shots
<1>5. BaseAt(w)'
  BY <1>1, <1>3, <1>4 DEF BaseAt, AtVideo, Painting
<1>6. mishaps = 0 \/ Solo(w) => Closed(listed)
  BY <1>1, <1>2, ListIsClosed
<1>7. Closed(listed) => Closed(at[w].read)'
  BY <1>3 DEF Closed
<1>8. ASSUME mishaps = 0 PROVE Whole'
  <2>1. Whole /\ WholeAt(w)
    BY <1>8 DEF LineageInv, Whole
  <2>2. WholeAt(w)'
    BY <1>1, <1>3, <1>6, <1>7, <1>8, <2>1 DEF WholeAt, Painting
  <2> QED BY <1>1, <1>3, <1>4, <2>1, <2>2, WholeQuiet
<1>9. ASSUME Solo(w) PROVE Solo(w)'
  BY <1>1, <1>3, <1>6, <1>7, <1>9 DEF Solo, FromCache, Painting
<1>10. at'[w].step \notin Painting
  BY <1>3 DEF Painting
<1> QED BY <1>1, <1>3, <1>4, <1>5, <1>8, <1>9, <1>10, LineageStep DEF BaseInv

LEMMA StoryLineage ==
  ASSUME PaidInv, CompleteInv, LineageInv, NEW w \in Servers, StoryNode(w)
  PROVE  LineageInv'
<1>1. /\ UNCHANGED <<plan, mode, mishaps, disk, contents, receipts, at, manifest>>
      /\ seen' = seen \cup {w} /\ at[w] = Idle
  BY DEF StoryNode, RuntimeRoot, fileVars
<1>2. /\ cache'[w].images = cache[w].images /\ cache'[w].videos = cache[w].videos
      /\ \A v \in Servers \ {w} : cache'[v] = cache[v]
  <2>1. PICK t : t = cache[w].nodes \cup {"story"}
    OBVIOUS
  <2>2. cache' = [cache EXCEPT ![w].nodes = t]
    BY <2>1 DEF StoryNode
  <2> QED BY <2>2, NodesDo
<1>3. BaseInv /\ BaseAt(w) /\ Used' = Used /\ Alone(w) /\ at[w].step = "idle"
  BY <1>1, <1>2 DEF LineageInv, BaseInv, Used, Shots, Alone, Idle
<1>4. BaseAt(w)'
  BY <1>1, <1>2, <1>3 DEF BaseAt, AtVideo, Painting
<1>5. ASSUME mishaps = 0 PROVE Whole'
  <2>1. Whole /\ WholeAt(w)
    BY <1>5 DEF LineageInv, Whole
  <2>2. WholeAt(w)'
    BY <1>1, <1>2, <1>3, <2>1 DEF WholeAt, Painting
  <2> QED BY <1>1, <1>3, <2>1, <2>2, WholeQuiet
<1>6. ASSUME Solo(w) PROVE Solo(w)'
  BY <1>1, <1>2, <1>3, <1>6 DEF Solo, FromCache, Painting
<1>7. at'[w].step \notin Painting
  BY <1>1, <1>3 DEF Painting
<1> QED BY <1>1, <1>3, <1>4, <1>5, <1>6, <1>7, LineageStep DEF BaseInv

LEMMA ManifestLineage ==
  ASSUME PaidInv, CompleteInv, LineageInv, NEW w \in Servers, WriteManifest(w)
  PROVE  LineageInv'
<1>1. PICK listed : listed = at[w].read
  OBVIOUS
<1>2. /\ UNCHANGED <<plan, mode, mishaps, disk, contents, receipts, seen>> /\ Raise(w)
      /\ at[w].step = "listed" /\ manifest' = {[complete |-> Complete(listed), listed |-> listed]}
  BY <1>1 DEF WriteManifest
<1>3. /\ cache'[w].images = cache[w].images /\ cache'[w].videos = cache[w].videos
      /\ \A v \in Servers \ {w} : cache'[v] = cache[v]
  <2>1. PICK t : t = cache[w].nodes \cup {"manifest"}
    OBVIOUS
  <2>2. cache' = [cache EXCEPT ![w].nodes = t]
    BY <2>1 DEF WriteManifest
  <2> QED BY <2>2, NodesDo
<1>4. at'[w] = Idle /\ at'[w].step = "idle" /\ \A v \in Servers \ {w} : at'[v] = at[v]
  BY <1>2, IdleDoes
<1>5. /\ BaseInv /\ BaseAt(w) /\ Used' = Used /\ Alone(w) /\ seen' = seen \cup {w}
      /\ at'[w].step \notin Painting
  <2>1. BaseInv /\ BaseAt(w) /\ w \in seen
    BY <1>2, WasUsed DEF LineageInv, BaseInv
  <2> QED BY <1>2, <1>3, <1>4, <2>1 DEF Used, Shots, Alone, Painting
<1>6. BaseAt(w)'
  BY <1>2, <1>3, <1>4, <1>5 DEF BaseAt, AtVideo, Painting
<1>7. Closed(listed) => \A m \in manifest' : Closed(m.listed)
  BY <1>2
<1>8. ASSUME mishaps = 0 PROVE Whole'
  <2>1. Whole /\ WholeAt(w)
    BY <1>8 DEF LineageInv, Whole
  <2>2. Closed(listed)
    BY <1>1, <1>2, <2>1 DEF WholeAt
  <2>3. WholeAt(w)'
    BY <1>2, <1>3, <1>4, <2>1 DEF WholeAt, Painting
  <2> QED BY <1>2, <1>5, <1>7, <2>1, <2>2, <2>3, WholeQuiet
<1>9. ASSUME Solo(w) PROVE Solo(w)'
  <2>1. \A m \in manifest' : Closed(m.listed)
    BY <1>1, <1>2, <1>7, <1>9 DEF Solo
  <2> QED BY <1>2, <1>3, <1>4, <1>9, <2>1 DEF Solo, FromCache, Painting
<1> QED BY <1>2, <1>5, <1>6, <1>8, <1>9, LineageStep DEF BaseInv

LEMMA CrashLineage ==
  ASSUME PaidInv, CompleteInv, LineageInv, NEW w \in Servers, Crash(w)
  PROVE  LineageInv'
<1>1. /\ UNCHANGED <<plan, mode, mishaps, disk, contents, receipts, manifest, seen>>
      /\ at[w] # Idle \/ cache[w] # EmptyCache
      /\ at' = [at EXCEPT ![w] = Idle] /\ cache' = [cache EXCEPT ![w] = EmptyCache]
  BY DEF Crash, fileVars
<1>2. at'[w] = Idle /\ at'[w].step = "idle" /\ \A v \in Servers \ {w} : at'[v] = at[v]
  BY <1>1, IdleDoes
<1>3. /\ cache'[w] = EmptyCache /\ \A v \in Servers \ {w} : cache'[v] = cache[v]
      /\ DOMAIN cache'[w].images = {} /\ cache'[w].videos = {}
  BY <1>1 DEF CompleteInv, EmptyCache
<1>4. /\ BaseInv /\ BaseAt(w) /\ Used' = Used /\ Alone(w) /\ seen' = seen \cup {w}
      /\ at'[w].step \notin Painting
  <2>1. BaseInv /\ BaseAt(w)
    BY DEF LineageInv, BaseInv
  <2> QED BY <1>1, <1>2, <1>3, <2>1 DEF BaseAt, Used, Shots, Alone, Painting
<1>5. BaseAt(w)'
  BY <1>2, <1>3, <1>4 DEF BaseAt, AtVideo, Painting
<1>6. ASSUME mishaps = 0 PROVE Whole'
  <2>1. Whole
    BY <1>6 DEF LineageInv
  <2>2. WholeAt(w)'
    BY <1>2, <1>3 DEF WholeAt, Painting
  <2> QED BY <1>1, <1>4, <2>1, <2>2, WholeQuiet
<1>7. ASSUME Solo(w) PROVE Solo(w)'
  BY <1>1, <1>2, <1>3, <1>7 DEF Solo, Painting
<1> QED BY <1>1, <1>4, <1>5, <1>6, <1>7, LineageStep DEF BaseInv

LEMMA DamageLineage ==
  ASSUME LineageInv, NEW x \in DOMAIN disk, Damage(x)
  PROVE  LineageInv'
<1>1. /\ UNCHANGED <<plan, mode, receipts, manifest, contents, cache, at, seen>>
      /\ disk' = [disk EXCEPT ![x] = 0] /\ mishaps' = mishaps + 1
  BY DEF Damage
<1>2. BaseInv /\ Used' = Used /\ Shots' = Shots
  BY <1>1 DEF LineageInv, Used, Shots
<1>3. mishaps' \in Nat /\ mishaps' # 0 /\ disk' \in [AssetIds(plan) -> Nat]
  BY <1>1, <1>2 DEF BaseInv
<1>4. \A w \in Servers : BaseAt(w)'
  BY <1>1, <1>2 DEF BaseInv, BaseAt, ShotOf, PackOf
<1>5. BaseInv'
  BY <1>1, <1>2, <1>3, <1>4 DEF BaseInv
<1>6. \A w \in Servers : Solo(w) => Solo(w)'
  BY <1>1 DEF Solo, FromCache
<1> QED BY <1>1, <1>3, <1>5, <1>6 DEF LineageInv

LEMMA StutterLineage ==
  ASSUME LineageInv, UNCHANGED vars
  PROVE  LineageInv'
<1>1. UNCHANGED <<plan, mode, mishaps, disk, contents, receipts, manifest, cache, at, seen>>
  BY DEF vars, fileVars
<1>2. Used' = Used /\ Shots' = Shots /\ SharedIds' = SharedIds
  BY <1>1 DEF Used, Shots, SharedIds
<1>3. \A w \in Servers : BaseAt(w) => BaseAt(w)'
  BY <1>1, <1>2 DEF BaseAt, ShotOf, PackOf
<1>4. BaseInv'
  BY <1>1, <1>2, <1>3 DEF LineageInv, BaseInv
<1>5. \A w \in Servers : Solo(w) => Solo(w)'
  BY <1>1 DEF Solo, FromCache
<1>6. \A y : \A refs : Right(y, refs) => Right(y, refs)'
  BY <1>1, <1>2 DEF Right
<1>7. Whole => Whole'
  <2>1. \A w \in Servers : WholeAt(w) => WholeAt(w)'
    BY <1>1, <1>2 DEF WholeAt, Right
  <2> QED BY <1>1, <1>2, <2>1 DEF Whole, Right
<1> QED BY <1>1, <1>4, <1>5, <1>7 DEF LineageInv

LEMMA StepsLineage ==
  ASSUME PaidInv, CompleteInv, LineageInv, NEW w \in Servers, Step(w)
  PROVE  LineageInv'
BY NodesLineage, VideoLineage, PaintingLineage, ReceiveLineage, LookLineage, PollLineage,
   StoryLineage, ReadLineage, ManifestLineage, CrashLineage DEF Step

\* What a manifest lists was made from what it lists.
THEOREM ManifestsAreClosed == Spec => []ListedLineage
<1>1. PaidInv /\ CompleteInv /\ LineageInv /\ [Next]_vars => PaidInv' /\ CompleteInv' /\ LineageInv'
  BY InvariantsStep, StepsLineage, DamageLineage, StutterLineage DEF Next
<1>2. LineageInv => ListedLineage
  <2> SUFFICES ASSUME LineageInv, NEW m \in manifest, mishaps = 0 \/ Cardinality(seen) = 1
               PROVE  Closed(m.listed)
    BY DEF ListedLineage, Closed
  <2>1. CASE mishaps = 0
    BY <2>1 DEF LineageInv, Whole
  <2>2. CASE Cardinality(seen) = 1
    <3>1. PICK w : seen = {w}
      BY <2>2, FS_Singleton DEF LineageInv, BaseInv
    <3>2. w \in Servers
      BY <3>1 DEF LineageInv, BaseInv
    <3> QED BY <3>1, <3>2 DEF LineageInv, Solo
  <2> QED BY <2>1, <2>2
<1> QED BY <1>1, <1>2, PaidInit, CompleteInit, LineageInit, PTL DEF Spec
=============================================================================
