------------------------ MODULE PluginRegistryProofs -------------------------
(***************************************************************************)
(* Proofs about PluginRegistry for any number of plugins, any capabilities *)
(* and any composition of them.  The activation order lists what is active *)
(* once, each plugin after all that it rests on.                           *)
(***************************************************************************)
EXTENDS PluginRegistry, FiniteSetTheorems, SequenceTheorems, TLAPS

Places == 1..Len(order)

\* The activation order and the statuses tell the same.
OrderInv ==
  /\ \A m, n \in Places : m # n => order[m] # order[n]
  /\ \A i \in Plugins : status[i] = "active" <=> \E n \in Places : order[n] = i

\* What a plugin rests on was started before it.
RestInv ==
  \A n \in Places : \A c \in requires[order[n]] : \A j \in Chosen(c) :
    \E m \in 1..(n - 1) : order[m] = j

\* Active plugins are held, and only the one whose start has failed is held besides.
HeldInv ==
  \A i \in Plugins :
    /\ status[i] = "active" => held[i]
    /\ held[i] => status[i] = "active" \/ (pc = "failing" /\ at = i)

\* Where the composition is, what has been started.
PhaseInv ==
  /\ pc \in {"registered", "rejected", "gone"} => order = << >>
  /\ pc \in {"registered", "pass", "compose", "open"} =>
       \A i \in Plugins : status[i] \in {"discovered", "waiting", "active"}
  /\ pc \in {"compose", "open"} => \A i \in Plugins : status[i] = "active"
  /\ pc = "failing" => at \in Plugins /\ status[at] = "failed" /\ Ready(at)

IInv == TypeOK /\ OrderInv /\ RestInv /\ HeldInv /\ PhaseInv

USE CompositionAssumption DEF Plugins, Status, PC

-----------------------------------------------------------------------------
(* Sequences without repetition.                                             *)

\* A sequence over 1..N that has nothing twice is no longer than N.
LEMMA OnceBounds ==
  ASSUME NEW N \in Nat, NEW s \in Seq(1..N),
         \A m, n \in 1..Len(s) : m # n => s[m] # s[n]
  PROVE  Len(s) <= N
<1>1. SUFFICES ASSUME Len(s) > N PROVE FALSE
  BY LenProperties
<1>2. Len(s) \in Nat /\ s \in [1..Len(s) -> 1..N]
  BY LenProperties
<1>3. IsFiniteSet(1..Len(s)) /\ Cardinality(1..Len(s)) = Len(s)
  BY <1>2, <1>1, FS_Interval
<1>4. IsFiniteSet(1..N) /\ Cardinality(1..N) = N
  BY FS_Interval
<1>5. PICK x, y \in 1..Len(s) : x # y /\ s[x] = s[y]
  <2>1. Cardinality(1..N) < Cardinality(1..Len(s))
    BY <1>1, <1>2, <1>3, <1>4
  <2>2. QED
    BY <1>2, <1>3, <1>4, <2>1, FS_PigeonHole, SMTT(30)
<1>6. QED
  BY <1>5

\* What is left of a sequence without its last element.
LEMMA FrontProperties ==
  ASSUME NEW S, NEW s \in Seq(S), s # << >>
  PROVE  /\ Len(s) \in Nat \ {0}
         /\ SubSeq(s, 1, Len(s) - 1) \in Seq(S)
         /\ Len(SubSeq(s, 1, Len(s) - 1)) = Len(s) - 1
         /\ \A n \in 1..(Len(s) - 1) : SubSeq(s, 1, Len(s) - 1)[n] = s[n]
<1>1. Len(s) \in Nat \ {0} /\ \A n \in 1..Len(s) : s[n] \in S
  BY LenProperties, EmptySeq, ElementOfSeq
<1>2. \A n \in 1..(Len(s) - 1) : n \in 1..Len(s) /\ s[1 + n - 1] = s[n]
  BY <1>1
<1>3. \A n \in 1..(Len(s) - 1) : s[n] \in S
  BY <1>1, <1>2
<1> DEFINE last == Len(s) - 1
<1>4. /\ SubSeq(s, 1, last) \in Seq(S)
      /\ Len(SubSeq(s, 1, last)) = IF 1 <= last THEN last - 1 + 1 ELSE 0
      /\ \A n \in 1..(last - 1 + 1) : SubSeq(s, 1, last)[n] = s[1 + n - 1]
  <2>1. 1 \in Int /\ last \in Int
    BY <1>1
  <2>2. QED
    BY <1>3, <2>1, SubSeqProperties
<1>5. last - 1 + 1 = last
  BY <1>1
<1>6. /\ SubSeq(s, 1, last) \in Seq(S)
      /\ Len(SubSeq(s, 1, last)) = last
  BY <1>1, <1>4, <1>5
<1>7. \A n \in 1..last : SubSeq(s, 1, last)[n] = s[n]
  BY <1>2, <1>4, <1>5
<1>8. QED
  BY <1>1, <1>6, <1>7

\* Starting plugin i: the order grows by i, and nothing else changes.
LEMMA AppendProps ==
  ASSUME NEW S, NEW s \in Seq(S), NEW i \in S
  PROVE  /\ Append(s, i) \in Seq(S) /\ Len(Append(s, i)) = Len(s) + 1 /\ Len(s) \in Nat
         /\ \A n \in 1..Len(s) : Append(s, i)[n] = s[n]
         /\ Append(s, i)[Len(s) + 1] = i
  BY AppendProperties, LenProperties

\* What a capability may rest on is fixed with the composition.
LEMMA ChosenFixed ==
  ASSUME UNCHANGED <<provides, bindings>>
  PROVE  \A c : Chosen(c)' = Chosen(c)
<1>1. \A c : Providers(c)' = Providers(c)
  BY DEF Providers
<1>2. QED
  BY <1>1 DEF Chosen

\* As long as the order stays, its plugins rest on what they rested on.
LEMMA RestFixed ==
  ASSUME RestInv, UNCHANGED <<composition, order>>
  PROVE  RestInv'
<1>1. \A c : Chosen(c)' = Chosen(c)
  BY ChosenFixed DEF composition
<1>2. QED
  BY <1>1 DEF RestInv, Places, composition

-----------------------------------------------------------------------------
(* Steps that change neither the order nor what is held.                     *)

LEMMA QuietPreserves ==
  ASSUME IInv, UNCHANGED <<composition, status, held, order>>,
         at' \in 1..(NumPlugins + 1), progress' \in BOOLEAN, pc' \in PC,
         pc # "failing", pc' # "failing", PhaseInv'
  PROVE  IInv'
<1> USE DEF composition
<1>1. TypeOK'
  BY DEF IInv, TypeOK
<1>2. OrderInv'
  BY DEF IInv, OrderInv, Places
<1>3. RestInv'
  BY RestFixed DEF IInv
<1>4. HeldInv'
  BY DEF IInv, HeldInv
<1>5. QED
  BY <1>1, <1>2, <1>3, <1>4 DEF IInv

LEMMA ValidatePreserves ==
  ASSUME IInv, Validate
  PROVE  IInv'
<1>1. PhaseInv'
  BY DEF IInv, PhaseInv, Validate, composition
<1>2. QED
  BY <1>1, QuietPreserves DEF IInv, TypeOK, Validate

LEMMA PassOverPreserves ==
  ASSUME IInv, PassOver
  PROVE  IInv'
<1>1. PhaseInv'
  BY DEF IInv, PhaseInv, PassOver, composition
<1>2. at' \in 1..(NumPlugins + 1)
  BY DEF IInv, TypeOK, PassOver
<1>3. QED
  BY <1>1, <1>2, QuietPreserves DEF IInv, TypeOK, PassOver

\* A pass that leaves nobody pending leaves everybody active.
LEMMA EndPassPreserves ==
  ASSUME IInv, EndPass
  PROVE  IInv'
<1>1. pc' \in {"compose", "pass", "dispose"} /\ at' \in 1..(NumPlugins + 1)
  BY DEF EndPass
<1>2. pc' = "compose" => \A i \in Plugins : status[i] = "active"
  BY DEF IInv, PhaseInv, EndPass, Pending
<1>3. PhaseInv'
  BY <1>1, <1>2 DEF IInv, PhaseInv, EndPass, composition
<1>4. QED
  BY <1>1, <1>3, QuietPreserves DEF IInv, TypeOK, EndPass

LEMMA DisposedPreserves ==
  ASSUME IInv, Disposed
  PROVE  IInv'
<1>1. PhaseInv'
  BY DEF IInv, PhaseInv, Disposed, composition
<1>2. QED
  BY <1>1, QuietPreserves DEF IInv, TypeOK, Disposed

LEMMA ComposePreserves ==
  ASSUME IInv, Compose
  PROVE  IInv'
<1>1. pc' \in {"open", "dispose"}
  BY DEF Compose
<1>2. PhaseInv'
  BY <1>1 DEF IInv, PhaseInv, Compose, composition
<1>3. QED
  BY <1>1, <1>2, QuietPreserves DEF IInv, TypeOK, Compose

LEMMA ClosePreserves ==
  ASSUME IInv, Close
  PROVE  IInv'
<1>1. PhaseInv'
  BY DEF IInv, PhaseInv, Close, composition
<1>2. QED
  BY <1>1, QuietPreserves DEF IInv, TypeOK, Close

-----------------------------------------------------------------------------
(* Steps that start and stop plugins.                                        *)

LEMMA WaitPreserves ==
  ASSUME IInv, Wait
  PROVE  IInv'
<1> USE DEF Wait, composition
<1>1. at \in Plugins /\ status[at] \in {"discovered", "waiting"}
  BY DEF IInv, TypeOK, Pending
<1>2. TypeOK'
  BY <1>1 DEF IInv, TypeOK
<1>3. OrderInv'
  BY <1>1 DEF IInv, TypeOK, OrderInv, Places
<1>4. RestInv'
  BY RestFixed DEF IInv
<1>5. HeldInv'
  BY <1>1 DEF IInv, TypeOK, HeldInv
<1>6. PhaseInv'
  BY <1>1 DEF IInv, TypeOK, PhaseInv
<1>7. QED
  BY <1>2, <1>3, <1>4, <1>5, <1>6 DEF IInv

\* start() returned: the plugin goes to the end of the order, behind all it rests on.
LEMMA StartedPreserves ==
  ASSUME IInv, Start, pc' = "pass"
  PROVE  IInv'
<1> DEFINE len == Len(order)
<1>1. at \in Plugins /\ status[at] \in {"discovered", "waiting"} /\ Ready(at)
  BY DEF IInv, TypeOK, Pending, Start
<1>2. /\ status' = [status EXCEPT ![at] = "active"]
      /\ held' = [held EXCEPT ![at] = TRUE]
      /\ order' = Append(order, at)
      /\ at' = at + 1 /\ progress' = TRUE /\ pc = "pass"
      /\ UNCHANGED <<provides, requires, bindings>>
  BY DEF Start, composition
<1>3. /\ order' \in Seq(Plugins) /\ Len(order') = len + 1 /\ len \in Nat
      /\ \A n \in 1..len : order'[n] = order[n]
      /\ order'[len + 1] = at
  BY <1>1, <1>2, AppendProps DEF IInv, TypeOK
<1>4. /\ \A i \in Plugins : i # at => status'[i] = status[i] /\ held'[i] = held[i]
      /\ status'[at] = "active" /\ held'[at] = TRUE
  BY <1>1, <1>2 DEF IInv, TypeOK
<1>5. \A n \in 1..len : order[n] # at
  BY <1>1 DEF IInv, OrderInv, Places
<1>6. \A m, n \in 1..(len + 1) : m # n => order'[m] # order'[n]
  <2>1. \A m, n \in 1..len : m # n => order[m] # order[n]
    BY DEF IInv, OrderInv, Places
  <2>2. \A n \in 1..(len + 1) : n \in 1..len \/ n = len + 1
    BY <1>3
  <2>3. \A m, n \in 1..len : m # n => order'[m] # order'[n]
    BY <1>3, <2>1
  <2>4. \A n \in 1..len : order'[n] # order'[len + 1]
    BY <1>3, <1>5
  <2>5. QED
    BY <2>2, <2>3, <2>4
<1>7. TypeOK'
  <2>1. Len(order') <= NumPlugins
    BY <1>3, <1>6, OnceBounds
  <2>2. QED
    BY <1>1, <1>2, <1>3, <2>1 DEF IInv, TypeOK
<1>8. OrderInv'
  <2>1. \A i \in Plugins : status'[i] = "active" => \E n \in 1..(len + 1) : order'[n] = i
    BY <1>3, <1>4 DEF IInv, OrderInv, Places
  <2>2. \A n \in 1..(len + 1) : status'[order'[n]] = "active"
    <3> TAKE n \in 1..(len + 1)
    <3>1. CASE n = len + 1
      BY <3>1, <1>3, <1>4
    <3>2. CASE n \in 1..len
      BY <3>2, <1>3, <1>4, <1>5, ElementOfSeq DEF IInv, TypeOK, OrderInv, Places
    <3>3. QED
      BY <3>1, <3>2, <1>3
  <2>3. QED
    BY <1>3, <1>6, <2>1, <2>2 DEF OrderInv, Places
<1>9. RestInv'
  <2>0. /\ requires' = requires /\ Len(order') = len + 1
        /\ \A c : Chosen(c)' = Chosen(c)
    BY <1>2, <1>3, ChosenFixed
  <2> HIDE DEF len
  <2>1. SUFFICES ASSUME NEW n \in 1..(len + 1), NEW c \in requires[order'[n]], NEW j \in Chosen(c)
                 PROVE  \E m \in 1..(n - 1) : order'[m] = j
    BY <2>0 DEF RestInv, Places
  <2> USE DEF len
  <2>2. CASE n = len + 1
    <3>1. status[j] = "active" /\ j \in Plugins
      BY <1>1, <1>3, <2>1, <2>2 DEF Ready, Chosen, Providers, IInv, TypeOK
    <3>2. PICK m \in 1..len : order[m] = j
      BY <3>1 DEF IInv, OrderInv, Places
    <3>3. QED
      BY <2>2, <3>2, <1>3
  <2>3. CASE n \in 1..len
    <3>1. PICK m \in 1..(n - 1) : order[m] = j
      BY <2>1, <2>3, <1>3 DEF IInv, RestInv, Places
    <3>2. m \in 1..len
      BY <2>3, <1>3
    <3>3. QED
      BY <3>1, <3>2, <1>3
  <2>4. QED
    BY <2>2, <2>3, <1>3
<1>10. HeldInv'
  BY <1>1, <1>2, <1>4 DEF IInv, HeldInv
<1>11. PhaseInv'
  BY <1>1, <1>2, <1>4 DEF IInv, PhaseInv
<1>12. QED
  BY <1>7, <1>8, <1>9, <1>10, <1>11 DEF IInv

\* start() raised: the plugin is held until it has been stopped.
LEMMA StartFailsPreserves ==
  ASSUME IInv, Start, pc' = "failing"
  PROVE  IInv'
<1>1. at \in Plugins /\ status[at] \in {"discovered", "waiting"} /\ Ready(at)
  BY DEF IInv, TypeOK, Pending, Start
<1>2. /\ status' = [status EXCEPT ![at] = "failed"]
      /\ held' = [held EXCEPT ![at] = TRUE] /\ pc = "pass"
      /\ UNCHANGED <<provides, requires, bindings, order, at, progress>>
  BY DEF Start, composition
<1>3. TypeOK'
  BY <1>1, <1>2 DEF IInv, TypeOK, Start
<1>4. OrderInv'
  BY <1>1, <1>2 DEF IInv, TypeOK, OrderInv, Places
<1>5. RestInv'
  BY <1>2, RestFixed DEF IInv, composition
<1>6. HeldInv'
  BY <1>1, <1>2 DEF IInv, TypeOK, HeldInv
<1>7. PhaseInv'
  <2>1. \A c \in requires[at] : \A j \in Chosen(c) : status'[j] = "active"
    BY <1>1, <1>2 DEF Ready, Chosen, Providers, IInv, TypeOK
  <2>2. Ready(at)'
    BY <1>2, <2>1 DEF Ready, Chosen, Providers
  <2>3. QED
    BY <1>1, <1>2, <2>2 DEF IInv, TypeOK, PhaseInv
<1>8. QED
  BY <1>3, <1>4, <1>5, <1>6, <1>7 DEF IInv

LEMMA StartPreserves ==
  ASSUME IInv, Start
  PROVE  IInv'
<1>1. pc' = "pass" \/ pc' = "failing"
  BY DEF Start
<1>2. QED
  BY <1>1, StartedPreserves, StartFailsPreserves

LEMMA StopFailedPreserves ==
  ASSUME IInv, StopFailed
  PROVE  IInv'
<1> USE DEF StopFailed, composition
<1>1. at \in Plugins /\ status[at] = "failed"
  BY DEF IInv, PhaseInv
<1>2. TypeOK'
  BY <1>1 DEF IInv, TypeOK
<1>3. OrderInv'
  BY DEF IInv, OrderInv, Places
<1>4. RestInv'
  BY RestFixed DEF IInv
<1>5. HeldInv'
  BY <1>1 DEF IInv, TypeOK, HeldInv
<1>6. PhaseInv'
  BY DEF PhaseInv
<1>7. QED
  BY <1>2, <1>3, <1>4, <1>5, <1>6 DEF IInv

\* The last of the order is stopped; nobody who is left rests on it.
LEMMA DisposePreserves ==
  ASSUME IInv, Dispose
  PROVE  IInv'
<1> DEFINE len == Len(order)
           last == order[len]
<1>1. /\ status' = [status EXCEPT ![last] = "disposed"]
      /\ held' = [held EXCEPT ![last] = FALSE]
      /\ pc = "dispose" /\ UNCHANGED <<provides, requires, bindings, pc, at, progress>>
  BY DEF Dispose, composition
<1>2. /\ len \in Nat \ {0}
      /\ order' \in Seq(Plugins) /\ Len(order') = len - 1
      /\ \A n \in 1..(len - 1) : order'[n] = order[n]
  BY FrontProperties DEF IInv, TypeOK, Dispose
<1>12. 1..(len - 1) \subseteq 1..len
  BY <1>2
<1>3. last \in Plugins
  BY <1>2, ElementOfSeq DEF IInv, TypeOK
<1>4. /\ \A i \in Plugins : i # last => status'[i] = status[i] /\ held'[i] = held[i]
      /\ status'[last] = "disposed" /\ held'[last] = FALSE
  BY <1>1, <1>3 DEF IInv, TypeOK
<1>5. \A n \in 1..(len - 1) : order[n] # last
  <2>1. \A m, n \in 1..len : m # n => order[m] # order[n]
    BY DEF IInv, OrderInv, Places
  <2>2. len \in 1..len /\ \A n \in 1..(len - 1) : n \in 1..len /\ n # len
    BY <1>2
  <2>3. QED
    BY <2>1, <2>2
<1>6. TypeOK'
  BY <1>1, <1>2, <1>3 DEF IInv, TypeOK
<1>7. OrderInv'
  <2>1. \A m, n \in 1..(len - 1) : m # n => order'[m] # order'[n]
    BY <1>2, <1>12 DEF IInv, OrderInv, Places
  <2>2. \A i \in Plugins : status'[i] = "active" => \E n \in 1..(len - 1) : order'[n] = i
    <3>1. SUFFICES ASSUME NEW i \in Plugins, status'[i] = "active"
                   PROVE  \E n \in 1..(len - 1) : order'[n] = i
      OBVIOUS
    <3>2. i # last /\ status[i] = "active"
      BY <1>4, <3>1
    <3>3. PICK n \in 1..len : order[n] = i
      BY <3>2 DEF IInv, OrderInv, Places
    <3>4. n \in 1..(len - 1)
      BY <1>2, <3>2, <3>3
    <3>5. QED
      BY <1>2, <3>3, <3>4
  <2>3. \A n \in 1..(len - 1) : order'[n] \in Plugins /\ status'[order'[n]] = "active"
    <3> TAKE n \in 1..(len - 1)
    <3>1. n \in 1..len /\ order'[n] = order[n] /\ order[n] # last
      BY <1>2, <1>5, <1>12
    <3>2. order[n] \in Plugins
      BY <3>1, ElementOfSeq DEF IInv, TypeOK
    <3>3. status[order[n]] = "active"
      BY <3>1, <3>2 DEF IInv, OrderInv, Places
    <3>4. QED
      BY <1>4, <3>1, <3>2, <3>3
  <2>4. QED
    BY <1>2, <2>1, <2>2, <2>3 DEF OrderInv, Places
<1>8. RestInv'
  <2>0. /\ requires' = requires /\ Len(order') = len - 1
        /\ \A c : Chosen(c)' = Chosen(c)
        /\ \A n \in 1..(len - 1) : order'[n] = order[n]
    BY <1>1, <1>2, ChosenFixed
  <2> HIDE DEF len
  <2>1. SUFFICES ASSUME NEW n \in 1..(len - 1), NEW c \in requires[order[n]], NEW j \in Chosen(c)
                 PROVE  \E m \in 1..(n - 1) : order'[m] = j
    BY <2>0 DEF RestInv, Places
  <2> USE DEF len
  <2>2. PICK m \in 1..(n - 1) : order[m] = j
    BY <1>12, <2>1 DEF IInv, RestInv, Places
  <2>3. m \in 1..(len - 1)
    BY <1>2, <2>1
  <2>4. QED
    BY <1>2, <2>2, <2>3
<1>9. HeldInv'
  BY <1>1, <1>4 DEF IInv, HeldInv
<1>10. PhaseInv'
  BY <1>1 DEF PhaseInv
<1>11. QED
  BY <1>6, <1>7, <1>8, <1>9, <1>10 DEF IInv

-----------------------------------------------------------------------------
(* The theorems.                                                             *)

LEMMA InitEstablishes == Init => IInv
<1>1. SUFFICES ASSUME Init PROVE IInv
  OBVIOUS
<1>2. order = << >> /\ Places = {}
  BY <1>1, EmptySeq DEF Init, Places
<1>3. TypeOK
  <2>1. order \in Seq(Plugins) /\ Len(order) = 0
    BY <1>2, EmptySeq
  <2>2. provides \in [Plugins -> SUBSET Capabilities]
    BY <1>1 DEF Init
  <2>3. at \in 1..(NumPlugins + 1) /\ 0 <= NumPlugins
    BY <1>1 DEF Init
  <2>4. status \in [Plugins -> Status] /\ held \in [Plugins -> BOOLEAN] /\ progress \in BOOLEAN
    BY <1>1 DEF Init
  <2>5. requires \in [Plugins -> SUBSET Capabilities] /\ bindings \in [Capabilities -> Plugins \cup {0}]
    BY <1>1 DEF Init
  <2>6. pc \in PC
    BY <1>1 DEF Init
  <2>7. QED
    BY <2>1, <2>2, <2>3, <2>4, <2>5, <2>6 DEF TypeOK
<1>4. OrderInv /\ RestInv
  BY <1>1, <1>2 DEF Init, OrderInv, RestInv
<1>5. HeldInv /\ PhaseInv
  BY <1>1 DEF Init, HeldInv, PhaseInv
<1>6. QED
  BY <1>3, <1>4, <1>5 DEF IInv

LEMMA StutterPreserves ==
  ASSUME IInv, UNCHANGED vars
  PROVE  IInv'
<1> USE DEF vars, composition
<1>1. TypeOK' /\ HeldInv'
  BY DEF IInv, TypeOK, HeldInv
<1>2. OrderInv'
  BY DEF IInv, OrderInv, Places
<1>3. RestInv'
  BY RestFixed DEF IInv
<1>4. PhaseInv'
  <2>1. Ready(at) => Ready(at)'
    BY ChosenFixed DEF Ready
  <2>2. QED
    BY <2>1 DEF IInv, PhaseInv
<1>5. QED
  BY <1>1, <1>2, <1>3, <1>4 DEF IInv

\* IInv is inductive: no step of the composition, of a pass or of the disposal breaks it.
THEOREM Invariance == Spec => []IInv
<1>1. IInv /\ [Next]_vars => IInv'
  BY ValidatePreserves, WaitPreserves, StartPreserves, PassOverPreserves, EndPassPreserves,
     StopFailedPreserves, DisposePreserves, DisposedPreserves, ComposePreserves,
     ClosePreserves, StutterPreserves DEF Next, Steps
<1>2. QED
  BY InitEstablishes, <1>1, PTL DEF Spec

\* Every variable keeps its type; a plugin is started at most once (registry.py:89-141).
THEOREM TypeCorrect == Spec => []TypeOK
<1>1. IInv => TypeOK
  BY DEF IInv
<1>2. QED
  BY Invariance, <1>1, PTL

\* While a plugin runs, what it rests on runs too (registry.py:97-99, 143-152, 187-199).
THEOREM Outlive == Spec => []ProvidersOutlive
<1>1. IInv => ProvidersOutlive
  <2>1. SUFFICES ASSUME IInv, NEW i \in Plugins, held[i], NEW c \in requires[i], NEW j \in Chosen(c)
                 PROVE  held[j] /\ status[j] = "active"
    BY DEF ProvidersOutlive
  <2>2. j \in Plugins
    BY <2>1 DEF IInv, TypeOK, Chosen, Providers
  <2>3. status[j] = "active"
    <3>1. CASE pc = "failing" /\ at = i
      BY <2>1, <3>1 DEF IInv, PhaseInv, Ready
    <3>2. CASE status[i] = "active"
      <4>1. PICK n \in Places : order[n] = i
        BY <2>1, <3>2 DEF IInv, OrderInv
      <4>2. PICK m \in 1..(n - 1) : order[m] = j
        BY <2>1, <4>1 DEF IInv, RestInv
      <4>3. m \in Places
        BY <2>1, <4>1, <4>2, LenProperties DEF Places, IInv, TypeOK
      <4>4. QED
        BY <2>1, <2>2, <4>2, <4>3 DEF IInv, OrderInv
    <3>3. QED
      BY <2>1, <3>1, <3>2 DEF IInv, HeldInv
  <2>4. QED
    BY <2>1, <2>2, <2>3 DEF IInv, HeldInv
<1>2. QED
  BY Invariance, <1>1, PTL

\* A composition that is given up or closed holds nothing, one that is open holds all of
\* its plugins (registry.py:109-141, 187-199).
THEOREM NothingLeft == Spec => []AllOrNothing
<1>1. IInv => AllOrNothing
  <2>1. ASSUME IInv, pc \in {"gone", "rejected"}, NEW i \in Plugins
        PROVE  ~held[i]
    <3>1. Places = {}
      BY <2>1 DEF IInv, PhaseInv, Places
    <3>2. QED
      BY <2>1, <3>1 DEF IInv, OrderInv, HeldInv
  <2>2. ASSUME IInv, pc \in {"compose", "open"}, NEW i \in Plugins
        PROVE  held[i] /\ status[i] = "active"
    BY <2>2 DEF IInv, PhaseInv, HeldInv
  <2>3. QED
    BY <2>1, <2>2 DEF AllOrNothing
<1>2. QED
  BY Invariance, <1>1, PTL
=============================================================================
