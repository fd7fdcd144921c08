------------------------ MODULE WorkflowGraphProofs -------------------------
(***************************************************************************)
(* Proofs about the graphs that are compiled: every link of the UI graph   *)
(* and of its subgraphs is listed at both its ends, and the API workflow   *)
(* and the UI graph are one graph.                                         *)
(***************************************************************************)
EXTENDS WorkflowCompileProofs

-----------------------------------------------------------------------------
(* The links of a level                                                      *)

\* A link, a node and a level of a graph whose nodes are of the kinds K.
Wire == [origin : Int, oslot : Int, target : Int, tslot : Int]
NodeOf(K) == [kind : K, ins : Seq(Nat), outs : Seq(Seq(Nat))]
Level(K) == [nodes : Seq(NodeOf(K)), links : Seq(Wire), inputs : Seq(Seq(Nat)), outputs : Seq(Seq(Nat))]

\* Link l is listed at output s of node n, or at input s of the subgraph.
Outlet(g, n, s) == n \in 1..Len(g.nodes) /\ s \in {1, 2} /\ s \in DOMAIN g.nodes[n].outs
Inlet(g, n, s) == n \in 1..Len(g.nodes) /\ s \in DOMAIN g.nodes[n].ins
OutAt(g, n, s, l) ==
  \/ Outlet(g, n, s) /\ l \in ToSet(g.nodes[n].outs[s])
  \/ n = 0 /\ s \in DOMAIN g.inputs /\ l \in ToSet(g.inputs[s])
\* Link l # 0 is entered at input s of node n, or at output s of the subgraph.
InAt(g, n, s, l) ==
  /\ l # 0
  /\ \/ Inlet(g, n, s) /\ l = g.nodes[n].ins[s]
     \/ n = -1 /\ s \in DOMAIN g.outputs /\ l \in ToSet(g.outputs[s])
OriginAt(g, n, s, l) == l \in 1..Len(g.links) /\ g.links[l].origin = n /\ g.links[l].oslot = s
TargetAt(g, n, s, l) == l \in 1..Len(g.links) /\ g.links[l].target = n /\ g.links[l].tslot = s
\* The links without their numbers.
Edges(g) == {<<g.links[l].origin, g.links[l].oslot, g.links[l].target, g.links[l].tslot>> : l \in 1..Len(g.links)}

\* h has the nodes of g and their slots.
SameNodes(g, h) ==
  /\ Len(h.nodes) = Len(g.nodes)
  /\ \A n \in 1..Len(g.nodes) : h.nodes[n].kind = g.nodes[n].kind
  /\ \A n, s : /\ Outlet(h, n, s) <=> Outlet(g, n, s)
               /\ Inlet(h, n, s) <=> Inlet(g, n, s)
  /\ DOMAIN h.inputs = DOMAIN g.inputs /\ DOMAIN h.outputs = DOMAIN g.outputs

\* What the parts of a level are.
LEMMA LevelIs ==
  ASSUME NEW K, NEW g \in Level(K)
  PROVE  /\ g = [nodes |-> g.nodes, links |-> g.links, inputs |-> g.inputs, outputs |-> g.outputs]
         /\ g.nodes \in Seq(NodeOf(K)) /\ Len(g.nodes) \in Nat /\ DOMAIN g.nodes = 1..Len(g.nodes)
         /\ g.links \in Seq(Wire) /\ Len(g.links) \in Nat /\ DOMAIN g.links = 1..Len(g.links)
         /\ g.inputs \in Seq(Seq(Nat)) /\ g.outputs \in Seq(Seq(Nat))
         /\ \A n \in 1..Len(g.nodes) : 
              /\ g.nodes[n] = [kind |-> g.nodes[n].kind, ins |-> g.nodes[n].ins, outs |-> g.nodes[n].outs]
              /\ g.nodes[n].kind \in K /\ g.nodes[n].ins \in Seq(Nat) /\ g.nodes[n].outs \in Seq(Seq(Nat))
<1>1. PICK ns \in Seq(NodeOf(K)), ls \in Seq(Wire), i \in Seq(Seq(Nat)), o \in Seq(Seq(Nat)) :
         g = [nodes |-> ns, links |-> ls, inputs |-> i, outputs |-> o]
  <2>1. \A x \in Level(K) : /\ x = [nodes |-> x.nodes, links |-> x.links, inputs |-> x.inputs, outputs |-> x.outputs]
                            /\ x.nodes \in Seq(NodeOf(K)) /\ x.links \in Seq(Wire)
                            /\ x.inputs \in Seq(Seq(Nat)) /\ x.outputs \in Seq(Seq(Nat))
    BY DEF Level
  <2> QED BY <2>1
<1>2. Len(ns) \in Nat /\ DOMAIN ns = 1..Len(ns) /\ Len(ls) \in Nat /\ DOMAIN ls = 1..Len(ls)
  OBVIOUS
<1>3. \A n \in 1..Len(ns) : ns[n] \in NodeOf(K)
  OBVIOUS
<1>4. \A x \in NodeOf(K) : /\ x = [kind |-> x.kind, ins |-> x.ins, outs |-> x.outs]
                           /\ x.kind \in K /\ x.ins \in Seq(Nat) /\ x.outs \in Seq(Seq(Nat))
  BY DEF NodeOf
<1>5. g.nodes = ns /\ g.links = ls /\ g.inputs = i /\ g.outputs = o
  BY <1>1
<1> QED BY <1>1, <1>2, <1>3, <1>4, <1>5

\* A link that nothing lists yet.
LEMMA AddLinkDoes ==
  ASSUME NEW K, NEW g \in Level(K), NEW o \in Int, NEW os \in Int, NEW t \in Int, NEW ts \in Int,
         NEW h, h = AddLink(g, o, os, t, ts)
  PROVE  /\ h \in Level(K) /\ SameNodes(g, h) /\ Len(h.links) = Len(g.links) + 1
         /\ h.nodes = g.nodes
         /\ \A n, s, l :
              /\ OutAt(h, n, s, l) <=> OutAt(g, n, s, l)
              /\ InAt(h, n, s, l) <=> InAt(g, n, s, l)
              /\ OriginAt(h, n, s, l) <=> OriginAt(g, n, s, l) \/ (n = o /\ s = os /\ l = Len(g.links) + 1)
              /\ TargetAt(h, n, s, l) <=> TargetAt(g, n, s, l) \/ (n = t /\ s = ts /\ l = Len(g.links) + 1)
         /\ Edges(h) = Edges(g) \cup {<<o, os, t, ts>>}
<1>1. PICK ns \in Seq(NodeOf(K)), ins \in Seq(Seq(Nat)), outs \in Seq(Seq(Nat)), ls \in Seq(Wire) :
         g = [nodes |-> ns, links |-> ls, inputs |-> ins, outputs |-> outs]
  BY LevelIs
<1>2. PICK w \in Wire : w = [origin |-> o, oslot |-> os, target |-> t, tslot |-> ts]
  BY DEF Wire
<1>3. PICK k : k = Append(ls, w)
  OBVIOUS
<1>4. /\ k \in Seq(Wire) /\ Len(k) = Len(ls) + 1 /\ Len(ls) \in Nat
      /\ \A i \in 1..Len(ls) : k[i] = ls[i]
      /\ k[Len(ls) + 1] = w
  BY <1>3
<1>5. h = [nodes |-> ns, links |-> k, inputs |-> ins, outputs |-> outs]
  BY <1>1, <1>2, <1>3 DEF AddLink
<1>6. h \in Level(K)
  BY <1>1, <1>4, <1>5 DEF Level
<1>7. h.nodes = g.nodes /\ h.inputs = g.inputs /\ h.outputs = g.outputs /\ h.links = k /\ g.links = ls
  BY <1>1, <1>5
<1>8. SameNodes(g, h)
  BY <1>7 DEF SameNodes, Outlet, Inlet
<1>9. \A n, s, l : /\ OutAt(h, n, s, l) <=> OutAt(g, n, s, l)
                   /\ InAt(h, n, s, l) <=> InAt(g, n, s, l)
  BY <1>7 DEF OutAt, InAt, Outlet, Inlet
<1>10. /\ \A l \in 1..Len(k) : l \in 1..Len(ls) \/ l = Len(ls) + 1
       /\ \A l \in 1..Len(ls) : l \in 1..Len(k)
       /\ Len(ls) + 1 \in 1..Len(k)
  BY <1>4
<1>11. Len(ls) + 1 \notin 1..Len(ls)
  BY <1>4
<1>12. w.origin = o /\ w.oslot = os /\ w.target = t /\ w.tslot = ts
  BY <1>2
<1>13. \A n, s, l :
              /\ OriginAt(h, n, s, l) <=> OriginAt(g, n, s, l) \/ (n = o /\ s = os /\ l = Len(g.links) + 1)
              /\ TargetAt(h, n, s, l) <=> TargetAt(g, n, s, l) \/ (n = t /\ s = ts /\ l = Len(g.links) + 1)
  BY <1>4, <1>7, <1>10, <1>11, <1>12 DEF OriginAt, TargetAt
<1>14. Edges(h) = Edges(g) \cup {<<o, os, t, ts>>}
  <2>1. ASSUME NEW e \in Edges(h) PROVE e \in Edges(g) \cup {<<o, os, t, ts>>}
    <3>1. PICK l \in 1..Len(k) : e = <<k[l].origin, k[l].oslot, k[l].target, k[l].tslot>>
      BY <1>7, <2>1 DEF Edges
    <3>2. CASE l \in 1..Len(ls)
      BY <1>4, <1>7, <3>1, <3>2 DEF Edges
    <3>3. CASE l = Len(ls) + 1
      BY <1>4, <1>12, <3>1, <3>3
    <3> QED BY <1>10, <3>2, <3>3
  <2>2. ASSUME NEW e \in Edges(g) PROVE e \in Edges(h)
    BY <1>4, <1>7, <1>10 DEF Edges
  <2>3. <<o, os, t, ts>> \in Edges(h)
    BY <1>4, <1>7, <1>10, <1>12 DEF Edges
  <2> QED BY <2>1, <2>2, <2>3
<1> QED BY <1>4, <1>6, <1>7, <1>8, <1>9, <1>13, <1>14

LEMMA AppendSet ==
  ASSUME NEW q \in Seq(Nat), NEW l \in Nat, NEW r, r = Append(q, l)
  PROVE  r \in Seq(Nat) /\ ToSet(r) = ToSet(q) \cup {l}
<1>1. r \in Seq(Nat) /\ Len(r) = Len(q) + 1 /\ Len(q) \in Nat /\ DOMAIN r = 1..Len(r) /\ DOMAIN q = 1..Len(q)
      /\ (\A x \in 1..Len(q) : r[x] = q[x]) /\ r[Len(q) + 1] = l
  OBVIOUS
<1>2. /\ \A x \in 1..Len(r) : x \in 1..Len(q) \/ x = Len(q) + 1
      /\ \A x \in 1..Len(q) : x \in 1..Len(r)
      /\ Len(q) + 1 \in 1..Len(r)
  BY <1>1
<1> QED BY <1>1, <1>2 DEF ToSet

\* A slot of node n whose link is not there yet.
Free(g, n, s) == Inlet(g, n, s) /\ g.nodes[n].ins[s] = 0

\* The last link is listed at an output, an input, an entry or an exit.
LEMMA AtOutputDoes ==
  ASSUME NEW K, NEW g \in Level(K), NEW n, NEW s, Outlet(g, n, s), NEW h, h = AtOutput(g, n, s)
  PROVE  /\ h \in Level(K) /\ SameNodes(g, h) /\ h.links = g.links
         /\ \A m \in 1..Len(g.nodes) : h.nodes[m].ins = g.nodes[m].ins
         /\ \A a, b, l :
              /\ OutAt(h, a, b, l) <=> OutAt(g, a, b, l) \/ (a = n /\ b = s /\ l = Len(g.links))
              /\ InAt(h, a, b, l) <=> InAt(g, a, b, l)
<1>1. PICK ns \in Seq(NodeOf(K)), ins \in Seq(Seq(Nat)), outs \in Seq(Seq(Nat)), ls \in Seq(Wire) :
         g = [nodes |-> ns, links |-> ls, inputs |-> ins, outputs |-> outs]
  BY LevelIs
<1>2. PICK N \in Nat, L \in Nat : N = Len(ns) /\ DOMAIN ns = 1..N /\ L = Len(ls) /\ \A m \in 1..N : ns[m] \in NodeOf(K)
  <2>1. Len(ns) \in Nat /\ DOMAIN ns = 1..Len(ns) /\ Len(ls) \in Nat /\ \A m \in 1..Len(ns) : ns[m] \in NodeOf(K)
    OBVIOUS
  <2> QED BY <2>1, Zenon
<1>3. g.nodes = ns /\ g.links = ls /\ g.inputs = ins /\ g.outputs = outs
  BY <1>1
<1>4. n \in 1..N /\ s \in {1, 2} /\ s \in DOMAIN ns[n].outs
  BY <1>2, <1>3 DEF Outlet
<1>5. PICK kd \in K, i \in Seq(Nat), o \in Seq(Seq(Nat)) : ns[n] = [kind |-> kd, ins |-> i, outs |-> o]
  BY <1>2, <1>4 DEF NodeOf
<1> DEFINE y == ns[n]
<1>6. y.kind = kd /\ y.ins = i /\ y.outs = o
  BY <1>5
<1>7. PICK q \in Seq(Nat) : q = o[s]
  BY <1>4, <1>5
<1>8. PICK r : r = Append(q, L)
  OBVIOUS
<1>9. r \in Seq(Nat) /\ ToSet(r) = ToSet(q) \cup {L}
  BY <1>8, AppendSet
<1>10. PICK o2 : o2 = [o EXCEPT ![s] = r]
  OBVIOUS
<1>11. o2 \in Seq(Seq(Nat)) /\ DOMAIN o2 = DOMAIN o /\ o2[s] = r /\ \A b \in DOMAIN o : b # s => o2[b] = o[b]
  BY <1>4, <1>5, <1>9, <1>10
<1>12. PICK x : x = [kind |-> kd, ins |-> i, outs |-> o2]
  OBVIOUS
<1>13. x.kind = kd /\ x.ins = i /\ x.outs = o2
  BY <1>12
<1>14. x \in NodeOf(K)
  BY <1>11, <1>12 DEF NodeOf
<1>15. PICK ms : ms = [ns EXCEPT ![n] = x]
  OBVIOUS
<1>16. ms \in Seq(NodeOf(K)) /\ Len(ms) = N /\ DOMAIN ms = 1..N /\ ms[n] = x /\ \A m \in 1..N : m # n => ms[m] = ns[m]
  BY <1>2, <1>4, <1>14, <1>15
<1>17. h = [nodes |-> ms, links |-> ls, inputs |-> ins, outputs |-> outs]
  <2>1. h = [g EXCEPT !.nodes =
               [g.nodes EXCEPT ![n] =
                 [g.nodes[n] EXCEPT !.outs = [g.nodes[n].outs EXCEPT ![s] = Append(g.nodes[n].outs[s], Len(g.links))]]]]
    BY DEF AtOutput
  <2>2. g.nodes[n] = ns[n] /\ g.nodes[n].outs = o /\ g.nodes[n].outs[s] = q /\ Len(g.links) = L
    BY <1>2, <1>3, <1>6, <1>7
  <2>3. [g.nodes[n].outs EXCEPT ![s] = Append(g.nodes[n].outs[s], Len(g.links))] = o2
    BY <1>8, <1>10, <2>2
  <2>4. PICK z : z = ns[n]
    OBVIOUS
  <2>5. [z EXCEPT !.outs = o2] = x
    <3>1. z = [kind |-> kd, ins |-> i, outs |-> o]
      BY <1>5, <2>4
    <3> QED BY <1>12, <3>1, SMTT(30)
  <2>6. [g.nodes EXCEPT ![n] =
          [g.nodes[n] EXCEPT !.outs = [g.nodes[n].outs EXCEPT ![s] = Append(g.nodes[n].outs[s], Len(g.links))]]] = ms
    BY <1>3, <1>15, <2>3, <2>4, <2>5, Zenon
  <2>7. h = [g EXCEPT !.nodes = ms]
    BY <2>1, <2>6, Zenon
  <2> QED BY <1>1, <2>7
<1>18. h.nodes = ms /\ h.links = ls /\ h.inputs = ins /\ h.outputs = outs
  BY <1>17
<1>19. h \in Level(K)
  BY <1>16, <1>17 DEF Level
<1>20. \A m \in 1..N : /\ ms[m].kind = ns[m].kind /\ ms[m].ins = ns[m].ins
                       /\ DOMAIN ms[m].outs = DOMAIN ns[m].outs
  BY <1>6, <1>11, <1>13, <1>16
<1>21. SameNodes(g, h)
  BY <1>2, <1>3, <1>16, <1>18, <1>20 DEF SameNodes, Outlet, Inlet
<1>22. \A a, b, l : InAt(h, a, b, l) <=> InAt(g, a, b, l)
  BY <1>2, <1>3, <1>16, <1>18, <1>20 DEF InAt, Inlet
<1>23. ASSUME NEW a, NEW b, NEW l
      PROVE OutAt(h, a, b, l) <=> OutAt(g, a, b, l) \/ (a = n /\ b = s /\ l = L)
  <2>1. Outlet(h, a, b) <=> Outlet(g, a, b)
    BY <1>21 DEF SameNodes
  <2>2. CASE Outlet(g, a, b)
    <3>1. a \in 1..N /\ b \in DOMAIN ns[a].outs
      BY <1>2, <1>3, <2>2 DEF Outlet
    <3>2. CASE a = n /\ b = s
      <4>1. ms[a].outs[b] = r /\ ns[a].outs[b] = q
        BY <1>5, <1>7, <1>11, <1>12, <1>16, <3>2
      <4> QED BY <1>3, <1>9, <1>18, <2>1, <2>2, <3>2, <4>1 DEF OutAt
    <3>3. CASE ~(a = n /\ b = s)
      <4>1. ms[a].outs[b] = ns[a].outs[b]
        BY <1>6, <1>11, <1>13, <1>16, <3>1, <3>3
      <4> QED BY <1>3, <1>18, <2>1, <2>2, <3>3, <4>1 DEF OutAt
    <3> QED BY <3>2, <3>3
  <2>3. CASE ~Outlet(g, a, b)
    <3>1. ~(a = n /\ b = s)
      BY <2>3
    <3> QED BY <1>3, <1>18, <2>1, <2>3, <3>1 DEF OutAt
  <2> QED BY <2>2, <2>3
<1> QED BY <1>2, <1>3, <1>18, <1>19, <1>20, <1>21, <1>22, <1>23

LEMMA AtInputDoes ==
  ASSUME NEW K, NEW g \in Level(K), NEW n, NEW s, Inlet(g, n, s), NEW h, h = AtInput(g, n, s)
  PROVE  /\ h \in Level(K) /\ SameNodes(g, h) /\ h.links = g.links
         /\ \A a, b, l : OutAt(h, a, b, l) <=> OutAt(g, a, b, l)
         /\ \A a, b : Free(g, a, b) /\ ~(a = n /\ b = s) => Free(h, a, b)
         /\ Free(g, n, s) /\ Len(g.links) # 0 =>
              \A a, b, l : InAt(h, a, b, l) <=> InAt(g, a, b, l) \/ (a = n /\ b = s /\ l = Len(g.links))
<1>1. PICK ns \in Seq(NodeOf(K)), ins \in Seq(Seq(Nat)), outs \in Seq(Seq(Nat)), ls \in Seq(Wire) :
         g = [nodes |-> ns, links |-> ls, inputs |-> ins, outputs |-> outs]
  BY LevelIs
<1>2. PICK N \in Nat, L \in Nat : N = Len(ns) /\ DOMAIN ns = 1..N /\ L = Len(ls) /\ \A m \in 1..N : ns[m] \in NodeOf(K)
  <2>1. Len(ns) \in Nat /\ DOMAIN ns = 1..Len(ns) /\ Len(ls) \in Nat /\ \A m \in 1..Len(ns) : ns[m] \in NodeOf(K)
    OBVIOUS
  <2> QED BY <2>1, Zenon
<1>3. g.nodes = ns /\ g.links = ls /\ g.inputs = ins /\ g.outputs = outs
  BY <1>1
<1>4. n \in 1..N /\ s \in DOMAIN ns[n].ins
  BY <1>2, <1>3 DEF Inlet
<1>5. PICK kd \in K, i \in Seq(Nat), o \in Seq(Seq(Nat)) : ns[n] = [kind |-> kd, ins |-> i, outs |-> o]
  BY <1>2, <1>4 DEF NodeOf
<1> DEFINE y == ns[n]
<1>6. y.kind = kd /\ y.ins = i /\ y.outs = o
  BY <1>5
<1>7. PICK i2 : i2 = [i EXCEPT ![s] = L]
  OBVIOUS
<1>8. i2 \in Seq(Nat) /\ DOMAIN i2 = DOMAIN i /\ i2[s] = L /\ \A b \in DOMAIN i : b # s => i2[b] = i[b]
  BY <1>4, <1>6, <1>7
<1>9. PICK x : x = [kind |-> kd, ins |-> i2, outs |-> o]
  OBVIOUS
<1>10. x.kind = kd /\ x.ins = i2 /\ x.outs = o
  BY <1>9
<1>11. x \in NodeOf(K)
  BY <1>8, <1>9 DEF NodeOf
<1>12. PICK ms : ms = [ns EXCEPT ![n] = x]
  OBVIOUS
<1>13. ms \in Seq(NodeOf(K)) /\ Len(ms) = N /\ DOMAIN ms = 1..N /\ ms[n] = x /\ \A m \in 1..N : m # n => ms[m] = ns[m]
  BY <1>2, <1>4, <1>11, <1>12
<1>14. h = [nodes |-> ms, links |-> ls, inputs |-> ins, outputs |-> outs]
  <2>1. h = [g EXCEPT !.nodes =
               [g.nodes EXCEPT ![n] = [g.nodes[n] EXCEPT !.ins = [g.nodes[n].ins EXCEPT ![s] = Len(g.links)]]]]
    BY DEF AtInput
  <2>2. [g.nodes[n].ins EXCEPT ![s] = Len(g.links)] = i2
    BY <1>2, <1>3, <1>6, <1>7
  <2>3. PICK z : z = ns[n]
    OBVIOUS
  <2>4. [z EXCEPT !.ins = i2] = x
    <3>1. z = [kind |-> kd, ins |-> i, outs |-> o]
      BY <1>5, <2>3
    <3> QED BY <1>9, <3>1
  <2>5. [g.nodes EXCEPT ![n] = [g.nodes[n] EXCEPT !.ins = [g.nodes[n].ins EXCEPT ![s] = Len(g.links)]]] = ms
    BY <1>3, <1>12, <2>2, <2>3, <2>4, Zenon
  <2>6. h = [g EXCEPT !.nodes = ms]
    BY <2>1, <2>5, Zenon
  <2> QED BY <1>1, <2>6
<1>15. h.nodes = ms /\ h.links = ls /\ h.inputs = ins /\ h.outputs = outs
  BY <1>14
<1>16. h \in Level(K)
  BY <1>13, <1>14 DEF Level
<1>17. \A m \in 1..N : /\ ms[m].kind = ns[m].kind /\ ms[m].outs = ns[m].outs
                       /\ DOMAIN ms[m].ins = DOMAIN ns[m].ins
  BY <1>6, <1>8, <1>10, <1>13
<1>18. SameNodes(g, h)
  BY <1>2, <1>3, <1>13, <1>15, <1>17 DEF SameNodes, Outlet, Inlet
<1>19. \A a, b, l : OutAt(h, a, b, l) <=> OutAt(g, a, b, l)
  BY <1>2, <1>3, <1>13, <1>15, <1>17 DEF OutAt, Outlet
<1>20. ms[n].ins[s] = L
  BY <1>8, <1>10, <1>13
<1>21. ASSUME NEW a, NEW b, Inlet(g, a, b), ~(a = n /\ b = s) PROVE h.nodes[a].ins[b] = g.nodes[a].ins[b]
  <2>1. a \in 1..N /\ b \in DOMAIN ns[a].ins
    BY <1>2, <1>3, <1>21 DEF Inlet
  <2>2. ms[a].ins[b] = ns[a].ins[b]
    BY <1>6, <1>8, <1>10, <1>13, <1>21, <2>1
  <2> QED BY <1>3, <1>15, <2>2
<1>22. \A a, b : Inlet(h, a, b) <=> Inlet(g, a, b)
  BY <1>18 DEF SameNodes
<1>23. \A a, b : Free(g, a, b) /\ ~(a = n /\ b = s) => Free(h, a, b)
  BY <1>21, <1>22 DEF Free
<1>24. ASSUME Free(g, n, s), L # 0, NEW a, NEW b, NEW l
       PROVE  InAt(h, a, b, l) <=> InAt(g, a, b, l) \/ (a = n /\ b = s /\ l = L)
  <2>1. n # -1
    BY <1>4
  <2>2. CASE a = n /\ b = s
    <3>1. Inlet(h, n, s) /\ h.nodes[n].ins[s] = L
      BY <1>15, <1>20, <1>22
    <3>2. g.nodes[n].ins[s] = 0
      BY <1>24 DEF Free
    <3> QED BY <1>24, <2>1, <2>2, <3>1, <3>2 DEF InAt
  <2>3. CASE ~(a = n /\ b = s)
    BY <1>3, <1>15, <1>21, <1>22, <2>3 DEF InAt
  <2> QED BY <2>2, <2>3
<1> QED BY <1>2, <1>3, <1>15, <1>16, <1>18, <1>19, <1>23, <1>24

LEMMA AtEntryDoes ==
  ASSUME NEW K, NEW g \in Level(K), NEW s \in DOMAIN g.inputs, NEW h, h = AtEntry(g, s)
  PROVE  /\ h \in Level(K) /\ SameNodes(g, h) /\ h.links = g.links /\ h.nodes = g.nodes
         /\ \A a, b, l :
              /\ OutAt(h, a, b, l) <=> OutAt(g, a, b, l) \/ (a = 0 /\ b = s /\ l = Len(g.links))
              /\ InAt(h, a, b, l) <=> InAt(g, a, b, l)
<1>1. PICK ns \in Seq(NodeOf(K)), ins \in Seq(Seq(Nat)), outs \in Seq(Seq(Nat)), ls \in Seq(Wire) :
         g = [nodes |-> ns, links |-> ls, inputs |-> ins, outputs |-> outs]
  BY LevelIs
<1>2. g.nodes = ns /\ g.links = ls /\ g.inputs = ins /\ g.outputs = outs
  BY <1>1
<1>3. PICK L \in Nat : L = Len(g.links)
  <2>1. Len(ls) \in Nat
    OBVIOUS
  <2> QED BY <1>2, <2>1
<1>4. PICK q \in Seq(Nat) : q = ins[s]
  BY <1>2
<1>5. PICK r : r = Append(q, L)
  OBVIOUS
<1>6. r \in Seq(Nat) /\ ToSet(r) = ToSet(q) \cup {L}
  BY <1>5, AppendSet
<1>7. PICK ins2 : ins2 = [ins EXCEPT ![s] = r]
  OBVIOUS
<1>8. ins2 \in Seq(Seq(Nat)) /\ DOMAIN ins2 = DOMAIN ins /\ ins2[s] = r /\ \A b \in DOMAIN ins : b # s => ins2[b] = ins[b]
  BY <1>2, <1>6, <1>7
<1>9. h = [nodes |-> ns, links |-> ls, inputs |-> ins2, outputs |-> outs]
  BY <1>1, <1>2, <1>3, <1>4, <1>5, <1>7 DEF AtEntry
<1>10. h.nodes = ns /\ h.links = ls /\ h.inputs = ins2 /\ h.outputs = outs
  BY <1>9
<1>11. h \in Level(K)
  BY <1>8, <1>9 DEF Level
<1>12. SameNodes(g, h)
  BY <1>2, <1>8, <1>10 DEF SameNodes, Outlet, Inlet
<1>13. \A a, b, l : InAt(h, a, b, l) <=> InAt(g, a, b, l)
  BY <1>2, <1>10 DEF InAt, Inlet
<1>14. ASSUME NEW a, NEW b, NEW l
       PROVE  OutAt(h, a, b, l) <=> OutAt(g, a, b, l) \/ (a = 0 /\ b = s /\ l = L)
  <2>1. Outlet(h, a, b) <=> Outlet(g, a, b)
    BY <1>12 DEF SameNodes
  <2>2. b \in DOMAIN ins2 /\ l \in ToSet(ins2[b]) <=> b \in DOMAIN ins /\ (l \in ToSet(ins[b]) \/ (b = s /\ l = L))
    BY <1>4, <1>6, <1>8
  <2>3. s \in DOMAIN ins
    BY <1>2
  <2> QED BY <1>2, <1>10, <2>1, <2>2, <2>3 DEF OutAt
<1> QED BY <1>2, <1>3, <1>10, <1>11, <1>12, <1>13, <1>14

LEMMA AtExitDoes ==
  ASSUME NEW K, NEW g \in Level(K), NEW s \in DOMAIN g.outputs, NEW h, h = AtExit(g, s), Len(g.links) # 0
  PROVE  /\ h \in Level(K) /\ SameNodes(g, h) /\ h.links = g.links /\ h.nodes = g.nodes
         /\ \A a, b, l :
              /\ OutAt(h, a, b, l) <=> OutAt(g, a, b, l)
              /\ InAt(h, a, b, l) <=> InAt(g, a, b, l) \/ (a = -1 /\ b = s /\ l = Len(g.links))
<1>1. PICK ns \in Seq(NodeOf(K)), ins \in Seq(Seq(Nat)), outs \in Seq(Seq(Nat)), ls \in Seq(Wire) :
         g = [nodes |-> ns, links |-> ls, inputs |-> ins, outputs |-> outs]
  BY LevelIs
<1>2. g.nodes = ns /\ g.links = ls /\ g.inputs = ins /\ g.outputs = outs
  BY <1>1
<1>3. PICK L \in Nat : L = Len(g.links)
  <2>1. Len(ls) \in Nat
    OBVIOUS
  <2> QED BY <1>2, <2>1
<1>4. PICK q \in Seq(Nat) : q = outs[s]
  BY <1>2
<1>5. PICK r : r = Append(q, L)
  OBVIOUS
<1>6. r \in Seq(Nat) /\ ToSet(r) = ToSet(q) \cup {L}
  BY <1>5, AppendSet
<1>7. PICK outs2 : outs2 = [outs EXCEPT ![s] = r]
  OBVIOUS
<1>8. outs2 \in Seq(Seq(Nat)) /\ DOMAIN outs2 = DOMAIN outs /\ outs2[s] = r /\ \A b \in DOMAIN outs : b # s => outs2[b] = outs[b]
  BY <1>2, <1>6, <1>7
<1>9. h = [nodes |-> ns, links |-> ls, inputs |-> ins, outputs |-> outs2]
  BY <1>1, <1>2, <1>3, <1>4, <1>5, <1>7 DEF AtExit
<1>10. h.nodes = ns /\ h.links = ls /\ h.inputs = ins /\ h.outputs = outs2
  BY <1>9
<1>11. h \in Level(K)
  BY <1>8, <1>9 DEF Level
<1>12. SameNodes(g, h)
  BY <1>2, <1>8, <1>10 DEF SameNodes, Outlet, Inlet
<1>13. \A a, b, l : OutAt(h, a, b, l) <=> OutAt(g, a, b, l)
  BY <1>2, <1>10 DEF OutAt, Outlet
<1>14. ASSUME NEW a, NEW b, NEW l
       PROVE  InAt(h, a, b, l) <=> InAt(g, a, b, l) \/ (a = -1 /\ b = s /\ l = L)
  <2>1. Inlet(h, a, b) <=> Inlet(g, a, b)
    BY <1>12 DEF SameNodes
  <2>2. b \in DOMAIN outs2 /\ l \in ToSet(outs2[b]) <=> b \in DOMAIN outs /\ (l \in ToSet(outs[b]) \/ (b = s /\ l = L))
    BY <1>4, <1>6, <1>8
  <2>3. s \in DOMAIN outs /\ L # 0
    BY <1>2, <1>3
  <2> QED BY <1>2, <1>10, <2>1, <2>2, <2>3 DEF InAt
<1> QED BY <1>2, <1>3, <1>10, <1>11, <1>12, <1>13, <1>14

\* h is g with one node more, the entries of is at its inputs.
Added(g, h, kd, is, c) ==
  /\ h.links = g.links /\ h.inputs = g.inputs /\ h.outputs = g.outputs
  /\ Len(h.nodes) = Len(g.nodes) + 1
  /\ \A n \in 1..Len(g.nodes) : h.nodes[n] = g.nodes[n]
  /\ h.nodes[Len(g.nodes) + 1].kind = kd
  /\ \A a, b :
       /\ Outlet(h, a, b) <=> Outlet(g, a, b) \/ (a = Len(g.nodes) + 1 /\ b \in 1..c)
       /\ Inlet(h, a, b) <=> Inlet(g, a, b) \/ (a = Len(g.nodes) + 1 /\ b \in DOMAIN is)
       /\ Free(h, a, b) <=> Free(g, a, b) \/ (a = Len(g.nodes) + 1 /\ b \in DOMAIN is /\ is[b] = 0)
  /\ \A a, b, l :
       /\ OutAt(h, a, b, l) <=> OutAt(g, a, b, l)
       /\ InAt(h, a, b, l) <=> InAt(g, a, b, l)
             \/ (a = Len(g.nodes) + 1 /\ b \in DOMAIN is /\ l = is[b] /\ l # 0)

\* A new node lists nothing at its outputs.
LEMMA AddNodeDoes ==
  ASSUME NEW K, NEW g \in Level(K), NEW kd \in K, NEW is \in Seq(Nat), NEW c \in {1, 2},
         NEW h, h = AddNode(g, kd, is, c)
  PROVE  h \in Level(K) /\ Added(g, h, kd, is, c)
<1>1. PICK ns \in Seq(NodeOf(K)), ins \in Seq(Seq(Nat)), outs \in Seq(Seq(Nat)), ls \in Seq(Wire) :
         g = [nodes |-> ns, links |-> ls, inputs |-> ins, outputs |-> outs]
  BY LevelIs
<1>2. PICK N \in Nat : N = Len(ns) /\ DOMAIN ns = 1..N
  <2>1. Len(ns) \in Nat /\ DOMAIN ns = 1..Len(ns)
    OBVIOUS
  <2> QED BY <2>1, Zenon
<1>3. g.nodes = ns /\ g.links = ls /\ g.inputs = ins /\ g.outputs = outs
  BY <1>1
<1>4. PICK o : o = [k \in 1..c |-> << >>]
  OBVIOUS
<1>5. o \in Seq(Seq(Nat)) /\ DOMAIN o = 1..c /\ \A b \in 1..c : o[b] = << >>
  BY <1>4
<1>6. PICK x : x = [kind |-> kd, ins |-> is, outs |-> o]
  OBVIOUS
<1>7. x.kind = kd /\ x.ins = is /\ x.outs = o
  BY <1>6
<1>8. x \in NodeOf(K)
  BY <1>5, <1>6 DEF NodeOf
<1>9. PICK ms : ms = Append(ns, x)
  OBVIOUS
<1>10. /\ ms \in Seq(NodeOf(K)) /\ Len(ms) = N + 1
       /\ ms[N + 1] = x /\ \A m \in 1..N : ms[m] = ns[m]
  BY <1>2, <1>8, <1>9
<1>11. h = [nodes |-> ms, links |-> ls, inputs |-> ins, outputs |-> outs]
  <2>1. NewNode(kd, is, c) = x
    BY <1>4, <1>6 DEF NewNode
  <2> QED BY <1>1, <1>9, <2>1 DEF AddNode
<1>12. h.nodes = ms /\ h.links = ls /\ h.inputs = ins /\ h.outputs = outs
  BY <1>11
<1>13. h \in Level(K)
  BY <1>10, <1>11 DEF Level
<1>14. /\ \A a \in 1..(N + 1) : a \in 1..N \/ a = N + 1
       /\ \A a \in 1..N : a \in 1..(N + 1)
       /\ N + 1 \in 1..(N + 1) /\ N + 1 \notin 1..N /\ N + 1 # 0 /\ N + 1 # -1
  OBVIOUS
<1>15. 1..c \subseteq {1, 2}
  OBVIOUS
<1>16. ASSUME NEW a, NEW b
       PROVE  /\ Outlet(h, a, b) <=> Outlet(g, a, b) \/ (a = N + 1 /\ b \in 1..c)
              /\ Inlet(h, a, b) <=> Inlet(g, a, b) \/ (a = N + 1 /\ b \in DOMAIN is)
              /\ Free(h, a, b) <=> Free(g, a, b) \/ (a = N + 1 /\ b \in DOMAIN is /\ is[b] = 0)
  <2>1. CASE a \in 1..N
    BY <1>2, <1>3, <1>10, <1>12, <1>14, <2>1 DEF Outlet, Inlet, Free
  <2>2. CASE a = N + 1
    BY <1>2, <1>3, <1>5, <1>7, <1>10, <1>12, <1>14, <1>15, <2>2 DEF Outlet, Inlet, Free
  <2>3. CASE a \notin 1..N /\ a # N + 1
    BY <1>2, <1>3, <1>10, <1>12, <1>14, <2>3 DEF Outlet, Inlet, Free
  <2> QED BY <2>1, <2>2, <2>3
<1>17. ASSUME NEW a, NEW b, NEW l PROVE OutAt(h, a, b, l) <=> OutAt(g, a, b, l)
  <2>1. CASE a = N + 1
    <3>1. ~Outlet(g, a, b) /\ ~OutAt(g, a, b, l)
      BY <1>2, <1>3, <1>14, <2>1 DEF Outlet, OutAt
    <3>2. \A y \in 1..c : l \notin ToSet(o[y])
      <4>1. ToSet(<< >>) = {}
        BY DEF ToSet
      <4> QED BY <1>5, <4>1
    <3>3. h.nodes[a].outs = o
      BY <1>7, <1>10, <1>12, <2>1
    <3> QED BY <1>14, <1>16, <2>1, <3>1, <3>2, <3>3 DEF OutAt
  <2>2. CASE a # N + 1
    <3>1. Outlet(h, a, b) <=> Outlet(g, a, b)
      BY <1>16, <2>2
    <3>2. Outlet(g, a, b) => h.nodes[a] = g.nodes[a]
      BY <1>2, <1>3, <1>10, <1>12 DEF Outlet
    <3> QED BY <1>3, <1>12, <3>1, <3>2 DEF OutAt
  <2> QED BY <2>1, <2>2
<1>18. ASSUME NEW a, NEW b, NEW l
       PROVE InAt(h, a, b, l) <=> InAt(g, a, b, l) \/ (a = N + 1 /\ b \in DOMAIN is /\ l = is[b] /\ l # 0)
  <2>1. CASE a = N + 1
    <3>1. ~Inlet(g, a, b) /\ ~InAt(g, a, b, l)
      BY <1>2, <1>3, <1>14, <2>1 DEF Inlet, InAt
    <3>2. h.nodes[a].ins = is
      BY <1>7, <1>10, <1>12, <2>1
    <3> QED BY <1>14, <1>16, <2>1, <3>1, <3>2 DEF InAt
  <2>2. CASE a # N + 1
    <3>1. Inlet(h, a, b) <=> Inlet(g, a, b)
      BY <1>16, <2>2
    <3>2. Inlet(g, a, b) => h.nodes[a] = g.nodes[a]
      BY <1>2, <1>3, <1>10, <1>12 DEF Inlet
    <3> QED BY <1>3, <1>12, <2>2, <3>1, <3>2 DEF InAt
  <2> QED BY <2>1, <2>2
<1> QED BY <1>2, <1>3, <1>7, <1>10, <1>12, <1>13, <1>16, <1>17, <1>18 DEF Added

\* Each link is listed at its origin, and entered at its target; the entries of P are ahead of
\* their links.
Paired(g, P) ==
  \A n, s, l : /\ OutAt(g, n, s, l) <=> OriginAt(g, n, s, l)
               /\ InAt(g, n, s, l) <=> TargetAt(g, n, s, l) \/ <<n, s, l>> \in P

\* h has one link more than g, and the slots of g but for one are free if they were.
Linked(g, h, o, os, t, ts) ==
  /\ SameNodes(g, h) /\ Len(h.links) = Len(g.links) + 1
  /\ Edges(h) = Edges(g) \cup {<<o, os, t, ts>>}
  /\ \A a, b : Free(g, a, b) /\ ~(a = t /\ b = ts) => Free(h, a, b)

LEMMA SameFree ==
  ASSUME NEW g, NEW h, SameNodes(g, h), \A m \in 1..Len(g.nodes) : h.nodes[m].ins = g.nodes[m].ins
  PROVE  \A a, b : Free(g, a, b) => Free(h, a, b)
BY DEF SameNodes, Free, Inlet

LEMMA SameLinks ==
  ASSUME NEW g, NEW h, h.links = g.links
  PROVE  /\ Edges(h) = Edges(g)
         /\ \A n, s, l : /\ OriginAt(h, n, s, l) <=> OriginAt(g, n, s, l)
                         /\ TargetAt(h, n, s, l) <=> TargetAt(g, n, s, l)
BY DEF Edges, OriginAt, TargetAt

LEMMA SameTwice ==
  ASSUME NEW g, NEW h, NEW k, SameNodes(g, h), SameNodes(h, k)
  PROVE  SameNodes(g, k)
BY DEF SameNodes

\* The helpers that make a link and list it at one or both ends.
LEMMA EnteringDoes ==
  ASSUME NEW K, NEW g \in Level(K), NEW i \in Int, i \in DOMAIN g.inputs, NEW t \in Int, NEW ts \in Int,
         NEW h, h = Entering(g, i, t, ts)
  PROVE  /\ h \in Level(K) /\ Linked(g, h, 0, i, t, ts) /\ h.nodes = g.nodes
         /\ \A a, b : Free(h, a, b) <=> Free(g, a, b)
         /\ \A P, Q : Paired(g, Q) /\ Q = {<<t, ts, Len(g.links) + 1>>} \cup P => Paired(h, P)
<1>1. PICK k : k = AddLink(g, 0, i, t, ts)
  OBVIOUS
<1>2. PICK L \in Nat : L = Len(g.links)
  BY LevelIs
<1>3. /\ k \in Level(K) /\ SameNodes(g, k) /\ Len(k.links) = L + 1 /\ k.nodes = g.nodes
      /\ \A n, s, l :
              /\ OutAt(k, n, s, l) <=> OutAt(g, n, s, l)
              /\ InAt(k, n, s, l) <=> InAt(g, n, s, l)
              /\ OriginAt(k, n, s, l) <=> OriginAt(g, n, s, l) \/ (n = 0 /\ s = i /\ l = L + 1)
              /\ TargetAt(k, n, s, l) <=> TargetAt(g, n, s, l) \/ (n = t /\ s = ts /\ l = L + 1)
      /\ Edges(k) = Edges(g) \cup {<<0, i, t, ts>>}
  BY <1>1, <1>2, AddLinkDoes
<1>4. i \in DOMAIN k.inputs /\ h = AtEntry(k, i)
  BY <1>1, <1>3 DEF SameNodes, Entering
<1>5. /\ h \in Level(K) /\ SameNodes(k, h) /\ h.links = k.links /\ h.nodes = k.nodes
      /\ \A a, b, l :
              /\ OutAt(h, a, b, l) <=> OutAt(k, a, b, l) \/ (a = 0 /\ b = i /\ l = L + 1)
              /\ InAt(h, a, b, l) <=> InAt(k, a, b, l)
  BY <1>3, <1>4, AtEntryDoes
<1>6. /\ Edges(h) = Edges(k)
      /\ \A n, s, l : /\ OriginAt(h, n, s, l) <=> OriginAt(k, n, s, l)
                      /\ TargetAt(h, n, s, l) <=> TargetAt(k, n, s, l)
  BY <1>5, SameLinks
<1>7. SameNodes(g, h)
  BY <1>3, <1>5, SameTwice
<1>8. h.nodes = g.nodes /\ \A a, b : Free(h, a, b) <=> Free(g, a, b)
  BY <1>3, <1>5 DEF Free, Inlet
<1>9. Linked(g, h, 0, i, t, ts)
  BY <1>2, <1>3, <1>5, <1>6, <1>7, <1>8 DEF Linked
<1>10. ASSUME NEW P, NEW Q, Paired(g, Q), Q = {<<t, ts, L + 1>>} \cup P PROVE Paired(h, P)
  <2>1. \A n, s, l : <<n, s, l>> \in Q <=> (n = t /\ s = ts /\ l = L + 1) \/ <<n, s, l>> \in P
    BY <1>10
  <2> QED BY <1>3, <1>5, <1>6, <1>10, <2>1 DEF Paired
<1> QED BY <1>2, <1>5, <1>8, <1>9, <1>10

LEMMA FromNodeDoes ==
  ASSUME NEW K, NEW g \in Level(K), NEW o \in Int, NEW back \in Int, o = Len(g.nodes) + 1 - back,
         Outlet(g, o, 1), NEW t \in Int, NEW ts \in Int, NEW h, h = FromNode(g, o, back, t, ts)
  PROVE  /\ h \in Level(K) /\ Linked(g, h, o, 1, t, ts)
         /\ \A a, b : Free(g, a, b) => Free(h, a, b)
         /\ \A P, Q : Paired(g, Q) /\ Q = {<<t, ts, Len(g.links) + 1>>} \cup P => Paired(h, P)
<1>1. PICK k : k = AddLink(g, o, 1, t, ts)
  OBVIOUS
<1>2. PICK L \in Nat : L = Len(g.links)
  BY LevelIs
<1>3. /\ k \in Level(K) /\ SameNodes(g, k) /\ Len(k.links) = L + 1 /\ k.nodes = g.nodes
      /\ \A n, s, l :
              /\ OutAt(k, n, s, l) <=> OutAt(g, n, s, l)
              /\ InAt(k, n, s, l) <=> InAt(g, n, s, l)
              /\ OriginAt(k, n, s, l) <=> OriginAt(g, n, s, l) \/ (n = o /\ s = 1 /\ l = L + 1)
              /\ TargetAt(k, n, s, l) <=> TargetAt(g, n, s, l) \/ (n = t /\ s = ts /\ l = L + 1)
      /\ Edges(k) = Edges(g) \cup {<<o, 1, t, ts>>}
  BY <1>1, <1>2, AddLinkDoes
<1>4. Outlet(k, o, 1) /\ h = AtOutput(k, o, 1)
  BY <1>1, <1>3 DEF SameNodes, FromNode
<1>5. /\ h \in Level(K) /\ SameNodes(k, h) /\ h.links = k.links
      /\ \A m \in 1..Len(k.nodes) : h.nodes[m].ins = k.nodes[m].ins
      /\ \A a, b, l :
              /\ OutAt(h, a, b, l) <=> OutAt(k, a, b, l) \/ (a = o /\ b = 1 /\ l = L + 1)
              /\ InAt(h, a, b, l) <=> InAt(k, a, b, l)
  BY <1>3, <1>4, AtOutputDoes, SMTT(30)
<1>6. /\ Edges(h) = Edges(k)
      /\ \A n, s, l : /\ OriginAt(h, n, s, l) <=> OriginAt(k, n, s, l)
                      /\ TargetAt(h, n, s, l) <=> TargetAt(k, n, s, l)
  BY <1>5, SameLinks
<1>7. SameNodes(g, h)
  BY <1>3, <1>5, SameTwice
<1>8. \A a, b : Free(g, a, b) => Free(h, a, b)
  BY <1>3, <1>5, <1>7, SameFree
<1>9. Linked(g, h, o, 1, t, ts)
  BY <1>2, <1>3, <1>5, <1>6, <1>7, <1>8 DEF Linked
<1>10. ASSUME NEW P, NEW Q, Paired(g, Q), Q = {<<t, ts, L + 1>>} \cup P PROVE Paired(h, P)
  <2>1. \A n, s, l : <<n, s, l>> \in Q <=> (n = t /\ s = ts /\ l = L + 1) \/ <<n, s, l>> \in P
    BY <1>10
  <2> QED BY <1>3, <1>5, <1>6, <1>10, <2>1 DEF Paired
<1> QED BY <1>2, <1>5, <1>8, <1>9, <1>10

LEMMA ConnectDoes ==
  ASSUME NEW K, NEW g \in Level(K), NEW o \in Int, NEW os \in Int, Outlet(g, o, os),
         NEW t \in Int, NEW ts \in Int, Inlet(g, t, ts), NEW h, h = Connect(g, o, os, t, ts)
  PROVE  /\ h \in Level(K) /\ Linked(g, h, o, os, t, ts)
         /\ Free(g, t, ts) => \A P : Paired(g, P) => Paired(h, P)
<1>1. PICK k, j : k = AddLink(g, o, os, t, ts) /\ j = AtOutput(k, o, os)
  OBVIOUS
<1>2. PICK L \in Nat : L = Len(g.links)
  BY LevelIs
<1>3. /\ k \in Level(K) /\ SameNodes(g, k) /\ Len(k.links) = L + 1 /\ k.nodes = g.nodes
      /\ \A n, s, l :
              /\ OutAt(k, n, s, l) <=> OutAt(g, n, s, l)
              /\ InAt(k, n, s, l) <=> InAt(g, n, s, l)
              /\ OriginAt(k, n, s, l) <=> OriginAt(g, n, s, l) \/ (n = o /\ s = os /\ l = L + 1)
              /\ TargetAt(k, n, s, l) <=> TargetAt(g, n, s, l) \/ (n = t /\ s = ts /\ l = L + 1)
      /\ Edges(k) = Edges(g) \cup {<<o, os, t, ts>>}
  BY <1>1, <1>2, AddLinkDoes
<1>4. Outlet(k, o, os) /\ h = AtInput(j, t, ts)
  BY <1>1, <1>3 DEF SameNodes, Connect
<1>5. /\ j \in Level(K) /\ SameNodes(k, j) /\ j.links = k.links
      /\ \A m \in 1..Len(k.nodes) : j.nodes[m].ins = k.nodes[m].ins
      /\ \A a, b, l :
              /\ OutAt(j, a, b, l) <=> OutAt(k, a, b, l) \/ (a = o /\ b = os /\ l = L + 1)
              /\ InAt(j, a, b, l) <=> InAt(k, a, b, l)
  BY <1>1, <1>3, <1>4, AtOutputDoes
<1>6. SameNodes(g, j) /\ Inlet(j, t, ts)
  <2>1. SameNodes(g, j)
    BY <1>3, <1>5, SameTwice
  <2> QED BY <2>1 DEF SameNodes
<1>7. \A a, b : Free(g, a, b) => Free(j, a, b)
  BY <1>3, <1>5, <1>6, SameFree
<1>8. /\ h \in Level(K) /\ SameNodes(j, h) /\ h.links = j.links
      /\ \A a, b, l : OutAt(h, a, b, l) <=> OutAt(j, a, b, l)
      /\ \A a, b : Free(j, a, b) /\ ~(a = t /\ b = ts) => Free(h, a, b)
      /\ Free(j, t, ts) /\ L + 1 # 0 =>
              \A a, b, l : InAt(h, a, b, l) <=> InAt(j, a, b, l) \/ (a = t /\ b = ts /\ l = L + 1)
  BY <1>3, <1>4, <1>5, <1>6, AtInputDoes
<1>9. /\ Edges(h) = Edges(k)
      /\ \A n, s, l : /\ OriginAt(h, n, s, l) <=> OriginAt(k, n, s, l)
                      /\ TargetAt(h, n, s, l) <=> TargetAt(k, n, s, l)
  <2>1. h.links = k.links
    BY <1>5, <1>8
  <2> QED BY <2>1, SameLinks
<1>10. SameNodes(g, h)
  BY <1>6, <1>8, SameTwice
<1>11. Linked(g, h, o, os, t, ts)
  BY <1>2, <1>3, <1>5, <1>7, <1>8, <1>9, <1>10 DEF Linked
<1>12. ASSUME NEW P, Paired(g, P), Free(g, t, ts) PROVE Paired(h, P)
  <2>1. L + 1 # 0
    BY <1>2
  <2>2. \A a, b, l : InAt(h, a, b, l) <=> InAt(j, a, b, l) \/ (a = t /\ b = ts /\ l = L + 1)
    BY <1>7, <1>8, <1>12, <2>1
  <2> QED BY <1>3, <1>5, <1>8, <1>9, <1>12, <2>2 DEF Paired
<1> QED BY <1>8, <1>11, <1>12

LEMMA EnterInputDoes ==
  ASSUME NEW K, NEW g \in Level(K), NEW i \in Int, i \in DOMAIN g.inputs,
         NEW t \in Int, NEW ts \in Int, Inlet(g, t, ts), NEW h, h = AtInput(Entering(g, i, t, ts), t, ts)
  PROVE  /\ h \in Level(K) /\ Linked(g, h, 0, i, t, ts)
         /\ Free(g, t, ts) => \A P : Paired(g, P) => Paired(h, P)
<1>1. PICK k, j : k = AddLink(g, 0, i, t, ts) /\ j = AtEntry(k, i)
  OBVIOUS
<1>2. PICK L \in Nat : L = Len(g.links)
  BY LevelIs
<1>3. /\ k \in Level(K) /\ SameNodes(g, k) /\ Len(k.links) = L + 1 /\ k.nodes = g.nodes
      /\ \A n, s, l :
              /\ OutAt(k, n, s, l) <=> OutAt(g, n, s, l)
              /\ InAt(k, n, s, l) <=> InAt(g, n, s, l)
              /\ OriginAt(k, n, s, l) <=> OriginAt(g, n, s, l) \/ (n = 0 /\ s = i /\ l = L + 1)
              /\ TargetAt(k, n, s, l) <=> TargetAt(g, n, s, l) \/ (n = t /\ s = ts /\ l = L + 1)
      /\ Edges(k) = Edges(g) \cup {<<0, i, t, ts>>}
  BY <1>1, <1>2, AddLinkDoes
<1>4. i \in DOMAIN k.inputs /\ h = AtInput(j, t, ts)
  BY <1>1, <1>3 DEF SameNodes, Entering
<1>5. /\ j \in Level(K) /\ SameNodes(k, j) /\ j.links = k.links /\ j.nodes = k.nodes
      /\ \A a, b, l :
              /\ OutAt(j, a, b, l) <=> OutAt(k, a, b, l) \/ (a = 0 /\ b = i /\ l = L + 1)
              /\ InAt(j, a, b, l) <=> InAt(k, a, b, l)
  BY <1>1, <1>3, <1>4, AtEntryDoes
<1>6. SameNodes(g, j) /\ Inlet(j, t, ts)
  <2>1. SameNodes(g, j)
    BY <1>3, <1>5, SameTwice
  <2> QED BY <2>1 DEF SameNodes
<1>7. \A a, b : Free(g, a, b) => Free(j, a, b)
  BY <1>3, <1>5 DEF Free, Inlet
<1>8. /\ h \in Level(K) /\ SameNodes(j, h) /\ h.links = j.links
      /\ \A a, b, l : OutAt(h, a, b, l) <=> OutAt(j, a, b, l)
      /\ \A a, b : Free(j, a, b) /\ ~(a = t /\ b = ts) => Free(h, a, b)
      /\ Free(j, t, ts) /\ L + 1 # 0 =>
              \A a, b, l : InAt(h, a, b, l) <=> InAt(j, a, b, l) \/ (a = t /\ b = ts /\ l = L + 1)
  BY <1>3, <1>4, <1>5, <1>6, AtInputDoes
<1>9. /\ Edges(h) = Edges(k)
      /\ \A n, s, l : /\ OriginAt(h, n, s, l) <=> OriginAt(k, n, s, l)
                      /\ TargetAt(h, n, s, l) <=> TargetAt(k, n, s, l)
  <2>1. h.links = k.links
    BY <1>5, <1>8
  <2> QED BY <2>1, SameLinks
<1>10. SameNodes(g, h)
  BY <1>6, <1>8, SameTwice
<1>11. Linked(g, h, 0, i, t, ts)
  BY <1>2, <1>3, <1>5, <1>7, <1>8, <1>9, <1>10 DEF Linked
<1>12. ASSUME NEW P, Paired(g, P), Free(g, t, ts) PROVE Paired(h, P)
  <2>1. L + 1 # 0
    BY <1>2
  <2>2. \A a, b, l : InAt(h, a, b, l) <=> InAt(j, a, b, l) \/ (a = t /\ b = ts /\ l = L + 1)
    BY <1>7, <1>8, <1>12, <2>1
  <2> QED BY <1>3, <1>5, <1>8, <1>9, <1>12, <2>2 DEF Paired
<1> QED BY <1>8, <1>11, <1>12

LEMMA ExitDoes ==
  ASSUME NEW K, NEW g \in Level(K), NEW o \in Int, Outlet(g, o, 1), NEW s \in Int, s \in DOMAIN g.outputs,
         NEW h, h = AtOutput(AtExit(AddLink(g, o, 1, -1, s), s), o, 1)
  PROVE  /\ h \in Level(K) /\ Linked(g, h, o, 1, -1, s)
         /\ \A P : Paired(g, P) => Paired(h, P)
<1>1. PICK k, j : k = AddLink(g, o, 1, -1, s) /\ j = AtExit(k, s)
  OBVIOUS
<1>2. PICK L \in Nat : L = Len(g.links)
  BY LevelIs
<1>3. /\ k \in Level(K) /\ SameNodes(g, k) /\ Len(k.links) = L + 1 /\ k.nodes = g.nodes
      /\ \A n, b, l :
              /\ OutAt(k, n, b, l) <=> OutAt(g, n, b, l)
              /\ InAt(k, n, b, l) <=> InAt(g, n, b, l)
              /\ OriginAt(k, n, b, l) <=> OriginAt(g, n, b, l) \/ (n = o /\ b = 1 /\ l = L + 1)
              /\ TargetAt(k, n, b, l) <=> TargetAt(g, n, b, l) \/ (n = -1 /\ b = s /\ l = L + 1)
      /\ Edges(k) = Edges(g) \cup {<<o, 1, -1, s>>}
  <2>1. PICK e \in Int, i \in Int : e = -1 /\ i = 1
    OBVIOUS
  <2>2. k = AddLink(g, o, i, e, s)
    BY <1>1, <2>1
  <2>3. s \in Int
    OBVIOUS
  <2>4. /\ k \in Level(K) /\ SameNodes(g, k) /\ Len(k.links) = Len(g.links) + 1
        /\ k.nodes = g.nodes
        /\ \A n, b, l :
             /\ OutAt(k, n, b, l) <=> OutAt(g, n, b, l)
             /\ InAt(k, n, b, l) <=> InAt(g, n, b, l)
             /\ OriginAt(k, n, b, l) <=> OriginAt(g, n, b, l) \/ (n = o /\ b = i /\ l = Len(g.links) + 1)
             /\ TargetAt(k, n, b, l) <=> TargetAt(g, n, b, l) \/ (n = e /\ b = s /\ l = Len(g.links) + 1)
        /\ Edges(k) = Edges(g) \cup {<<o, i, e, s>>}
    BY <2>2, <2>3, AddLinkDoes
  <2> QED BY <1>2, <2>1, <2>4
<1>4. s \in DOMAIN k.outputs /\ L + 1 # 0 /\ h = AtOutput(j, o, 1)
  BY <1>1, <1>2, <1>3 DEF SameNodes
<1>5. /\ j \in Level(K) /\ SameNodes(k, j) /\ j.links = k.links /\ j.nodes = k.nodes
      /\ \A a, b, l :
              /\ OutAt(j, a, b, l) <=> OutAt(k, a, b, l)
              /\ InAt(j, a, b, l) <=> InAt(k, a, b, l) \/ (a = -1 /\ b = s /\ l = L + 1)
  BY <1>1, <1>3, <1>4, AtExitDoes
<1>6. SameNodes(g, j) /\ Outlet(j, o, 1)
  <2>1. SameNodes(g, j)
    BY <1>3, <1>5, SameTwice
  <2> QED BY <2>1 DEF SameNodes
<1>7. /\ h \in Level(K) /\ SameNodes(j, h) /\ h.links = j.links
      /\ \A m \in 1..Len(j.nodes) : h.nodes[m].ins = j.nodes[m].ins
      /\ \A a, b, l :
              /\ OutAt(h, a, b, l) <=> OutAt(j, a, b, l) \/ (a = o /\ b = 1 /\ l = L + 1)
              /\ InAt(h, a, b, l) <=> InAt(j, a, b, l)
  <2>1. Len(j.links) = L + 1
    BY <1>3, <1>5
  <2> QED BY <1>4, <1>5, <1>6, <2>1, AtOutputDoes
<1>8. /\ Edges(h) = Edges(k)
      /\ \A n, b, l : /\ OriginAt(h, n, b, l) <=> OriginAt(k, n, b, l)
                      /\ TargetAt(h, n, b, l) <=> TargetAt(k, n, b, l)
  <2>1. h.links = k.links
    BY <1>5, <1>7
  <2> QED BY <2>1, SameLinks
<1>9. SameNodes(g, h)
  BY <1>6, <1>7, SameTwice
<1>10. \A a, b : Free(g, a, b) => Free(h, a, b)
  <2>1. \A m \in 1..Len(g.nodes) : h.nodes[m].ins = g.nodes[m].ins
    BY <1>3, <1>5, <1>7
  <2> QED BY <1>9, <2>1, SameFree
<1>11. Linked(g, h, o, 1, -1, s)
  <2>1. Len(h.links) = Len(g.links) + 1 /\ Edges(h) = Edges(g) \cup {<<o, 1, -1, s>>}
    BY <1>2, <1>3, <1>5, <1>7, <1>8
  <2> QED BY <1>9, <1>10, <2>1 DEF Linked
<1>12. ASSUME NEW P, Paired(g, P) PROVE Paired(h, P)
  BY <1>3, <1>5, <1>7, <1>8, <1>12 DEF Paired
<1> QED BY <1>7, <1>11, <1>12

\* One iteration of LinkAll.
LinkOne(h, sources, t, first, k) ==
  IF sources[k][1] = 0 THEN AtInput(Entering(h, sources[k][2], t, first + k), t, first + k)
  ELSE Connect(h, sources[k][1], sources[k][2], t, first + k)

\* h[i] is the level after the first i links.
Linking(h, g, sources, t, first) ==
  /\ h[0] = g
  /\ \A i \in 1..Len(sources) : h[i] = LinkOne(h[i - 1], sources, t, first, i)

\* The sources are there, and so are the slots.
Linkable(g, sources, t, first) ==
  /\ sources \in Seq(Int \X Int) /\ t \in Int /\ first \in Int
  /\ \A k \in 1..Len(sources) :
       /\ Inlet(g, t, first + k)
       /\ IF sources[k][1] = 0 THEN sources[k][2] \in DOMAIN g.inputs
          ELSE Outlet(g, sources[k][1], sources[k][2])

LEMMA LinkOneDoes ==
  ASSUME NEW K, NEW g, NEW sources, NEW t, NEW first, Linkable(g, sources, t, first),
         NEW h \in Level(K), SameNodes(g, h), NEW k \in 1..Len(sources), NEW j, j = LinkOne(h, sources, t, first, k)
  PROVE  /\ j \in Level(K) /\ SameNodes(g, j)
         /\ Linked(h, j, sources[k][1], sources[k][2], t, first + k)
         /\ Free(h, t, first + k) => \A P : Paired(h, P) => Paired(j, P)
<1>1. PICK o \in Int, os \in Int, ts \in Int : o = sources[k][1] /\ os = sources[k][2] /\ ts = first + k
  <2>1. Len(sources) \in Nat /\ sources[k] \in Int \X Int
    BY DEF Linkable
  <2>2. first + k \in Int
    BY <2>1 DEF Linkable
  <2> QED BY <2>1, <2>2
<1>2. t \in Int /\ Inlet(h, t, ts) /\ IF o = 0 THEN os \in DOMAIN h.inputs ELSE Outlet(h, o, os)
  BY <1>1 DEF Linkable, SameNodes
<1>3. j \in Level(K) /\ Linked(h, j, o, os, t, ts) /\ (Free(h, t, ts) => \A P : Paired(h, P) => Paired(j, P))
  <2>1. CASE o = 0
    <3>1. j = AtInput(Entering(h, os, t, ts), t, ts) /\ os \in DOMAIN h.inputs
      BY <1>1, <1>2, <2>1 DEF LinkOne
    <3> QED BY <1>2, <2>1, <3>1, EnterInputDoes
  <2>2. CASE o # 0
    <3>1. j = Connect(h, o, os, t, ts) /\ Outlet(h, o, os)
      BY <1>1, <1>2, <2>2 DEF LinkOne
    <3> QED BY <1>2, <3>1, ConnectDoes
  <2> QED BY <2>1, <2>2
<1>4. SameNodes(g, j)
  <2>1. SameNodes(h, j)
    BY <1>3 DEF Linked
  <2> QED BY <2>1, SameTwice
<1> QED BY <1>1, <1>3, <1>4

LEMMA LinkAllFold ==
  ASSUME NEW K, NEW g \in Level(K), NEW sources, NEW t, NEW first, Linkable(g, sources, t, first)
  PROVE  \E h : Linking(h, g, sources, t, first) /\ LinkAll(g, sources, t, first) = h[Len(sources)]
<1> DEFINE at(x) == [k \in DOMAIN sources |-> k][Max(x)]
           made(f, x) == IF x = {} THEN g
                         ELSE IF sources[at(x)][1] = 0
                              THEN AtInput(Entering(f[x \ {Max(x)}], sources[at(x)][2], t, first + at(x)),
                                           t, first + at(x))
                              ELSE Connect(f[x \ {Max(x)}], sources[at(x)][1], sources[at(x)][2],
                                           t, first + at(x))
           P(f) == f = [x \in SUBSET DOMAIN [k \in DOMAIN sources |-> k] |-> made(f, x)]
<1>1. PICK n \in Nat : n = Len(sources) /\ DOMAIN sources = 1..n
  <2>1. Len(sources) \in Nat /\ DOMAIN sources = 1..Len(sources)
    BY DEF Linkable
  <2> QED BY <2>1, Zenon
<1>2. LinkAll(g, sources, t, first) = (CHOOSE f : P(f))[DOMAIN [k \in DOMAIN sources |-> k]]
  BY DEF LinkAll, FoldLeft, MapThenFoldSet
<1> DEFINE one(f, x) == IF x = {} THEN g ELSE LinkOne(f[x \ {Max(x)}], sources, t, first, Max(x))
           Q(f) == f = [x \in SUBSET (1..n) |-> one(f, x)]
<1>3. ASSUME NEW x \in SUBSET (1..n), x # {} PROVE Max(x) \in 1..n /\ x \ {Max(x)} \in SUBSET (1..n)
  <2>1. PICK s : s = sources
    OBVIOUS
  <2>2. s \in Seq(Int \X Int) /\ x \in SUBSET DOMAIN s
    BY <1>1, <2>1 DEF Linkable
  <2>3. Max(x) \in DOMAIN s /\ x \ {Max(x)} \in SUBSET DOMAIN s
    BY <1>3, <2>2, GreatestPosition
  <2> QED BY <1>1, <2>1, <2>3
<1>4. DOMAIN [k \in DOMAIN sources |-> k] = 1..n /\ \A k \in 1..n : [j \in DOMAIN sources |-> j][k] = k
  BY <1>1
<1>5. ASSUME NEW f PROVE P(f) <=> Q(f)
  <2>1. \A x \in SUBSET (1..n) : x # {} => at(x) = Max(x)
    BY <1>3, <1>4
  <2> HIDE DEF at
  <2>2. \A x \in SUBSET (1..n) : made(f, x) = one(f, x)
    BY <2>1, Zenon DEF LinkOne
  <2> HIDE DEF made, one
  <2> QED BY <1>4, <2>2, ZenonT(30)
<1> HIDE DEF P
<1>6. PICK A : A = {h \in Level(K) : SameNodes(g, h)}
  OBVIOUS
<1>7. ASSUME NEW h \in A, NEW i \in 1..n PROVE LinkOne(h, sources, t, first, i) \in A
  <2>1. PICK j : j = LinkOne(h, sources, t, first, i)
    OBVIOUS
  <2>2. j \in Level(K) /\ SameNodes(g, j)
    BY <1>1, <1>6, <2>1, LinkOneDoes
  <2> QED BY <1>6, <2>1, <2>2
<1>8. PICK op \in [A \X (1..n) -> A] : \A h \in A : \A i \in 1..n : op[<<h, i>>] = LinkOne(h, sources, t, first, i)
  <2> DEFINE o == [q \in A \X (1..n) |-> LinkOne(q[1], sources, t, first, q[2])]
  <2>1. o \in [A \X (1..n) -> A]
    BY <1>7
  <2>2. \A h \in A : \A i \in 1..n : o[<<h, i>>] = LinkOne(h, sources, t, first, i)
    OBVIOUS
  <2> HIDE DEF o
  <2> QED BY <2>1, <2>2
<1>9. PICK base \in A : base = g
  BY <1>6 DEF SameNodes
<1>10. PICK c \in [SUBSET (1..n) -> A] : Folding(c, n, base, op)
  BY FoldExists
<1>11. Q(c)
  <2>1. ASSUME NEW x \in SUBSET (1..n), x # {}
        PROVE  c[x] = LinkOne(c[x \ {Max(x)}], sources, t, first, Max(x))
    BY <1>3, <1>8, <1>10, <2>1 DEF Folding
  <2>2. c[{}] = g
    BY <1>9, <1>10 DEF Folding
  <2>3. c = [x \in SUBSET (1..n) |-> c[x]]
    BY <1>10
  <2> QED BY <2>1, <2>2, <2>3
<1>12. PICK f : f = CHOOSE h : P(h)
  OBVIOUS
<1>13. Q(f)
  <2> HIDE DEF Q
  <2>1. P(c)
    BY <1>5, <1>11
  <2>2. P(CHOOSE h : P(h))
    BY <2>1, Zenon
  <2> QED BY <1>5, <1>12, <2>2
<1>14. f[{}] = g /\ \A x \in SUBSET (1..n) : x # {} => f[x] = LinkOne(f[x \ {Max(x)}], sources, t, first, Max(x))
  BY <1>13, Zenon
<1> HIDE DEF Q
<1> DEFINE h == [i \in 0..n |-> f[1..i]]
<1>15. h[0] = g
  <2>1. 1..0 = {} /\ 0 \in 0..n
    OBVIOUS
  <2>2. h[0] = f[{}]
    BY <2>1
  <2> QED BY <1>14, <2>2
<1>16. ASSUME NEW i \in 1..n PROVE h[i] = LinkOne(h[i - 1], sources, t, first, i)
  <2>1. PICK x : x = 1..i
    OBVIOUS
  <2>2. i \in Nat /\ i # 0 /\ x \in SUBSET (1..n)
    BY <2>1
  <2>3. x # {} /\ Max(x) = i /\ x \ {i} = 1..(i - 1)
    BY <2>1, <2>2, Initial
  <2>4. f[x] = LinkOne(f[x \ {i}], sources, t, first, i)
    BY <1>14, <2>2, <2>3
  <2>5. h[i] = f[1..i] /\ h[i - 1] = f[1..(i - 1)]
    <3>1. i \in 0..n /\ i - 1 \in 0..n
      OBVIOUS
    <3> QED BY <3>1
  <2> QED BY <2>1, <2>3, <2>4, <2>5
<1>17. h[n] = f[1..n]
  OBVIOUS
<1> HIDE DEF h
<1>18. Linking(h, g, sources, t, first)
  BY <1>1, <1>15, <1>16 DEF Linking
<1> QED BY <1>1, <1>2, <1>4, <1>12, <1>17, <1>18, ZenonT(30)

\* What linking the first i sources has made of g.
LinkedSoFar(K, g, h, sources, t, first, i) ==
  /\ h \in Level(K) /\ SameNodes(g, h) /\ Len(h.links) = Len(g.links) + i
  /\ Edges(h) = Edges(g) \cup {<<sources[k][1], sources[k][2], t, first + k>> : k \in 1..i}
  /\ \A a, b : Free(g, a, b) /\ (a = t => \A k \in 1..i : b # first + k) => Free(h, a, b)
  /\ (\A k \in 1..Len(sources) : Free(g, t, first + k)) => \A P : Paired(g, P) => Paired(h, P)

LEMMA LinkAllDoes ==
  ASSUME NEW K, NEW g \in Level(K), NEW sources, NEW t, NEW first, Linkable(g, sources, t, first)
  PROVE  LinkedSoFar(K, g, LinkAll(g, sources, t, first), sources, t, first, Len(sources))
<1>1. PICK n \in Nat, L \in Nat : n = Len(sources) /\ L = Len(g.links)
  <2>1. Len(sources) \in Nat /\ Len(g.links) \in Nat
    BY LevelIs DEF Linkable
  <2> QED BY <2>1
<1>2. PICK h : Linking(h, g, sources, t, first) /\ LinkAll(g, sources, t, first) = h[n]
  BY <1>1, LinkAllFold
<1> DEFINE S == {i \in 0..n : LinkedSoFar(K, g, h[i], sources, t, first, i)}
<1>3. 0 \in S
  <2>1. h[0] = g /\ 0 \in 0..n /\ L + 0 = L /\ \A k : k \notin 1..0
    BY <1>2 DEF Linking
  <2>2. {<<sources[k][1], sources[k][2], t, first + k>> : k \in 1..0} = {}
    BY <2>1
  <2>3. LinkedSoFar(K, g, g, sources, t, first, 0)
    BY <1>1, <2>1, <2>2 DEF LinkedSoFar, SameNodes
  <2> QED BY <2>1, <2>3
<1>4. ASSUME NEW i \in 1..n, i - 1 \in S PROVE i \in S
  <2>1. PICK c, j, m : c = h[i - 1] /\ j = h[i] /\ m = i - 1
    OBVIOUS
  <2> m \in Nat
    BY <2>1
  <2>2. LinkedSoFar(K, g, c, sources, t, first, m)
    BY <1>4, <2>1
  <2>3. j = LinkOne(c, sources, t, first, i)
    BY <1>1, <1>2, <2>1 DEF Linking
  <2>4. c \in Level(K) /\ SameNodes(g, c) /\ i \in 1..Len(sources)
    BY <1>1, <2>2 DEF LinkedSoFar
  <2>5. /\ j \in Level(K) /\ SameNodes(g, j)
        /\ Linked(c, j, sources[i][1], sources[i][2], t, first + i)
        /\ Free(c, t, first + i) => \A P : Paired(c, P) => Paired(j, P)
    BY <2>3, <2>4, LinkOneDoes
  <2>6. (\A k \in 1..i : k \in 1..m \/ k = i) /\ (\A k \in 1..m : k \in 1..i /\ k # i) /\ i \in 1..i
    BY <2>1
  <2>7. Len(j.links) = Len(g.links) + i
    <3>1. Len(c.links) = L + m /\ Len(j.links) = Len(c.links) + 1
      BY <1>1, <2>2, <2>5 DEF LinkedSoFar, Linked
    <3> QED BY <1>1, <2>1, <3>1
  <2>8. Edges(j) = Edges(g) \cup {<<sources[k][1], sources[k][2], t, first + k>> : k \in 1..i}
    <3>1. /\ Edges(c) = Edges(g) \cup {<<sources[k][1], sources[k][2], t, first + k>> : k \in 1..m}
          /\ Edges(j) = Edges(c) \cup {<<sources[i][1], sources[i][2], t, first + i>>}
      BY <2>2, <2>5 DEF LinkedSoFar, Linked
    <3>2. {<<sources[k][1], sources[k][2], t, first + k>> : k \in 1..i}
            = {<<sources[k][1], sources[k][2], t, first + k>> : k \in 1..m}
              \cup {<<sources[i][1], sources[i][2], t, first + i>>}
      BY <2>6
    <3> QED BY <3>1, <3>2
  <2>9. \A a, b : Free(g, a, b) /\ (a = t => \A k \in 1..i : b # first + k) => Free(j, a, b)
    BY <2>2, <2>5, <2>6 DEF LinkedSoFar, Linked
  <2>10. ASSUME \A k \in 1..Len(sources) : Free(g, t, first + k), NEW P, Paired(g, P) PROVE Paired(j, P)
    <3>1. Paired(c, P)
      BY <2>2, <2>10 DEF LinkedSoFar
    <3>2. Free(c, t, first + i)
      <4>1. \A k \in 1..m : first + i # first + k
        BY <2>1, <2>6 DEF Linkable
      <4>2. Free(g, t, first + i)
        BY <2>4, <2>10
      <4> QED BY <2>2, <4>1, <4>2 DEF LinkedSoFar
    <3> QED BY <2>5, <3>1, <3>2
  <2>11. LinkedSoFar(K, g, j, sources, t, first, i)
    BY <2>5, <2>7, <2>8, <2>9, <2>10 DEF LinkedSoFar
  <2> QED BY <2>1, <2>11
<1>5. \A i \in 0..n : i \in S
  <2> HIDE DEF S
  <2>1. \A i \in 1..n : i - 1 \in S => i \in S
    BY <1>4
  <2> QED BY <1>3, <2>1, UpTo, Zenon
<1>6. n \in S
  <2>1. n \in 0..n
    OBVIOUS
  <2> QED BY <1>5, <2>1
<1> QED BY <1>1, <1>2, <1>6

\* h has c nodes more than g, behind those of g.
Extends(g, h, c) ==
  /\ Len(h.nodes) = Len(g.nodes) + c
  /\ \A n \in 1..Len(g.nodes) : h.nodes[n].kind = g.nodes[n].kind
  /\ \A n, s : Outlet(g, n, s) => Outlet(h, n, s)
  /\ DOMAIN h.inputs = DOMAIN g.inputs /\ DOMAIN h.outputs = DOMAIN g.outputs

LEMMA ExtendsTwice ==
  ASSUME NEW K, NEW g \in Level(K), NEW h, NEW k, NEW c \in Nat, NEW d \in Nat, Extends(g, h, c), Extends(h, k, d)
  PROVE  Extends(g, k, c + d)
<1>1. PICK L \in Nat : L = Len(g.nodes)
  BY LevelIs
<1>2. \A n \in 1..L : n \in 1..(L + c)
  OBVIOUS
<1>3. Len(h.nodes) = L + c
  BY <1>1 DEF Extends
<1>4. Len(k.nodes) = (L + c) + d
  BY <1>3 DEF Extends
<1>5. Len(k.nodes) = L + (c + d)
  BY <1>4
<1>6. \A n \in 1..L : k.nodes[n].kind = g.nodes[n].kind
  <2>1. \A n \in 1..L : h.nodes[n].kind = g.nodes[n].kind
    BY <1>1 DEF Extends
  <2>2. \A n \in 1..(L + c) : k.nodes[n].kind = h.nodes[n].kind
    BY <1>3 DEF Extends
  <2> QED BY <1>2, <2>1, <2>2
<1>7. /\ \A n, s : Outlet(g, n, s) => Outlet(k, n, s)
      /\ DOMAIN k.inputs = DOMAIN g.inputs /\ DOMAIN k.outputs = DOMAIN g.outputs
  BY DEF Extends
<1> QED BY <1>1, <1>5, <1>6, <1>7 DEF Extends

LEMMA LinkedExtends ==
  ASSUME NEW K, NEW g \in Level(K), NEW h, SameNodes(g, h)
  PROVE  Extends(g, h, 0)
<1>1. Len(g.nodes) \in Nat
  BY LevelIs
<1>2. Len(h.nodes) = Len(g.nodes) + 0
  BY <1>1 DEF SameNodes
<1> QED BY <1>1, <1>2 DEF SameNodes, Extends

\* The entries of is are ahead of their links.
Ahead(P, N, is) == \A a, b, l : <<a, b, l>> \in P <=> a = N /\ b \in DOMAIN is /\ l = is[b] /\ l # 0

\* What a new node N brings.
Brings(g, h, N, kd, is, c) ==
  /\ Extends(g, h, 1) /\ h.links = g.links /\ Edges(h) = Edges(g)
  /\ h.nodes[N].kind = kd /\ \A s \in 1..c : Outlet(h, N, s)
  /\ \A b \in DOMAIN is : Inlet(h, N, b) /\ (is[b] = 0 => Free(h, N, b))

\* A new node whose slots are empty, or filled ahead of their links.
LEMMA NewNodeDoes ==
  ASSUME NEW K, NEW g \in Level(K), NEW kd \in K, NEW is \in Seq(Nat), NEW N, N = Len(g.nodes) + 1,
         NEW P, Ahead(P, N, is), Paired(g, {}), NEW c \in {1, 2}, NEW h, h = AddNode(g, kd, is, c)
  PROVE  h \in Level(K) /\ Brings(g, h, N, kd, is, c) /\ Paired(h, P)
<1>1. h \in Level(K) /\ Added(g, h, kd, is, c)
  BY AddNodeDoes
<1>2. Extends(g, h, 1)
  BY <1>1 DEF Extends, Added
<1>3. /\ Edges(h) = Edges(g)
      /\ \A n, s, l : OriginAt(h, n, s, l) <=> OriginAt(g, n, s, l)
      /\ \A n, s, l : TargetAt(h, n, s, l) <=> TargetAt(g, n, s, l)
  BY <1>1, SameLinks DEF Added
<1>4. Paired(h, P)
  <2>1. ASSUME NEW a, NEW b, NEW l
        PROVE  InAt(h, a, b, l) <=> TargetAt(h, a, b, l) \/ <<a, b, l>> \in P
    <3>1. InAt(h, a, b, l) <=> InAt(g, a, b, l) \/ (a = N /\ b \in DOMAIN is /\ l = is[b] /\ l # 0)
      BY <1>1 DEF Added
    <3>2. InAt(g, a, b, l) <=> TargetAt(g, a, b, l)
      BY DEF Paired
    <3>3. <<a, b, l>> \in P <=> a = N /\ b \in DOMAIN is /\ l = is[b] /\ l # 0
      BY Zenon DEF Ahead
    <3>4. TargetAt(h, a, b, l) <=> TargetAt(g, a, b, l)
      BY <1>3, Zenon
    <3> QED BY <3>1, <3>2, <3>3, <3>4, Zenon
  <2>2. ASSUME NEW a, NEW b, NEW l PROVE OutAt(h, a, b, l) <=> OriginAt(h, a, b, l)
    <3>1. OutAt(h, a, b, l) <=> OutAt(g, a, b, l)
      BY <1>1 DEF Added
    <3>2. OutAt(g, a, b, l) <=> OriginAt(g, a, b, l)
      BY DEF Paired
    <3> QED BY <1>3, <3>1, <3>2, Zenon
  <2> QED BY <2>1, <2>2, Zenon DEF Paired
<1>5. h.links = g.links /\ h.nodes[N].kind = kd
  BY <1>1 DEF Added
<1>6. \A s \in 1..c : Outlet(h, N, s)
  BY <1>1 DEF Added
<1>7. \A b \in DOMAIN is : Inlet(h, N, b) /\ (is[b] = 0 => Free(h, N, b))
  BY <1>1 DEF Added
<1> QED BY <1>1, <1>2, <1>3, <1>4, <1>5, <1>6, <1>7 DEF Brings

\* A new node with plan and policy at its first inputs, and three slots for widgets.
LEMMA FedNode ==
  ASSUME NEW K, NEW g \in Level(K), NEW kd \in K, Paired(g, {}), 1 \in DOMAIN g.inputs, 2 \in DOMAIN g.inputs,
         NEW N, N = Len(g.nodes) + 1,
         NEW h, h = LET x == AddNode(g, kd, <<Upcoming(g, 1), Upcoming(g, 2), 0, 0, 0>>, 1)
                    IN  Entering(Entering(x, 1, N, 1), 2, N, 2)
  PROVE  /\ h \in Level(K) /\ Extends(g, h, 1) /\ h.nodes[N].kind = kd /\ Outlet(h, N, 1)
         /\ Edges(h) = Edges(g) \cup {<<0, 1, N, 1>>, <<0, 2, N, 2>>}
         /\ Paired(h, {})
<1>1. PICK L \in Nat : L = Len(g.links)
  BY LevelIs
<1>2. N \in Nat
  BY LevelIs
<1>3. PICK is : is = <<L + 1, L + 2, 0, 0, 0>>
  OBVIOUS
<1>4. is \in Seq(Nat) /\ DOMAIN is = 1..5 /\ is[1] = L + 1 /\ is[2] = L + 2 /\ is[3] = 0 /\ is[4] = 0 /\ is[5] = 0
  BY <1>3
<1>5. PICK P1, P2 : P1 = {<<N, 1, L + 1>>, <<N, 2, L + 2>>} /\ P2 = {<<N, 2, L + 2>>}
  OBVIOUS
<1>6. Ahead(P1, N, is)
  <2>1. \A b \in 1..5 : b = 1 \/ b = 2 \/ b = 3 \/ b = 4 \/ b = 5
    OBVIOUS
  <2>2. 1 \in 1..5 /\ 2 \in 1..5 /\ L + 1 # 0 /\ L + 2 # 0
    OBVIOUS
  <2>3. ASSUME NEW a, NEW b, NEW l
        PROVE  <<a, b, l>> \in P1 <=> a = N /\ b \in DOMAIN is /\ l = is[b] /\ l # 0
    <3>1. <<a, b, l>> \in P1 <=> a = N /\ ((b = 1 /\ l = L + 1) \/ (b = 2 /\ l = L + 2))
      BY <1>5
    <3> QED BY <1>4, <2>1, <2>2, <3>1
  <2> QED BY <2>3, Zenon DEF Ahead
<1>7. PICK x : x = AddNode(g, kd, is, 1)
  OBVIOUS
<1>8. /\ x \in Level(K) /\ Extends(g, x, 1) /\ x.links = g.links /\ Edges(x) = Edges(g)
      /\ x.nodes[N].kind = kd /\ (\A s \in 1..1 : Outlet(x, N, s)) /\ Paired(x, P1)
  <2>1. x \in Level(K) /\ Brings(g, x, N, kd, is, 1) /\ Paired(x, P1)
    BY <1>4, <1>6, <1>7, NewNodeDoes
  <2> QED BY <2>1 DEF Brings
<1>9. PICK y, z : y = Entering(x, 1, N, 1) /\ z = Entering(y, 2, N, 2)
  OBVIOUS
<1>10. /\ y \in Level(K) /\ Linked(x, y, 0, 1, N, 1) /\ Paired(y, P2)
  <2>1. 1 \in DOMAIN x.inputs /\ Len(x.links) = L /\ P1 = {<<N, 1, L + 1>>} \cup P2
    BY <1>1, <1>5, <1>8 DEF Extends
  <2> QED BY <1>2, <1>8, <1>9, <2>1, EnteringDoes
<1>11. /\ z \in Level(K) /\ Linked(y, z, 0, 2, N, 2) /\ Paired(z, {})
  <2>1. 2 \in DOMAIN y.inputs
    BY <1>8, <1>10 DEF Extends, Linked, SameNodes
  <2>2. Len(y.links) + 1 = L + 2 /\ P2 = {<<N, 2, L + 2>>} \cup {}
    BY <1>1, <1>5, <1>8, <1>10 DEF Linked
  <2> QED BY <1>2, <1>9, <1>10, <2>1, <2>2, EnteringDoes, SMTT(30)
<1>12. h = z
  BY <1>1, <1>3, <1>7, <1>9 DEF Upcoming
<1>13. Extends(g, z, 1) /\ z.nodes[N].kind = kd /\ Outlet(z, N, 1)
  <2>1. SameNodes(x, z)
    BY <1>10, <1>11, SameTwice DEF Linked
  <2>2. N \in 1..Len(x.nodes) /\ Outlet(x, N, 1)
    BY <1>2, <1>8 DEF Extends
  <2>3. z.nodes[N].kind = kd /\ Outlet(z, N, 1)
    BY <1>8, <2>1, <2>2 DEF SameNodes
  <2>4. x \in Level(K) /\ Extends(g, x, 1) /\ Extends(x, z, 0)
    BY <1>8, <2>1, LinkedExtends
  <2> QED BY <2>3, <2>4, ExtendsTwice
<1>14. Edges(z) = Edges(g) \cup {<<0, 1, N, 1>>, <<0, 2, N, 2>>}
  BY <1>8, <1>10, <1>11 DEF Linked
<1> QED BY <1>11, <1>12, <1>13, <1>14

-----------------------------------------------------------------------------
(* Which references are images that the run makes                            *)

\* How many of the first k references of the shot are images that the run makes.
Rank(shot, k) == Cardinality({j \in 1..k : shot.refs[j].source # {}})

LEMMA RankIs ==
  ASSUME NEW shot, NEW n \in Nat
  PROVE  /\ \A k \in 0..n : Rank(shot, k) \in Nat /\ Rank(shot, k) <= Rank(shot, n)
         /\ Rank(shot, 0) = 0
         /\ \A k \in 1..n : Rank(shot, k) = IF shot.refs[k].source # {} THEN Rank(shot, k - 1) + 1
                                            ELSE Rank(shot, k - 1)
<1> DEFINE S(k) == {j \in 1..k : shot.refs[j].source # {}}
<1>1. ASSUME NEW k \in 0..n PROVE IsFiniteSet(S(k)) /\ Cardinality(S(k)) \in Nat
  <2>1. S(k) \subseteq 1..k /\ IsFiniteSet(1..k)
    BY FS_Interval
  <2>2. IsFiniteSet(S(k))
    BY <2>1, FS_Subset
  <2> QED BY <2>2, FS_CardinalityType
<1>2. ASSUME NEW k \in 0..n PROVE Cardinality(S(k)) <= Cardinality(S(n))
  <2>1. S(k) \subseteq S(n) /\ n \in 0..n
    OBVIOUS
  <2> HIDE DEF S
  <2> QED BY <1>1, <2>1, FS_Subset
<1>3. Cardinality(S(0)) = 0
  <2>1. S(0) = {}
    OBVIOUS
  <2> HIDE DEF S
  <2> QED BY <2>1, FS_EmptySet
<1>4. ASSUME NEW k \in 1..n
      PROVE  Cardinality(S(k)) = IF shot.refs[k].source # {} THEN Cardinality(S(k - 1)) + 1
                                 ELSE Cardinality(S(k - 1))
  <2>1. k - 1 \in 0..n /\ \A j : j \in 1..k <=> j \in 1..(k - 1) \/ j = k
    OBVIOUS
  <2>2. CASE shot.refs[k].source # {}
    <3>1. S(k) = S(k - 1) \cup {k} /\ k \notin S(k - 1)
      BY <2>1, <2>2
    <3> HIDE DEF S
    <3> QED BY <1>1, <2>1, <2>2, <3>1, FS_AddElement
  <2>3. CASE shot.refs[k].source = {}
    <3>1. S(k) = S(k - 1)
      BY <2>1, <2>3
    <3> QED BY <2>3, <3>1
  <2> QED BY <2>2, <2>3
<1> QED BY <1>1, <1>2, <1>3, <1>4 DEF Rank

Sourced(refs) == Only(refs, LAMBDA r : r.source # {})

LEMMA OnlySourced ==
  ASSUME NEW T, NEW refs \in Seq(T)
  PROVE  Kept(Sourced(refs), refs, {i \in DOMAIN refs : refs[i].source # {}})
<1> DEFINE I == {i \in DOMAIN refs : refs[i].source # {}}
           P(f) == f = [x \in SUBSET DOMAIN refs |->
                          IF x = {} THEN << >>
                          ELSE IF refs[Max(x)].source # {} THEN Append(f[x \ {Max(x)}], refs[Max(x)])
                               ELSE f[x \ {Max(x)}]]
<1>1. ASSUME NEW f PROVE P(f) <=> Keeps(f, refs, I)
  <2>1. \A x \in SUBSET DOMAIN refs : x # {} => (Max(x) \in I <=> refs[Max(x)].source # {})
    BY GreatestPosition
  <2> HIDE DEF I
  <2> QED BY <2>1 DEF Keeps
<1>2. Sourced(refs) = (CHOOSE f : P(f))[DOMAIN refs]
  BY DEF Sourced, Only, FoldLeft, MapThenFoldSet
<1> HIDE DEF P
<1>3. P(CHOOSE f : P(f))
  <2>1. \E f : P(f)
    BY <1>1, KeepsExists
  <2> QED BY <2>1, Zenon
<1>4. PICK f : f = CHOOSE g : P(g)
  OBVIOUS
<1>5. Keeps(f, refs, I)
  BY <1>1, <1>3, <1>4
<1>6. I \in SUBSET DOMAIN refs
  OBVIOUS
<1> HIDE DEF I
<1>7. Kept(f[DOMAIN refs], refs, I)
  BY <1>5, <1>6, KeepsDoes
<1> QED BY <1>2, <1>4, <1>7 DEF I

LEMMA SourcedCount ==
  ASSUME NEW shot, NEW T, shot.refs \in Seq(T)
  PROVE  Len(Sourced(shot.refs)) = Rank(shot, Len(shot.refs))
<1>1. PICK refs \in Seq(T) : refs = shot.refs
  OBVIOUS
<1>2. PICK I : I = {i \in DOMAIN refs : refs[i].source # {}}
  OBVIOUS
<1>3. PICK k : k = Sourced(refs)
  OBVIOUS
<1>4. Kept(k, refs, I)
  BY <1>2, <1>3, OnlySourced
<1>5. PICK m \in Nat : \E p \in Bijection(1..m, I) : k = [j \in 1..m |-> refs[p[j]]]
  BY <1>4 DEF Kept
<1>6. Len(k) = m
  BY <1>5
<1>7. Cardinality(I) = m
  BY <1>5, FS_CountingElements DEF ExistsBijection
<1>8. I = {j \in 1..Len(refs) : refs[j].source # {}}
  BY <1>2
<1> QED BY <1>1, <1>3, <1>6, <1>7, <1>8 DEF Rank

-----------------------------------------------------------------------------
(* The subgraph of a shot                                                    *)

\* One iteration of WithReferences.
Refer(acc, shot, r) ==
  LET node == AddNode(acc.g, Direct(shot.id, r.id), <<Upcoming(acc.g, 1), Upcoming(acc.g, 2), 0, 0, 0>>, 1)
      n == Len(node.nodes)
  IN  IF r.source # {}
      THEN [acc EXCEPT !.sources = Append(@, <<0, acc.outside>>), !.outside = @ + 1]
      ELSE [acc EXCEPT !.sources = Append(@, <<n, 1>>), !.g = Entering(Entering(node, 1, n, 1), 2, n, 2)]

\* The slots for plan and policy, and what else there is at the edge of the subgraph.
Edged(g, c) == DOMAIN g.inputs = 1..(2 + c) /\ DOMAIN g.outputs = {1, 2}

\* What a subgraph is made of.
KindsOf(shot) ==
  {Direct(shot.id, shot.refs[k].id) : k \in DOMAIN shot.refs}
  \cup {CanvasPack(shot.id, Len(shot.refs)), Keyframe(shot), VideoPack(shot.id, 1 + Len(shot.refs)),
        PromptOf(shot.id), VideoNode(shot.id)}

\* The source of each of the first i references: an input of the subgraph or the file's node.
Sources(g, ss, shot, i) ==
  \A k \in 1..i :
    IF shot.refs[k].source # {} THEN ss[k] = <<0, 2 + Rank(shot, k)>>
    ELSE /\ Outlet(g, ss[k][1], 1) /\ ss[k][2] = 1
         /\ g.nodes[ss[k][1]].kind = Direct(shot.id, shot.refs[k].id)
\* The nodes are those of the files, and are fed by plan and policy.
Files(g, shot, i) ==
  /\ \A n \in 1..Len(g.nodes) :
       \E k \in 1..i : shot.refs[k].source = {} /\ g.nodes[n].kind = Direct(shot.id, shot.refs[k].id)
  /\ Edges(g) = UNION {{<<0, 1, n, 1>>, <<0, 2, n, 2>>} : n \in 1..Len(g.nodes)}

\* After the first i references: those that the run makes are inputs in their order, the others
\* are nodes, and each node is fed by plan and policy.
Referred(acc, shot, i) ==
  /\ acc = [g |-> acc.g, sources |-> acc.sources, outside |-> acc.outside]
  /\ acc.g \in Level(KindsOf(shot)) /\ Paired(acc.g, {}) /\ Edged(acc.g, Rank(shot, Len(shot.refs)))
  /\ acc.outside = 3 + Rank(shot, i)
  /\ acc.sources \in Seq(Nat \X Nat) /\ Len(acc.sources) = i
  /\ Sources(acc.g, acc.sources, shot, i) /\ Files(acc.g, shot, i)

LEMMA ReferStep ==
  ASSUME NEW shot, NEW T, shot.refs \in Seq(T), NEW i \in 1..Len(shot.refs),
         NEW acc, Referred(acc, shot, i - 1)
  PROVE  Referred(Refer(acc, shot, shot.refs[i]), shot, i)
<1>1. PICK n \in Nat : n = Len(shot.refs) /\ DOMAIN shot.refs = 1..n
  <2>1. Len(shot.refs) \in Nat /\ DOMAIN shot.refs = 1..Len(shot.refs)
    OBVIOUS
  <2> QED BY <2>1
<1>2. i \in Nat /\ i # 0 /\ i - 1 \in Nat /\ i \in 1..n /\ \A k \in 1..i : k \in 1..(i - 1) \/ k = i
  BY <1>1
<1>3. Rank(shot, i) = (IF shot.refs[i].source # {} THEN Rank(shot, i - 1) + 1 ELSE Rank(shot, i - 1))
      /\ Rank(shot, i - 1) \in Nat /\ Rank(shot, i) \in Nat
  BY <1>1, <1>2, RankIs
<1>4. PICK g \in Level(KindsOf(shot)), ss \in Seq(Nat \X Nat), os \in Nat :
         acc = [g |-> g, sources |-> ss, outside |-> os]
  BY <1>3 DEF Referred
<1>5. acc.g = g /\ acc.sources = ss /\ acc.outside = os
  BY <1>4
<1>6. PICK N \in Nat : N = Len(g.nodes)
  BY LevelIs
<1>7. PICK new : new = Refer(acc, shot, shot.refs[i])
  OBVIOUS
<1>8. /\ Paired(g, {}) /\ Edged(g, Rank(shot, n)) /\ os = 3 + Rank(shot, i - 1) /\ Len(ss) = i - 1
      /\ Sources(g, ss, shot, i - 1) /\ Files(g, shot, i - 1)
  BY <1>1, <1>5, <1>6 DEF Referred
<1>9. CASE shot.refs[i].source # {}
  <2>1. PICK e \in Nat \X Nat : e = <<0, os>>
    OBVIOUS
  <2>2. PICK s2 : s2 = Append(ss, e)
    OBVIOUS
  <2>3. s2 \in Seq(Nat \X Nat) /\ Len(s2) = i /\ s2[i] = e /\ \A k \in 1..(i - 1) : s2[k] = ss[k]
    BY <1>2, <1>8, <2>2
  <2>4. new = [g |-> g, sources |-> s2, outside |-> os + 1]
    BY <1>4, <1>5, <1>7, <1>9, <2>1, <2>2 DEF Refer
  <2>5. new.g = g /\ new.sources = s2 /\ new.outside = os + 1
    BY <2>4
  <2>6. os + 1 = 3 + Rank(shot, i) /\ e = <<0, 2 + Rank(shot, i)>>
    BY <1>3, <1>8, <1>9, <2>1
  <2>7. Sources(g, s2, shot, i)
    <3>1. ASSUME NEW k \in 1..i
          PROVE  IF shot.refs[k].source # {} THEN s2[k] = <<0, 2 + Rank(shot, k)>>
                 ELSE /\ Outlet(g, s2[k][1], 1) /\ s2[k][2] = 1
                      /\ g.nodes[s2[k][1]].kind = Direct(shot.id, shot.refs[k].id)
      <4>1. CASE k \in 1..(i - 1)
        BY <1>8, <2>3, <4>1 DEF Sources
      <4>2. CASE k = i
        BY <1>9, <2>3, <2>6, <4>2
      <4> QED BY <1>2, <4>1, <4>2
    <3> QED BY <3>1 DEF Sources
  <2>8. Files(g, shot, i)
    <3>1. \A k \in 1..(i - 1) : k \in 1..i
      BY <1>2
    <3> QED BY <1>8, <3>1 DEF Files
  <2>9. new = [g |-> new.g, sources |-> new.sources, outside |-> new.outside]
    BY <2>4
  <2>10. Referred(new, shot, i)
    BY <1>1, <1>8, <2>3, <2>5, <2>6, <2>7, <2>8, <2>9 DEF Referred
  <2> QED BY <1>7, <2>10
<1>10. CASE shot.refs[i].source = {}
  <2>1. PICK kd \in KindsOf(shot) : kd = Direct(shot.id, shot.refs[i].id)
    BY <1>1, <1>2 DEF KindsOf
  <2>2. PICK x : x = AddNode(g, kd, <<Upcoming(g, 1), Upcoming(g, 2), 0, 0, 0>>, 1)
    OBVIOUS
  <2>3. Len(x.nodes) = N + 1
    <3>1. PICK is : is = <<Upcoming(g, 1), Upcoming(g, 2), 0, 0, 0>>
      OBVIOUS
    <3>2. is \in Seq(Nat)
      <4>1. Upcoming(g, 1) \in Nat /\ Upcoming(g, 2) \in Nat
        BY LevelIs DEF Upcoming
      <4> QED BY <3>1, <4>1
    <3>3. Added(g, x, kd, is, 1)
      <4>1. PICK c \in {1, 2} : c = 1
        OBVIOUS
      <4>2. x = AddNode(g, kd, is, c)
        BY <2>2, <3>1, <4>1
      <4>3. Added(g, x, kd, is, c)
        BY <2>1, <3>2, <4>2, AddNodeDoes
      <4> QED BY <4>1, <4>3
    <3> QED BY <1>6, <3>3 DEF Added
  <2>4. PICK h : h = Entering(Entering(x, 1, N + 1, 1), 2, N + 1, 2)
    OBVIOUS
  <2>5. /\ h \in Level(KindsOf(shot)) /\ Extends(g, h, 1) /\ h.nodes[N + 1].kind = kd /\ Outlet(h, N + 1, 1)
        /\ Edges(h) = Edges(g) \cup {<<0, 1, N + 1, 1>>, <<0, 2, N + 1, 2>>}
        /\ Paired(h, {})
    <3>1. 1 \in DOMAIN g.inputs /\ 2 \in DOMAIN g.inputs
      BY <1>1, <1>8, RankIs DEF Edged
    <3>2. PICK M : M = N + 1
      OBVIOUS
    <3>3. h = LET y == AddNode(g, kd, <<Upcoming(g, 1), Upcoming(g, 2), 0, 0, 0>>, 1)
              IN  Entering(Entering(y, 1, M, 1), 2, M, 2)
      BY <2>2, <2>4, <3>2
    <3>4. M = Len(g.nodes) + 1
      BY <1>6, <3>2
    <3>5. /\ h \in Level(KindsOf(shot)) /\ Extends(g, h, 1) /\ h.nodes[M].kind = kd /\ Outlet(h, M, 1)
          /\ Edges(h) = Edges(g) \cup {<<0, 1, M, 1>>, <<0, 2, M, 2>>}
          /\ Paired(h, {})
      <4>1. PICK K : K = KindsOf(shot)
        OBVIOUS
      <4>2. g \in Level(K) /\ kd \in K
        BY <4>1
      <4>3. Paired(g, {})
        BY <1>8
      <4> QED BY <3>1, <3>3, <3>4, <4>1, <4>2, <4>3, FedNode
    <3> QED BY <3>2, <3>5
  <2>6. PICK e \in Nat \X Nat : e = <<N + 1, 1>>
    <3>1. N + 1 \in Nat
      OBVIOUS
    <3> QED BY <3>1
  <2>7. PICK s2 : s2 = Append(ss, e)
    OBVIOUS
  <2>8. s2 \in Seq(Nat \X Nat) /\ Len(s2) = i /\ s2[i] = e /\ \A k \in 1..(i - 1) : s2[k] = ss[k]
    BY <1>2, <1>8, <2>7
  <2>9. new = [g |-> h, sources |-> s2, outside |-> os]
    BY <1>4, <1>5, <1>7, <1>10, <2>1, <2>2, <2>3, <2>4, <2>6, <2>7 DEF Refer
  <2>10. new.g = h /\ new.sources = s2 /\ new.outside = os
    BY <2>9
  <2>11. os = 3 + Rank(shot, i)
    BY <1>3, <1>8, <1>10
  <2>12. Len(h.nodes) = N + 1 /\ \A m \in 1..N : h.nodes[m].kind = g.nodes[m].kind
    BY <1>6, <2>5 DEF Extends
  <2>13. Sources(h, s2, shot, i)
    <3>1. ASSUME NEW k \in 1..i
          PROVE  IF shot.refs[k].source # {} THEN s2[k] = <<0, 2 + Rank(shot, k)>>
                 ELSE /\ Outlet(h, s2[k][1], 1) /\ s2[k][2] = 1
                      /\ h.nodes[s2[k][1]].kind = Direct(shot.id, shot.refs[k].id)
      <4>1. CASE k \in 1..(i - 1)
        <5>1. Outlet(g, ss[k][1], 1) => Outlet(h, ss[k][1], 1) /\ h.nodes[ss[k][1]].kind = g.nodes[ss[k][1]].kind
          BY <1>6, <2>5, <2>12 DEF Extends, Outlet
        <5> QED BY <1>8, <2>8, <4>1, <5>1 DEF Sources
      <4>2. CASE k = i
        BY <1>10, <2>1, <2>5, <2>6, <2>8, <4>2
      <4> QED BY <1>2, <4>1, <4>2
    <3> QED BY <3>1 DEF Sources
  <2>14. \A m \in 1..(N + 1) :
           \E k \in 1..i : shot.refs[k].source = {} /\ h.nodes[m].kind = Direct(shot.id, shot.refs[k].id)
    <3>1. ASSUME NEW m \in 1..N
          PROVE  \E k \in 1..i : shot.refs[k].source = {} /\ h.nodes[m].kind = Direct(shot.id, shot.refs[k].id)
      <4>1. PICK k \in 1..(i - 1) : shot.refs[k].source = {} /\ g.nodes[m].kind = Direct(shot.id, shot.refs[k].id)
        BY <1>6, <1>8 DEF Files
      <4>2. k \in 1..i /\ h.nodes[m].kind = g.nodes[m].kind
        BY <1>2, <2>12
      <4> QED BY <4>1, <4>2
    <3>2. \E k \in 1..i : shot.refs[k].source = {} /\ h.nodes[N + 1].kind = Direct(shot.id, shot.refs[k].id)
      <4>1. i \in 1..i
        BY <1>2
      <4> QED BY <1>10, <2>1, <2>5, <4>1
    <3>3. \A m : m \in 1..(N + 1) <=> m \in 1..N \/ m = N + 1
      OBVIOUS
    <3> QED BY <3>1, <3>2, <3>3
  <2>15. Edges(h) = UNION {{<<0, 1, m, 1>>, <<0, 2, m, 2>>} : m \in 1..(N + 1)}
    <3>1. \A m : m \in 1..(N + 1) <=> m \in 1..N \/ m = N + 1
      OBVIOUS
    <3>2. Edges(g) = UNION {{<<0, 1, m, 1>>, <<0, 2, m, 2>>} : m \in 1..N}
      BY <1>6, <1>8 DEF Files
    <3> QED BY <2>5, <3>1, <3>2
  <2>16. Files(h, shot, i)
    BY <2>12, <2>14, <2>15 DEF Files
  <2>17. Edged(h, Rank(shot, n))
    BY <1>8, <2>5 DEF Edged, Extends
  <2>18. new = [g |-> new.g, sources |-> new.sources, outside |-> new.outside]
    BY <2>9
  <2>19. Referred(new, shot, i)
    BY <1>1, <2>5, <2>8, <2>10, <2>11, <2>13, <2>16, <2>17, <2>18 DEF Referred
  <2> QED BY <1>7, <2>19
<1> QED BY <1>9, <1>10

\* acc is what WithReferences makes of the first i references.
Referring(h, shot) ==
  /\ h[0] = [g |-> EmptySubgraph(shot), sources |-> << >>, outside |-> 3]
  /\ \A i \in 1..Len(shot.refs) : h[i] = Refer(h[i - 1], shot, shot.refs[i])

LEMMA EmptyReferred ==
  ASSUME NEW shot, NEW T, shot.refs \in Seq(T)
  PROVE  Referred([g |-> EmptySubgraph(shot), sources |-> << >>, outside |-> 3], shot, 0)
<1>1. PICK c \in Nat : c = Rank(shot, Len(shot.refs)) /\ c = Len(Sourced(shot.refs))
  <2>1. Len(shot.refs) \in Nat
    OBVIOUS
  <2>2. Rank(shot, Len(shot.refs)) \in Nat
    BY <2>1, RankIs
  <2>3. Len(Sourced(shot.refs)) = Rank(shot, Len(shot.refs))
    BY SourcedCount
  <2> QED BY <2>2, <2>3
<1>2. PICK ins : ins = [i \in 1..(2 + c) |-> << >>]
  OBVIOUS
<1>3. PICK outs : outs = << << >>, << >> >>
  OBVIOUS
<1>4. PICK g : g = [nodes |-> << >>, links |-> << >>, inputs |-> ins, outputs |-> outs]
  OBVIOUS
<1>5. EmptySubgraph(shot) = g
  <2>1. PICK e : e = [NoLevel EXCEPT !.outputs = outs, !.inputs = ins]
    OBVIOUS
  <2>2. EmptySubgraph(shot) = [NoLevel EXCEPT !.outputs = << << >>, << >> >>,
                                              !.inputs = [i \in 1..2 + Len(Sourced(shot.refs)) |-> << >>]]
    BY Zenon DEF EmptySubgraph, Sourced
  <2>3. EmptySubgraph(shot) = e
    BY <1>1, <1>2, <1>3, <2>1, <2>2, Zenon
  <2>4. e = g
    <3>1. PICK e1 : e1 = [NoLevel EXCEPT !.outputs = outs]
      OBVIOUS
    <3>2. e1 = [nodes |-> << >>, links |-> << >>, inputs |-> << >>, outputs |-> outs]
      BY <3>1 DEF NoLevel
    <3>3. e = [e1 EXCEPT !.inputs = ins]
      BY <2>1, <3>1
    <3> QED BY <1>4, <3>2, <3>3
  <2> QED BY <2>3, <2>4
<1>6. g.nodes = << >> /\ g.links = << >> /\ g.inputs = ins /\ g.outputs = outs
  BY <1>4
<1>7. /\ ins \in Seq(Seq(Nat)) /\ DOMAIN ins = 1..(2 + c) /\ \A i \in 1..(2 + c) : ins[i] = << >>
      /\ outs \in Seq(Seq(Nat)) /\ DOMAIN outs = {1, 2} /\ \A i \in {1, 2} : outs[i] = << >>
  <2>1. << >> \in Seq(Nat)
    OBVIOUS
  <2>2. ins \in Seq(Seq(Nat)) /\ DOMAIN ins = 1..(2 + c) /\ \A i \in 1..(2 + c) : ins[i] = << >>
    BY <1>2, <2>1
  <2>3. outs \in Seq(Seq(Nat)) /\ Len(outs) = 2 /\ outs[1] = << >> /\ outs[2] = << >>
    BY <1>3, <2>1
  <2>4. DOMAIN outs = {1, 2}
    BY <2>3
  <2> QED BY <2>2, <2>3, <2>4
<1>8. g \in Level(KindsOf(shot))
  <2>1. << >> \in Seq(NodeOf(KindsOf(shot))) /\ << >> \in Seq(Wire)
    OBVIOUS
  <2> QED BY <1>4, <1>7, <2>1 DEF Level
<1>9. Len(g.nodes) = 0 /\ Len(g.links) = 0 /\ ToSet(<< >>) = {} /\ \A a : a \notin 1..0
  BY <1>6 DEF ToSet
<1>10. Paired(g, {})
  <2>1. \A a, b, l : ~OutAt(g, a, b, l) /\ ~InAt(g, a, b, l) /\ ~OriginAt(g, a, b, l) /\ ~TargetAt(g, a, b, l)
    BY <1>6, <1>7, <1>9 DEF OutAt, InAt, Outlet, Inlet, OriginAt, TargetAt
  <2> QED BY <2>1 DEF Paired
<1>11. Edged(g, c)
  BY <1>6, <1>7 DEF Edged
<1>12. PICK acc : acc = [g |-> g, sources |-> << >>, outside |-> 3]
  OBVIOUS
<1>13. acc.g = g /\ acc.sources = << >> /\ acc.outside = 3
  BY <1>12
<1>14. Rank(shot, 0) = 0
  <2>1. 0 \in Nat
    OBVIOUS
  <2> QED BY <2>1, RankIs
<1>15. Sources(g, << >>, shot, 0) /\ Files(g, shot, 0)
  BY <1>9 DEF Sources, Files, Edges
<1>16. << >> \in Seq(Nat \X Nat) /\ Len(<< >>) = 0
  OBVIOUS
<1>17. Referred(acc, shot, 0)
  BY <1>1, <1>8, <1>10, <1>11, <1>12, <1>13, <1>14, <1>15, <1>16 DEF Referred
<1> QED BY <1>5, <1>12, <1>17

LEMMA ReferFold ==
  ASSUME NEW shot, NEW T, shot.refs \in Seq(T)
  PROVE  \E h : Referring(h, shot) /\ WithReferences(shot) = h[Len(shot.refs)]
<1> DEFINE refs == shot.refs
           start == [g |-> EmptySubgraph(shot), sources |-> << >>, outside |-> 3]
           node(f, x) == AddNode(f[x \ {Max(x)}].g, Direct(shot.id, refs[Max(x)].id),
                                 <<Upcoming(f[x \ {Max(x)}].g, 1), Upcoming(f[x \ {Max(x)}].g, 2), 0, 0, 0>>, 1)
           P(f) == f = [x \in SUBSET DOMAIN refs |->
                          IF x = {} THEN start
                          ELSE IF refs[Max(x)].source # {}
                               THEN [f[x \ {Max(x)}] EXCEPT !.sources = Append(@, <<0, f[x \ {Max(x)}].outside>>),
                                                            !.outside = @ + 1]
                               ELSE [f[x \ {Max(x)}] EXCEPT
                                       !.sources = Append(@, <<Len(node(f, x).nodes), 1>>),
                                       !.g = Entering(Entering(node(f, x), 1, Len(node(f, x).nodes), 1),
                                                      2, Len(node(f, x).nodes), 2)]]
           Q(f) == f = [x \in SUBSET DOMAIN refs |->
                          IF x = {} THEN start ELSE Refer(f[x \ {Max(x)}], shot, refs[Max(x)])]
<1>1. PICK n \in Nat : n = Len(refs) /\ DOMAIN refs = 1..n
  <2>1. Len(refs) \in Nat /\ DOMAIN refs = 1..Len(refs)
    OBVIOUS
  <2> QED BY <2>1
<1>2. WithReferences(shot) = (CHOOSE f : P(f))[DOMAIN refs]
  BY DEF WithReferences, FoldLeft, MapThenFoldSet
<1>3. ASSUME NEW f PROVE P(f) <=> Q(f)
  BY DEF Refer
<1> HIDE DEF P
<1>4. PICK L : L = {h \in Level(KindsOf(shot)) : 1 \in DOMAIN h.inputs /\ 2 \in DOMAIN h.inputs}
  OBVIOUS
<1>5. PICK A : A = [g : L, sources : Seq(Nat \X Nat), outside : Nat]
  OBVIOUS
<1>6. ASSUME NEW acc \in A, NEW i \in 1..n PROVE Refer(acc, shot, refs[i]) \in A
  <2>1. PICK g \in L, ss \in Seq(Nat \X Nat), o \in Nat : acc = [g |-> g, sources |-> ss, outside |-> o]
    BY <1>5
  <2>2. acc.g = g /\ acc.sources = ss /\ acc.outside = o
    BY <2>1
  <2>3. CASE refs[i].source # {}
    <3>1. PICK e \in Nat \X Nat : e = <<0, o>>
      OBVIOUS
    <3>2. PICK s2 \in Seq(Nat \X Nat) : s2 = Append(ss, e)
      <4>1. \A M : \A s \in Seq(M) : \A v \in M : Append(s, v) \in Seq(M)
        OBVIOUS
      <4>2. Append(ss, e) \in Seq(Nat \X Nat)
        BY <4>1, Zenon
      <4> QED BY <4>2, Zenon
    <3>3. Refer(acc, shot, refs[i]) = [g |-> g, sources |-> s2, outside |-> o + 1]
      BY <2>1, <2>2, <2>3, <3>1, <3>2 DEF Refer
    <3> QED BY <1>5, <3>3
  <2>4. CASE refs[i].source = {}
    <3>1. PICK kd \in KindsOf(shot) : kd = Direct(shot.id, refs[i].id)
      BY <1>1 DEF KindsOf
    <3>2. PICK x : x = AddNode(g, kd, <<Upcoming(g, 1), Upcoming(g, 2), 0, 0, 0>>, 1)
      OBVIOUS
    <3>3. g \in Level(KindsOf(shot)) /\ 1 \in DOMAIN g.inputs /\ 2 \in DOMAIN g.inputs
      BY <1>4
    <3>4. x \in Level(KindsOf(shot)) /\ x.inputs = g.inputs /\ Len(x.nodes) = Len(g.nodes) + 1 /\ Len(g.nodes) \in Nat
      <4>1. PICK is : is = <<Upcoming(g, 1), Upcoming(g, 2), 0, 0, 0>>
        OBVIOUS
      <4>2. is \in Seq(Nat)
        <5>1. Upcoming(g, 1) \in Nat /\ Upcoming(g, 2) \in Nat
          BY <3>3, LevelIs DEF Upcoming
        <5> QED BY <4>1, <5>1
      <4>3. PICK c \in {1, 2} : c = 1
        OBVIOUS
      <4>4. x = AddNode(g, kd, is, c)
        BY <3>2, <4>1, <4>3
      <4>5. x \in Level(KindsOf(shot)) /\ Added(g, x, kd, is, c)
        BY <3>3, <4>2, <4>4, AddNodeDoes
      <4>6. Len(g.nodes) \in Nat
        BY <3>3, LevelIs
      <4> QED BY <4>5, <4>6 DEF Added
    <3>5. PICK N \in Nat : N = Len(x.nodes)
      BY <3>4
    <3>6. PICK y, z : y = Entering(x, 1, N, 1) /\ z = Entering(y, 2, N, 2)
      OBVIOUS
    <3>7. y \in Level(KindsOf(shot)) /\ DOMAIN y.inputs = DOMAIN g.inputs
      <4>1. 1 \in DOMAIN x.inputs
        BY <3>3, <3>4
      <4>2. y \in Level(KindsOf(shot)) /\ Linked(x, y, 0, 1, N, 1)
        BY <3>4, <3>6, <4>1, EnteringDoes
      <4> QED BY <3>4, <4>2 DEF Linked, SameNodes
    <3>8. z \in Level(KindsOf(shot)) /\ DOMAIN z.inputs = DOMAIN g.inputs
      <4>1. 2 \in DOMAIN y.inputs
        BY <3>3, <3>7
      <4>2. z \in Level(KindsOf(shot)) /\ Linked(y, z, 0, 2, N, 2)
        BY <3>6, <3>7, <4>1, EnteringDoes
      <4> QED BY <3>7, <4>2 DEF Linked, SameNodes
    <3>9. z \in L
      BY <1>4, <3>3, <3>8
    <3>10. PICK e \in Nat \X Nat : e = <<N, 1>>
      OBVIOUS
    <3>11. PICK s2 \in Seq(Nat \X Nat) : s2 = Append(ss, e)
      <4>1. \A M : \A s \in Seq(M) : \A v \in M : Append(s, v) \in Seq(M)
        OBVIOUS
      <4>2. Append(ss, e) \in Seq(Nat \X Nat)
        BY <4>1, Zenon
      <4> QED BY <4>2, Zenon
    <3>12. Refer(acc, shot, refs[i]) = [g |-> z, sources |-> s2, outside |-> o]
      BY <2>1, <2>2, <2>4, <3>1, <3>2, <3>5, <3>6, <3>10, <3>11 DEF Refer
    <3> QED BY <1>5, <3>9, <3>12
  <2> QED BY <2>3, <2>4
<1>7. PICK op \in [A \X (1..n) -> A] : \A acc \in A : \A i \in 1..n : op[<<acc, i>>] = Refer(acc, shot, refs[i])
  <2> DEFINE h == [q \in A \X (1..n) |-> Refer(q[1], shot, refs[q[2]])]
  <2>1. h \in [A \X (1..n) -> A]
    BY <1>6
  <2>2. \A acc \in A : \A i \in 1..n : h[<<acc, i>>] = Refer(acc, shot, refs[i])
    OBVIOUS
  <2> HIDE DEF h
  <2> QED BY <2>1, <2>2
<1>8. PICK base \in A : base = start
  <2>1. Referred(start, shot, 0) /\ Len(refs) \in Nat
    BY <1>1, EmptyReferred
  <2>2. PICK g : g = EmptySubgraph(shot)
    OBVIOUS
  <2>3. start.g = g /\ start = [g |-> g, sources |-> << >>, outside |-> 3]
    BY <2>2
  <2>4. g \in Level(KindsOf(shot)) /\ Edged(g, Rank(shot, Len(refs)))
    BY <2>1, <2>3 DEF Referred
  <2>5. Rank(shot, Len(refs)) \in Nat
    BY <2>1, RankIs
  <2>6. 1 \in DOMAIN g.inputs /\ 2 \in DOMAIN g.inputs
    BY <2>4, <2>5 DEF Edged
  <2>7. << >> \in Seq(Nat \X Nat) /\ g \in L
    BY <1>4, <2>4, <2>6
  <2>8. start \in A
    BY <1>5, <2>3, <2>7
  <2> QED BY <2>8
<1> HIDE DEF start
<1>9. PICK c \in [SUBSET (1..n) -> A] : Folding(c, n, base, op)
  BY FoldExists
<1>10. ASSUME NEW x \in SUBSET (1..n), x # {} PROVE Max(x) \in 1..n /\ x \ {Max(x)} \in SUBSET (1..n)
  <2>1. PICK s \in Seq(T) : s = refs
    OBVIOUS
  <2>2. x \in SUBSET DOMAIN s
    BY <1>1, <2>1
  <2>3. Max(x) \in DOMAIN s /\ x \ {Max(x)} \in SUBSET DOMAIN s
    BY <1>10, <2>2, GreatestPosition
  <2> QED BY <1>1, <2>1, <2>3
<1>11. Q(c)
  <2>1. ASSUME NEW x \in SUBSET (1..n), x # {}
        PROVE  c[x] = Refer(c[x \ {Max(x)}], shot, refs[Max(x)])
    <3>1. c[x] = op[<<c[x \ {Max(x)}], Max(x)>>]
      BY <1>9, <2>1 DEF Folding
    <3> QED BY <1>7, <1>9, <1>10, <2>1, <3>1
  <2>2. c[{}] = start
    BY <1>8, <1>9 DEF Folding
  <2>3. c = [x \in SUBSET (1..n) |-> c[x]]
    BY <1>9
  <2> QED BY <1>1, <2>1, <2>2, <2>3
<1>12. PICK f : f = CHOOSE h : P(h)
  OBVIOUS
<1>13. Q(f)
  <2> HIDE DEF Q
  <2>1. P(c)
    BY <1>3, <1>11
  <2>2. P(CHOOSE h : P(h))
    BY <2>1, Zenon
  <2> QED BY <1>3, <1>12, <2>2
<1>14. f[{}] = start /\ \A x \in SUBSET (1..n) : x # {} => f[x] = Refer(f[x \ {Max(x)}], shot, refs[Max(x)])
  BY <1>1, <1>13, Zenon
<1> HIDE DEF Q
<1> DEFINE h == [i \in 0..n |-> f[1..i]]
<1>15. h[0] = start
  <2>1. 1..0 = {} /\ 0 \in 0..n
    OBVIOUS
  <2>2. h[0] = f[{}]
    BY <2>1
  <2> QED BY <1>14, <2>2
<1>16. ASSUME NEW i \in 1..n PROVE h[i] = Refer(h[i - 1], shot, refs[i])
  <2>1. PICK x : x = 1..i
    OBVIOUS
  <2>2. i \in Nat /\ i # 0 /\ x \in SUBSET (1..n)
    BY <2>1
  <2>3. x # {} /\ Max(x) = i /\ x \ {i} = 1..(i - 1)
    BY <2>1, <2>2, Initial
  <2>4. f[x] = Refer(f[x \ {i}], shot, refs[i])
    BY <1>14, <2>2, <2>3
  <2>5. h[i] = f[1..i] /\ h[i - 1] = f[1..(i - 1)]
    <3>1. i \in 0..n /\ i - 1 \in 0..n
      OBVIOUS
    <3> QED BY <3>1
  <2> QED BY <2>1, <2>3, <2>4, <2>5
<1>17. h[n] = f[1..n]
  OBVIOUS
<1> HIDE DEF h
<1>18. Referring(h, shot)
  BY <1>1, <1>15, <1>16 DEF Referring, start
<1> QED BY <1>1, <1>2, <1>12, <1>17, <1>18, Zenon

LEMMA ReferencesDo ==
  ASSUME NEW shot, NEW T, shot.refs \in Seq(T)
  PROVE  Referred(WithReferences(shot), shot, Len(shot.refs))
<1>1. PICK h : Referring(h, shot) /\ WithReferences(shot) = h[Len(shot.refs)]
  BY ReferFold
<1>2. PICK n \in Nat : n = Len(shot.refs)
  OBVIOUS
<1> DEFINE S == {i \in 0..n : Referred(h[i], shot, i)}
<1>3. 0 \in S
  BY <1>1, EmptyReferred DEF Referring
<1>4. ASSUME NEW i \in 1..n, i - 1 \in S PROVE i \in S
  <2>1. Referred(h[i - 1], shot, i - 1) /\ i \in 1..Len(shot.refs)
    BY <1>2, <1>4
  <2>2. Referred(Refer(h[i - 1], shot, shot.refs[i]), shot, i)
    BY <2>1, ReferStep
  <2>3. h[i] = Refer(h[i - 1], shot, shot.refs[i])
    BY <1>1, <1>2 DEF Referring
  <2>4. Referred(h[i], shot, i) /\ i \in 0..n
    BY <2>2, <2>3
  <2> QED BY <2>4
<1>5. n \in S
  <2> HIDE DEF S
  <2>1. n \in 0..n
    OBVIOUS
  <2> QED BY <1>3, <1>4, <2>1, UpTo
<1> QED BY <1>1, <1>2, <1>5

LEMMA StillExtends ==
  ASSUME NEW K, NEW g \in Level(K), NEW h \in Level(K), NEW k, NEW c \in Nat, Extends(g, h, c), SameNodes(h, k)
  PROVE  Extends(g, k, c)
<1>1. Extends(h, k, 0)
  BY LinkedExtends
<1>2. Extends(g, k, c + 0)
  <2>1. 0 \in Nat
    OBVIOUS
  <2> QED BY <1>1, <2>1, ExtendsTwice
<1>3. c + 0 = c
  OBVIOUS
<1> QED BY <1>2, <1>3

\* The first two entries of is are links L + 1 and L + 2, the others are in R.
FirstTwo(N, L, is, R) ==
  \E P1, P2 : P1 = {<<N, 1, L + 1>>} \cup P2 /\ P2 = {<<N, 2, L + 2>>} \cup R /\ Ahead(P1, N, is)

\* A new node with plan and policy at its first inputs; R is what else is ahead of its links.
LEMMA FedDoes ==
  ASSUME NEW K, NEW g \in Level(K), NEW kd \in K, Paired(g, {}), 1 \in DOMAIN g.inputs, 2 \in DOMAIN g.inputs,
         NEW N \in Nat, N = Len(g.nodes) + 1, NEW L \in Nat, L = Len(g.links), NEW is \in Seq(Nat), NEW R, FirstTwo(N, L, is, R),
         NEW x, x = AddNode(g, kd, is, 1), NEW h, h = Entering(Entering(x, 1, N, 1), 2, N, 2)
  PROVE  /\ h \in Level(K) /\ Extends(g, h, 1) /\ h.nodes[N].kind = kd /\ Outlet(h, N, 1)
         /\ Edges(h) = Edges(g) \cup {<<0, 1, N, 1>>, <<0, 2, N, 2>>}
         /\ Paired(h, R) /\ Len(h.links) = L + 2
<1>1. PICK P1, P2 : P1 = {<<N, 1, L + 1>>} \cup P2 /\ P2 = {<<N, 2, L + 2>>} \cup R /\ Ahead(P1, N, is)
  BY DEF FirstTwo
<1>2. /\ x \in Level(K) /\ Extends(g, x, 1) /\ x.links = g.links /\ Edges(x) = Edges(g)
      /\ x.nodes[N].kind = kd /\ Outlet(x, N, 1) /\ Paired(x, P1)
  <2>1. PICK c \in {1, 2} : c = 1
    OBVIOUS
  <2>2. x = AddNode(g, kd, is, c)
    BY <2>1
  <2>3. x \in Level(K) /\ Brings(g, x, N, kd, is, c) /\ Paired(x, P1)
    BY <1>1, <2>2, NewNodeDoes
  <2>4. 1 \in 1..c
    BY <2>1
  <2> QED BY <2>3, <2>4 DEF Brings
<1>3. PICK y : y = Entering(x, 1, N, 1)
  OBVIOUS
<1>4. y \in Level(K) /\ Linked(x, y, 0, 1, N, 1) /\ Paired(y, P2)
  <2>1. 1 \in DOMAIN x.inputs /\ P1 = {<<N, 1, Len(x.links) + 1>>} \cup P2
    BY <1>1, <1>2 DEF Extends
  <2> QED BY <1>2, <1>3, <2>1, EnteringDoes
<1>5. h \in Level(K) /\ Linked(y, h, 0, 2, N, 2) /\ Paired(h, R) /\ Len(h.links) = L + 2
  <2>1. 2 \in DOMAIN y.inputs
    BY <1>2, <1>4 DEF Extends, Linked, SameNodes
  <2>2. Len(y.links) = L + 1
    BY <1>2, <1>4 DEF Linked
  <2>3. P2 = {<<N, 2, Len(y.links) + 1>>} \cup R
    BY <1>1, <2>2
  <2>4. h \in Level(K) /\ Linked(y, h, 0, 2, N, 2) /\ Paired(h, R)
    BY <1>3, <1>4, <2>1, <2>3, EnteringDoes, SMTT(30)
  <2> QED BY <2>2, <2>4 DEF Linked
<1>6. SameNodes(x, h)
  BY <1>4, <1>5, SameTwice DEF Linked
<1>7. N \in 1..Len(x.nodes)
  BY <1>2 DEF Extends
<1>8. h.nodes[N].kind = kd /\ Outlet(h, N, 1)
  BY <1>2, <1>6, <1>7 DEF SameNodes
<1>9. Extends(g, h, 1)
  BY <1>2, <1>6, StillExtends
<1>10. Edges(h) = Edges(g) \cup {<<0, 1, N, 1>>, <<0, 2, N, 2>>}
  BY <1>2, <1>4, <1>5 DEF Linked
<1> QED BY <1>5, <1>8, <1>9, <1>10

\* A new node whose inputs are empty.
LEMMA EmptyNodeDoes ==
  ASSUME NEW K, NEW g \in Level(K), NEW kd \in K, Paired(g, {}), NEW N \in Nat, N = Len(g.nodes) + 1,
         NEW c \in Nat, NEW o \in {1, 2}, NEW h, h = AddNode(g, kd, Zeros(c), o)
  PROVE  /\ h \in Level(K) /\ Extends(g, h, 1) /\ h.links = g.links /\ Edges(h) = Edges(g)
         /\ h.nodes[N].kind = kd /\ \A s \in 1..o : Outlet(h, N, s)
         /\ \A b \in 1..c : Inlet(h, N, b) /\ Free(h, N, b)
         /\ Paired(h, {})
<1>1. PICK is : is = Zeros(c)
  OBVIOUS
<1>2. is \in Seq(Nat) /\ DOMAIN is = 1..c /\ \A b \in 1..c : is[b] = 0
  BY <1>1 DEF Zeros
<1>3. Ahead({}, N, is)
  BY <1>2 DEF Ahead
<1>4. h \in Level(K) /\ Brings(g, h, N, kd, is, o) /\ Paired(h, {})
  BY <1>1, <1>2, <1>3, NewNodeDoes
<1> QED BY <1>2, <1>4 DEF Brings

\* The sources are there.
Available(g, ss) ==
  /\ ss \in Seq(Nat \X Nat)
  /\ \A k \in 1..Len(ss) : IF ss[k][1] = 0 THEN ss[k][2] \in DOMAIN g.inputs
                           ELSE Outlet(g, ss[k][1], ss[k][2])

LEMMA StaysAvailable ==
  ASSUME NEW g, NEW h, NEW c, Extends(g, h, c), NEW ss, Available(g, ss)
  PROVE  Available(h, ss)
BY DEF Extends, Available

\* The links that LinkAll makes.
Ordered(ss, n, first) == {<<ss[k][1], ss[k][2], n, first + k>> : k \in 1..Len(ss)}

LEMMA PackDoes ==
  ASSUME NEW K, NEW g \in Level(K), Paired(g, {}), NEW ss, Available(g, ss), NEW n \in Nat, NEW first \in Nat,
         \A k \in 1..Len(ss) : Free(g, n, first + k), NEW h, h = LinkAll(g, ss, n, first)
  PROVE  /\ h \in Level(K) /\ SameNodes(g, h) /\ Edges(h) = Edges(g) \cup Ordered(ss, n, first) /\ Paired(h, {})
         /\ \A a, b : Free(g, a, b) /\ (a = n => \A k \in 1..Len(ss) : b # first + k) => Free(h, a, b)
<1>1. Linkable(g, ss, n, first)
  <2>1. ss \in Seq(Int \X Int)
    BY DEF Available
  <2>2. \A k \in 1..Len(ss) : Inlet(g, n, first + k)
    BY DEF Free
  <2> QED BY <2>1, <2>2 DEF Available, Linkable
<1>2. LinkedSoFar(K, g, h, ss, n, first, Len(ss))
  BY <1>1, LinkAllDoes
<1> QED BY <1>2 DEF LinkedSoFar, Ordered

-----------------------------------------------------------------------------
(* The subgraph's chain of nodes                                             *)

\* The canvas pack, and the keyframe behind it.
LEMMA KeyframeDoes ==
  ASSUME NEW K, NEW g \in Level(K), Paired(g, {}), 1 \in DOMAIN g.inputs, 2 \in DOMAIN g.inputs,
         NEW shot, NEW ss, Available(g, ss), CanvasPack(shot.id, Len(ss)) \in K, Keyframe(shot) \in K,
         NEW n \in Nat, n = Len(g.nodes) + 1, NEW h, h = WithKeyframe(shot, g, ss)
  PROVE  /\ h \in Level(K) /\ Extends(g, h, 2) /\ Paired(h, {})
         /\ h.nodes[n].kind = CanvasPack(shot.id, Len(ss)) /\ h.nodes[n + 1].kind = Keyframe(shot)
         /\ Outlet(h, n + 1, 1)
         /\ Edges(h) = Edges(g) \cup Ordered(ss, n, 1) \cup {<<0, 1, n + 1, 1>>, <<0, 2, n + 1, 2>>}
                       \cup (IF ss = << >> THEN {} ELSE {<<n, 1, n + 1, 6>>})
<1>1. PICK m \in Nat : m = Len(ss)
  <2>1. Len(ss) \in Nat
    BY DEF Available
  <2> QED BY <2>1
<1>2. PICK kp \in K, kk \in K : kp = CanvasPack(shot.id, Len(ss)) /\ kk = Keyframe(shot)
  OBVIOUS
<1>3. PICK x : x = AddNode(g, kp, Zeros(1 + m), 1)
  OBVIOUS
<1>4. /\ x \in Level(K) /\ Extends(g, x, 1) /\ Edges(x) = Edges(g) /\ x.nodes[n].kind = kp /\ Outlet(x, n, 1)
      /\ \A b \in 1..(1 + m) : Free(x, n, b)
      /\ Paired(x, {})
  <2>1. PICK c \in Nat, o \in {1, 2} : c = 1 + m /\ o = 1
    OBVIOUS
  <2>2. x = AddNode(g, kp, Zeros(c), o)
    BY <1>3, <2>1
  <2>3. /\ x \in Level(K) /\ Extends(g, x, 1) /\ x.links = g.links /\ Edges(x) = Edges(g)
        /\ x.nodes[n].kind = kp /\ (\A s \in 1..o : Outlet(x, n, s))
        /\ (\A b \in 1..c : Inlet(x, n, b) /\ Free(x, n, b))
        /\ Paired(x, {})
    BY <2>2, EmptyNodeDoes, SMTT(30)
  <2>4. 1 \in 1..o
    BY <2>1
  <2> QED BY <2>1, <2>3, <2>4
<1>5. PICK y : y = LinkAll(x, ss, n, 1)
  OBVIOUS
<1>6. y \in Level(K) /\ SameNodes(x, y) /\ Edges(y) = Edges(x) \cup Ordered(ss, n, 1) /\ Paired(y, {})
  <2>1. Available(x, ss)
    BY <1>4, StaysAvailable
  <2>2. \A k \in 1..m : Free(x, n, 1 + k)
    BY <1>4
  <2> QED BY <1>1, <1>4, <1>5, <2>1, <2>2, PackDoes
<1>7. Extends(g, y, 1) /\ y.nodes[n].kind = kp /\ Outlet(y, n, 1)
  <2>1. Extends(g, y, 1)
    BY <1>4, <1>6, StillExtends
  <2>2. n \in 1..Len(x.nodes)
    BY <1>4 DEF Extends
  <2> QED BY <1>4, <1>6, <2>1, <2>2 DEF SameNodes
<1>8. Len(y.nodes) = n
  BY <1>7 DEF Extends
<1>9. PICK L \in Nat : L = Len(y.links)
  BY <1>6, LevelIs
<1>10. PICK e \in Nat : e = IF ss = << >> THEN 0 ELSE L + 3
  OBVIOUS
<1>11. PICK is : is = <<L + 1, L + 2, 0, 0, 0, e>>
  OBVIOUS
<1>12. PICK z : z = AddNode(y, kk, is, 1)
  OBVIOUS
<1>13. PICK f : f = Entering(Entering(z, 1, n + 1, 1), 2, n + 1, 2)
  OBVIOUS
<1>14. h = IF ss = << >> THEN f ELSE FromNode(f, n, 2, n + 1, 6)
  <2>1. is = <<Upcoming(y, 1), Upcoming(y, 2), 0, 0, 0, IF ss = << >> THEN 0 ELSE Upcoming(y, 3)>>
    BY <1>9, <1>10, <1>11 DEF Upcoming
  <2> QED BY <1>1, <1>2, <1>3, <1>5, <1>12, <1>13, <2>1 DEF WithKeyframe
<1>15. PICK R : R = IF ss = << >> THEN {} ELSE {<<n + 1, 6, L + 3>>}
  OBVIOUS
<1>16. PICK N \in Nat : N = n + 1
  OBVIOUS
<1>17. is \in Seq(Nat) /\ DOMAIN is = 1..6 /\ is[1] = L + 1 /\ is[2] = L + 2 /\ is[3] = 0 /\ is[4] = 0 /\ is[5] = 0
       /\ is[6] = e
  BY <1>11
<1>18. PICK P1, P2 : P1 = {<<N, 1, L + 1>>} \cup P2 /\ P2 = {<<N, 2, L + 2>>} \cup R
  OBVIOUS
<1>19. Ahead(P1, N, is)
  <2>1. \A b \in 1..6 : b = 1 \/ b = 2 \/ b = 3 \/ b = 4 \/ b = 5 \/ b = 6
    OBVIOUS
  <2>2. 1 \in 1..6 /\ 2 \in 1..6 /\ 6 \in 1..6 /\ L + 1 # 0 /\ L + 2 # 0 /\ L + 3 # 0
    OBVIOUS
  <2>3. ASSUME NEW a, NEW b, NEW l
        PROVE  <<a, b, l>> \in P1
                 <=> a = N /\ b \in DOMAIN is /\ l = is[b] /\ l # 0
    <3>1. <<a, b, l>> \in R <=> a = N /\ b = 6 /\ l = e /\ l # 0
      BY <1>10, <1>15, <1>16, <2>2
    <3>2. <<a, b, l>> \in P1
            <=> \/ a = N /\ b = 1 /\ l = L + 1
                \/ a = N /\ b = 2 /\ l = L + 2
                \/ <<a, b, l>> \in R
      BY <1>18
    <3> QED BY <1>17, <2>1, <2>2, <3>1, <3>2
  <2> QED BY <2>3, Zenon DEF Ahead
<1>20. /\ f \in Level(K) /\ Extends(y, f, 1) /\ f.nodes[N].kind = kk /\ Outlet(f, N, 1)
       /\ Edges(f) = Edges(y) \cup {<<0, 1, N, 1>>, <<0, 2, N, 2>>}
       /\ Paired(f, R) /\ Len(f.links) = L + 2
  <2>1. 1 \in DOMAIN y.inputs /\ 2 \in DOMAIN y.inputs
    BY <1>7 DEF Extends
  <2>2. N = Len(y.nodes) + 1 /\ f = Entering(Entering(z, 1, N, 1), 2, N, 2)
    BY <1>8, <1>13, <1>16
  <2>3. FirstTwo(N, L, is, R)
    BY <1>19, <1>18 DEF FirstTwo
  <2>4. is \in Seq(Nat) /\ y \in Level(K) /\ Paired(y, {}) /\ z = AddNode(y, kk, is, 1) /\ L = Len(y.links)
    BY <1>6, <1>9, <1>12, <1>17
  <2> QED BY <2>1, <2>2, <2>3, <2>4, FedDoes, SMTT(30)
<1>21. /\ h \in Level(K) /\ SameNodes(f, h) /\ Paired(h, {})
       /\ Edges(h) = Edges(f) \cup (IF ss = << >> THEN {} ELSE {<<n, 1, n + 1, 6>>})
  <2>1. CASE ss = << >>
    <3>1. h = f /\ R = {}
      BY <1>14, <1>15, <2>1
    <3> QED BY <1>20, <2>1, <3>1 DEF SameNodes
  <2>2. CASE ss # << >>
    <3>1. h = FromNode(f, n, 2, N, 6)
      BY <1>14, <1>16, <2>2
    <3>2. n = Len(f.nodes) + 1 - 2 /\ Outlet(f, n, 1)
      BY <1>7, <1>8, <1>20 DEF Extends
    <3>3. R = {<<N, 6, Len(f.links) + 1>>} \cup {}
      BY <1>15, <1>16, <1>20, <2>2
    <3>4. h \in Level(K) /\ Linked(f, h, n, 1, N, 6) /\ Paired(h, {})
      BY <1>20, <3>1, <3>2, <3>3, FromNodeDoes, SMTT(30)
    <3> QED BY <1>16, <2>2, <3>4 DEF Linked
  <2> QED BY <2>1, <2>2
<1>22. Extends(g, h, 2)
  <2>1. Extends(y, h, 1)
    BY <1>6, <1>20, <1>21, StillExtends
  <2>2. Extends(g, h, 1 + 1)
    BY <1>7, <2>1, ExtendsTwice
  <2> QED BY <2>2
<1>23. h.nodes[N].kind = kk /\ Outlet(h, N, 1)
  <2>1. N \in 1..Len(f.nodes)
    BY <1>8, <1>16, <1>20 DEF Extends
  <2> QED BY <1>20, <1>21, <2>1 DEF SameNodes
<1>24. h.nodes[n].kind = kp
  <2>1. n \in 1..Len(y.nodes) /\ n \in 1..Len(f.nodes)
    BY <1>7, <1>8, <1>20 DEF Extends, Outlet
  <2> QED BY <1>7, <1>20, <1>21, <2>1 DEF SameNodes, Extends
<1>25. Edges(h) = Edges(g) \cup Ordered(ss, n, 1) \cup {<<0, 1, n + 1, 1>>, <<0, 2, n + 1, 2>>}
                  \cup (IF ss = << >> THEN {} ELSE {<<n, 1, n + 1, 6>>})
  BY <1>4, <1>6, <1>16, <1>20, <1>21
<1> QED BY <1>2, <1>16, <1>21, <1>22, <1>23, <1>24, <1>25

\* h is g with a link from node o, which is back from the end.
Reaches(K, g, o, back, t, ts, h) ==
  /\ g \in Level(K) /\ o \in Int /\ back \in Int /\ o = Len(g.nodes) + 1 - back /\ Outlet(g, o, 1)
  /\ t \in Int /\ ts \in Int /\ h = FromNode(g, o, back, t, ts)

\* FromNode reaches the node it is meant to.
LEMMA ReachesDoes ==
  ASSUME NEW K, NEW g, NEW o, NEW back, NEW t, NEW ts, NEW h, Reaches(K, g, o, back, t, ts, h)
  PROVE  /\ h \in Level(K) /\ Linked(g, h, o, 1, t, ts)
         /\ \A P, Q : Paired(g, Q) /\ Q = {<<t, ts, Len(g.links) + 1>>} \cup P => Paired(h, P)
BY FromNodeDoes DEF Reaches

\* The pack of the keyframe and the references.
LEMMA VideoPackDoes ==
  ASSUME NEW K, NEW g \in Level(K), Paired(g, {}), NEW shot, NEW ss, Available(g, ss),
         VideoPack(shot.id, 1 + Len(ss)) \in K, NEW k \in Nat, k = Len(g.nodes), Outlet(g, k, 1),
         NEW h, h = WithVideoPack(shot, g, ss, k)
  PROVE  /\ h \in Level(K) /\ Extends(g, h, 1) /\ Paired(h, {})
         /\ h.nodes[k + 1].kind = VideoPack(shot.id, 1 + Len(ss)) /\ Outlet(h, k + 1, 1)
         /\ Edges(h) = Edges(g) \cup {<<k, 1, k + 1, 2>>} \cup Ordered(ss, k + 1, 2)
<1>1. PICK m \in Nat : m = Len(ss)
  <2>1. Len(ss) \in Nat
    BY DEF Available
  <2> QED BY <2>1
<1>2. PICK kd \in K : kd = VideoPack(shot.id, 1 + Len(ss))
  OBVIOUS
<1>3. PICK n \in Nat : n = k + 1
  OBVIOUS
<1>4. PICK x : x = AddNode(g, kd, Zeros(2 + m), 1)
  OBVIOUS
<1>5. /\ x \in Level(K) /\ Extends(g, x, 1) /\ Edges(x) = Edges(g) /\ x.nodes[n].kind = kd /\ Outlet(x, n, 1)
      /\ \A b \in 1..(2 + m) : Inlet(x, n, b) /\ Free(x, n, b)
      /\ Paired(x, {})
  <2>1. 2 + m \in Nat /\ 1 \in {1, 2} /\ 1 \in 1..1
    OBVIOUS
  <2> QED BY <1>3, <1>4, <2>1, EmptyNodeDoes
<1>6. PICK y : y = Connect(x, k, 1, n, 2)
  OBVIOUS
<1>7. AtInput(FromNode(x, k, 2, n, 2), n, 2) = y
  <2>1. Len(x.nodes) = k + 1
    BY <1>5 DEF Extends
  <2>2. PICK w : w = AddLink(x, k, 1, n, 2)
    OBVIOUS
  <2>3. Len(x.nodes) + 1 - 2 = k
    BY <2>1
  <2> QED BY <1>6, <2>2, <2>3 DEF FromNode, Connect
<1>8. y \in Level(K) /\ Linked(x, y, k, 1, n, 2) /\ Paired(y, {})
  <2>1. Outlet(x, k, 1) /\ 2 \in 1..(2 + m)
    BY <1>5 DEF Extends
  <2>2. Inlet(x, n, 2) /\ Free(x, n, 2)
    BY <1>5, <2>1
  <2> QED BY <1>5, <1>6, <2>1, <2>2, ConnectDoes
<1>9. Extends(g, y, 1) /\ Len(x.nodes) = n
  <2>1. Extends(g, y, 1)
    BY <1>5, <1>8, StillExtends DEF Linked
  <2> QED BY <1>3, <1>5, <2>1 DEF Extends
<1>10. h = LinkAll(y, ss, n, 2)
  BY <1>1, <1>2, <1>3, <1>4, <1>7 DEF WithVideoPack
<1>11. h \in Level(K) /\ SameNodes(y, h) /\ Edges(h) = Edges(y) \cup Ordered(ss, n, 2) /\ Paired(h, {})
  <2>1. Available(y, ss)
    BY <1>9, StaysAvailable
  <2>2. ASSUME NEW i \in 1..m PROVE Free(y, n, 2 + i)
    <3>1. 2 + i \in 1..(2 + m) /\ 2 + i # 2
      OBVIOUS
    <3> QED BY <1>5, <1>8, <3>1 DEF Linked
  <2> QED BY <1>1, <1>8, <1>10, <2>1, <2>2, PackDoes
<1>12. Extends(g, h, 1)
  BY <1>8, <1>9, <1>11, StillExtends
<1>13. h.nodes[n].kind = kd /\ Outlet(h, n, 1)
  <2>1. SameNodes(x, h)
    BY <1>8, <1>11, SameTwice DEF Linked
  <2>2. n \in 1..Len(x.nodes)
    BY <1>3, <1>9
  <2> QED BY <1>5, <2>1, <2>2 DEF SameNodes
<1> QED BY <1>2, <1>3, <1>5, <1>8, <1>11, <1>12, <1>13 DEF Linked

\* The prompt, the video and the outputs of the subgraph.
LEMMA VideoDoes ==
  ASSUME NEW K, NEW g \in Level(K), Paired(g, {}), 1 \in DOMAIN g.inputs, 2 \in DOMAIN g.inputs,
         DOMAIN g.outputs = {1, 2}, NEW shot, PromptOf(shot.id) \in K, VideoNode(shot.id) \in K,
         NEW k \in Nat, k + 1 = Len(g.nodes), Outlet(g, k, 1), Outlet(g, k + 1, 1),
         NEW h, h = WithVideo(shot, g, k)
  PROVE  /\ h \in Level(K) /\ Extends(g, h, 2) /\ Paired(h, {})
         /\ h.nodes[k + 2].kind = PromptOf(shot.id) /\ h.nodes[k + 3].kind = VideoNode(shot.id)
         /\ Edges(h) = Edges(g) \cup {<<0, 1, k + 2, 1>>, <<k + 1, 1, k + 2, 2>>, <<0, 1, k + 3, 1>>,
                                      <<k + 2, 1, k + 3, 2>>, <<k + 1, 1, k + 3, 3>>, <<0, 2, k + 3, 4>>,
                                      <<k, 1, -1, 1>>, <<k + 3, 1, -1, 2>>}
<1>1. PICK kp \in K, kv \in K : kp = PromptOf(shot.id) /\ kv = VideoNode(shot.id)
  OBVIOUS
<1>2. PICK L \in Nat : L = Len(g.links)
  BY LevelIs
<1>3. PICK k1 \in Nat, k2 \in Nat, k3 \in Nat : k1 = k + 1 /\ k2 = k + 2 /\ k3 = k + 3
  OBVIOUS
\* the prompt
<1>4. PICK is : is = <<L + 1, L + 2, 0>>
  OBVIOUS
<1>5. is \in Seq(Nat) /\ DOMAIN is = 1..3 /\ is[1] = L + 1 /\ is[2] = L + 2 /\ is[3] = 0
  BY <1>4
<1>6. PICK P0, P1 : P0 = {<<k2, 1, L + 1>>} \cup P1 /\ P1 = {<<k2, 2, L + 2>>} \cup {}
  OBVIOUS
<1>7. Ahead(P0, k2, is)
  <2>1. \A b \in 1..3 : b = 1 \/ b = 2 \/ b = 3
    OBVIOUS
  <2>2. 1 \in 1..3 /\ 2 \in 1..3 /\ L + 1 # 0 /\ L + 2 # 0
    OBVIOUS
  <2>3. ASSUME NEW a, NEW b, NEW l
        PROVE  <<a, b, l>> \in P0 <=> a = k2 /\ b \in DOMAIN is /\ l = is[b] /\ l # 0
    <3>1. <<a, b, l>> \in P0 <=> a = k2 /\ ((b = 1 /\ l = L + 1) \/ (b = 2 /\ l = L + 2))
      BY <1>6
    <3> QED BY <1>5, <2>1, <2>2, <3>1
  <2> QED BY <2>3, Zenon DEF Ahead
<1>8. PICK x : x = AddNode(g, kp, is, 1)
  OBVIOUS
<1>9. /\ x \in Level(K) /\ Extends(g, x, 1) /\ x.links = g.links /\ Edges(x) = Edges(g) /\ Paired(x, P0)
      /\ x.nodes[k2].kind = kp /\ Outlet(x, k2, 1)
  <2>1. k2 = Len(g.nodes) + 1
    BY <1>3
  <2>2. PICK c \in {1, 2} : c = 1
    OBVIOUS
  <2>3. x \in Level(K) /\ Brings(g, x, k2, kp, is, c) /\ Paired(x, P0)
    <3>1. x = AddNode(g, kp, is, c) /\ is \in Seq(Nat)
      BY <1>5, <1>8, <2>2
    <3> QED BY <1>7, <2>1, <3>1, NewNodeDoes
  <2>4. 1 \in 1..c
    BY <2>2
  <2> QED BY <2>3, <2>4 DEF Brings
<1>10. PICK e1, g1 : e1 = Entering(x, 1, k2, 1) /\ g1 = FromNode(e1, k1, 2, k2, 2)
  OBVIOUS
<1>11. e1 \in Level(K) /\ Linked(x, e1, 0, 1, k2, 1) /\ Paired(e1, P1)
  <2>1. 1 \in DOMAIN x.inputs /\ P0 = {<<k2, 1, Len(x.links) + 1>>} \cup P1
    BY <1>2, <1>6, <1>9 DEF Extends
  <2> QED BY <1>9, <1>10, <2>1, EnteringDoes
<1>12. Len(e1.nodes) = k2 /\ Len(e1.links) = L + 1 /\ Outlet(e1, k1, 1)
  BY <1>2, <1>3, <1>9, <1>11 DEF Linked, SameNodes, Extends
<1>13. g1 \in Level(K) /\ Linked(e1, g1, k1, 1, k2, 2) /\ Paired(g1, {})
  <2>1. k1 = Len(e1.nodes) + 1 - 2 /\ P1 = {<<k2, 2, Len(e1.links) + 1>>} \cup {}
    BY <1>3, <1>6, <1>12
  <2>2. Reaches(K, e1, k1, 2, k2, 2, g1)
    BY <1>10, <1>11, <1>12, <2>1 DEF Reaches
  <2>3. /\ g1 \in Level(K) /\ Linked(e1, g1, k1, 1, k2, 2)
        /\ \A P, Q : Paired(e1, Q) /\ Q = {<<k2, 2, Len(e1.links) + 1>>} \cup P => Paired(g1, P)
    BY <2>2, ReachesDoes
  <2> QED BY <1>11, <2>1, <2>3, Zenon
<1>14. /\ Extends(g, g1, 1) /\ Len(g1.nodes) = k2 /\ g1.nodes[k2].kind = kp /\ Outlet(g1, k2, 1) /\ Len(g1.links) = L + 2
       /\ Edges(g1) = Edges(g) \cup {<<0, 1, k2, 1>>, <<k1, 1, k2, 2>>}
  <2>1. SameNodes(x, g1)
    BY <1>11, <1>13, SameTwice DEF Linked
  <2>2. Extends(g, g1, 1)
    BY <1>9, <2>1, StillExtends
  <2>3. k2 \in 1..Len(x.nodes)
    BY <1>3, <1>9 DEF Extends
  <2>4. g1.nodes[k2].kind = kp /\ Outlet(g1, k2, 1)
    BY <1>9, <2>1, <2>3 DEF SameNodes
  <2>5. Edges(g1) = Edges(g) \cup {<<0, 1, k2, 1>>, <<k1, 1, k2, 2>>}
    BY <1>9, <1>11, <1>13 DEF Linked
  <2>6. Len(g1.nodes) = k2 /\ Len(g1.links) = L + 2
    BY <1>12, <1>13 DEF Linked, SameNodes
  <2> QED BY <2>2, <2>4, <2>5, <2>6
\* the video
<1>15. PICK js : js = <<L + 3, L + 4, L + 5, L + 6, 0>>
  OBVIOUS
<1>16. js \in Seq(Nat) /\ DOMAIN js = 1..5 /\ js[1] = L + 3 /\ js[2] = L + 4 /\ js[3] = L + 5 /\ js[4] = L + 6 /\ js[5] = 0
  BY <1>15
<1>17. PICK Q0, Q1, Q2, Q3 : /\ Q0 = {<<k3, 1, L + 3>>} \cup Q1 /\ Q1 = {<<k3, 2, L + 4>>} \cup Q2
                             /\ Q2 = {<<k3, 3, L + 5>>} \cup Q3 /\ Q3 = {<<k3, 4, L + 6>>} \cup {}
  <2>1. \E Q3 : Q3 = {<<k3, 4, L + 6>>} \cup {}
    OBVIOUS
  <2> QED BY <2>1
<1>18. Ahead(Q0, k3, js)
  <2>1. \A b \in 1..5 : b = 1 \/ b = 2 \/ b = 3 \/ b = 4 \/ b = 5
    OBVIOUS
  <2>2. 1 \in 1..5 /\ 2 \in 1..5 /\ 3 \in 1..5 /\ 4 \in 1..5 /\ L + 3 # 0 /\ L + 4 # 0 /\ L + 5 # 0 /\ L + 6 # 0
    OBVIOUS
  <2>3. ASSUME NEW a, NEW b, NEW l
        PROVE  <<a, b, l>> \in Q0 <=> a = k3 /\ b \in DOMAIN js /\ l = js[b] /\ l # 0
    <3>1. <<a, b, l>> \in Q0
            <=> a = k3 /\ ((b = 1 /\ l = L + 3) \/ (b = 2 /\ l = L + 4) \/ (b = 3 /\ l = L + 5) \/ (b = 4 /\ l = L + 6))
      BY <1>17
    <3> QED BY <1>16, <2>1, <2>2, <3>1
  <2> QED BY <2>3, Zenon DEF Ahead
<1>19. PICK y : y = AddNode(g1, kv, js, 1)
  OBVIOUS
<1>20. /\ y \in Level(K) /\ Extends(g1, y, 1) /\ y.links = g1.links /\ Edges(y) = Edges(g1) /\ Paired(y, Q0)
       /\ y.nodes[k3].kind = kv /\ Outlet(y, k3, 1)
  <2>1. k3 = Len(g1.nodes) + 1
    BY <1>3, <1>14
  <2>2. PICK c \in {1, 2} : c = 1
    OBVIOUS
  <2>3. y \in Level(K) /\ Brings(g1, y, k3, kv, js, c) /\ Paired(y, Q0)
    <3>1. y = AddNode(g1, kv, js, c) /\ js \in Seq(Nat)
      BY <1>16, <1>19, <2>2
    <3> QED BY <1>13, <1>18, <2>1, <3>1, NewNodeDoes
  <2>4. 1 \in 1..c
    BY <2>2
  <2> QED BY <2>3, <2>4 DEF Brings
<1>21. PICK e2, g2 : e2 = Entering(y, 1, k3, 1) /\ g2 = FromNode(e2, k2, 2, k3, 2)
  OBVIOUS
<1>22. PICK f3, g3 : f3 = FromNode(g2, k1, 3, k3, 3) /\ g3 = Entering(f3, 2, k3, 4)
  OBVIOUS
<1>23. Extends(g, y, 2)
  <2>1. Extends(g, y, 1 + 1)
    BY <1>14, <1>20, ExtendsTwice
  <2> QED BY <2>1
<1>24. /\ 1 \in DOMAIN y.inputs /\ 2 \in DOMAIN y.inputs /\ DOMAIN y.outputs = {1, 2} /\ Len(y.links) = L + 2
       /\ Len(y.nodes) = k3 /\ Outlet(y, k, 1) /\ Outlet(y, k1, 1) /\ Outlet(y, k2, 1)
  <2>1. Outlet(y, k2, 1)
    BY <1>14, <1>20 DEF Extends
  <2>2. Outlet(y, k, 1) /\ Outlet(y, k1, 1)
    BY <1>3, <1>23 DEF Extends
  <2>3. Len(y.nodes) = k3
    BY <1>3, <1>14, <1>20 DEF Extends
  <2> QED BY <1>14, <1>20, <1>23, <2>1, <2>2, <2>3 DEF Extends
<1>25. e2 \in Level(K) /\ Linked(y, e2, 0, 1, k3, 1) /\ Paired(e2, Q1)
  <2>1. Q0 = {<<k3, 1, Len(y.links) + 1>>} \cup Q1
    BY <1>17, <1>24
  <2>2. /\ e2 \in Level(K) /\ Linked(y, e2, 0, 1, k3, 1)
        /\ \A P, Q : Paired(y, Q) /\ Q = {<<k3, 1, Len(y.links) + 1>>} \cup P => Paired(e2, P)
    <3>1. y \in Level(K) /\ 1 \in DOMAIN y.inputs /\ e2 = Entering(y, 1, k3, 1)
      BY <1>20, <1>21, <1>24
    <3> QED BY <3>1, EnteringDoes
  <2> QED BY <1>20, <2>1, <2>2, Zenon
<1>26. Len(e2.nodes) = k3 /\ Len(e2.links) = L + 3 /\ Outlet(e2, k2, 1)
  BY <1>24, <1>25 DEF Linked, SameNodes
<1>27. g2 \in Level(K) /\ Linked(e2, g2, k2, 1, k3, 2) /\ Paired(g2, Q2)
  <2>1. k2 = Len(e2.nodes) + 1 - 2 /\ Q1 = {<<k3, 2, Len(e2.links) + 1>>} \cup Q2
    BY <1>3, <1>17, <1>26
  <2>2. Reaches(K, e2, k2, 2, k3, 2, g2)
    BY <1>21, <1>25, <1>26, <2>1 DEF Reaches
  <2>3. /\ g2 \in Level(K) /\ Linked(e2, g2, k2, 1, k3, 2)
        /\ \A P, Q : Paired(e2, Q) /\ Q = {<<k3, 2, Len(e2.links) + 1>>} \cup P => Paired(g2, P)
    BY <2>2, ReachesDoes
  <2> QED BY <1>25, <2>1, <2>3, Zenon
<1>28. SameNodes(y, g2) /\ Len(g2.links) = L + 4
  BY <1>25, <1>26, <1>27, SameTwice DEF Linked
<1>29. f3 \in Level(K) /\ Linked(g2, f3, k1, 1, k3, 3) /\ Paired(f3, Q3)
  <2>1. Outlet(g2, k1, 1) /\ Len(g2.nodes) = k3
    BY <1>24, <1>28 DEF SameNodes
  <2>2. k1 = Len(g2.nodes) + 1 - 3 /\ Q2 = {<<k3, 3, Len(g2.links) + 1>>} \cup Q3
    BY <1>3, <1>17, <1>28, <2>1
  <2> QED BY <1>22, <1>27, <2>1, <2>2, FromNodeDoes
<1>30. SameNodes(y, f3) /\ Len(f3.links) = L + 5
  BY <1>28, <1>29, SameTwice DEF Linked
<1>31. g3 \in Level(K) /\ Linked(f3, g3, 0, 2, k3, 4) /\ Paired(g3, {})
  <2>1. 2 \in DOMAIN f3.inputs
    BY <1>24, <1>30 DEF SameNodes
  <2>2. Q3 = {<<k3, 4, Len(f3.links) + 1>>} \cup {}
    BY <1>17, <1>30
  <2> QED BY <1>22, <1>29, <2>1, <2>2, EnteringDoes
<1>32. SameNodes(y, g3)
  BY <1>30, <1>31, SameTwice DEF Linked
\* the outputs
<1>33. PICK g4 : g4 = AtOutput(AtExit(AddLink(g3, k, 1, -1, 1), 1), k, 1)
  OBVIOUS
<1>34. g4 \in Level(K) /\ Linked(g3, g4, k, 1, -1, 1) /\ Paired(g4, {})
  <2>1. Outlet(g3, k, 1) /\ 1 \in DOMAIN g3.outputs
    BY <1>24, <1>32 DEF SameNodes
  <2> QED BY <1>31, <1>33, <2>1, ExitDoes
<1>35. SameNodes(y, g4)
  BY <1>32, <1>34, SameTwice DEF Linked
<1>36. h = AtOutput(AtExit(AddLink(g4, k3, 1, -1, 2), 2), k3, 1)
  <2>1. Len(g4.nodes) = k3
    BY <1>24, <1>35 DEF SameNodes
  <2>2. is = <<Upcoming(g, 1), Upcoming(g, 2), 0>>
    BY <1>2, <1>4 DEF Upcoming
  <2>3. js = <<Upcoming(g1, 1), Upcoming(g1, 2), Upcoming(g1, 3), Upcoming(g1, 4), 0>>
    BY <1>14, <1>15 DEF Upcoming
  <2>4. x = AddNode(g, PromptOf(shot.id), <<Upcoming(g, 1), Upcoming(g, 2), 0>>, 1)
    BY <1>1, <1>8, <2>2
  <2>5. g1 = FromNode(Entering(x, 1, k + 2, 1), k + 1, 2, k + 2, 2)
    BY <1>3, <1>10
  <2>6. y = AddNode(g1, VideoNode(shot.id),
                    <<Upcoming(g1, 1), Upcoming(g1, 2), Upcoming(g1, 3), Upcoming(g1, 4), 0>>, 1)
    BY <1>1, <1>19, <2>3
  <2>7. g2 = FromNode(Entering(y, 1, k + 3, 1), k + 2, 2, k + 3, 2)
    BY <1>3, <1>21
  <2>8. g3 = Entering(FromNode(g2, k + 1, 3, k + 3, 3), 2, k + 3, 4)
    BY <1>3, <1>22
  <2>9. h = AtOutput(AtExit(AddLink(g4, k + 3, 1, -1, 2), 2), Len(g4.nodes), 1)
    BY <1>33, <2>4, <2>5, <2>6, <2>7, <2>8, ZenonT(30) DEF WithVideo
  <2> QED BY <1>3, <2>1, <2>9
<1>37. h \in Level(K) /\ Linked(g4, h, k3, 1, -1, 2) /\ Paired(h, {})
  <2>1. Outlet(g4, k3, 1) /\ 2 \in DOMAIN g4.outputs
    BY <1>20, <1>24, <1>35 DEF SameNodes
  <2> QED BY <1>34, <1>36, <2>1, ExitDoes
<1>38. SameNodes(y, h)
  BY <1>35, <1>37, SameTwice DEF Linked
<1>39. Extends(g, h, 2)
  <2>1. 2 \in Nat
    OBVIOUS
  <2> QED BY <1>20, <1>23, <1>38, <2>1, StillExtends
<1>40. h.nodes[k2].kind = kp /\ h.nodes[k3].kind = kv
  <2>1. k2 \in 1..Len(g1.nodes) /\ k2 \in 1..Len(y.nodes) /\ k3 \in 1..Len(y.nodes)
    BY <1>3, <1>14, <1>24
  <2>2. y.nodes[k2].kind = kp
    BY <1>14, <1>20, <2>1 DEF Extends
  <2> QED BY <1>20, <1>38, <2>1, <2>2 DEF SameNodes
<1>41. Edges(h) = Edges(g) \cup {<<0, 1, k2, 1>>, <<k1, 1, k2, 2>>, <<0, 1, k3, 1>>, <<k2, 1, k3, 2>>,
                                 <<k1, 1, k3, 3>>, <<0, 2, k3, 4>>, <<k, 1, -1, 1>>, <<k3, 1, -1, 2>>}
  <2>1. Edges(g2) = Edges(g) \cup {<<0, 1, k2, 1>>, <<k1, 1, k2, 2>>, <<0, 1, k3, 1>>, <<k2, 1, k3, 2>>}
    BY <1>14, <1>20, <1>25, <1>27 DEF Linked
  <2>2. Edges(h) = Edges(g2) \cup {<<k1, 1, k3, 3>>, <<0, 2, k3, 4>>, <<k, 1, -1, 1>>, <<k3, 1, -1, 2>>}
    BY <1>29, <1>31, <1>34, <1>37 DEF Linked
  <2> QED BY <2>1, <2>2
<1> QED BY <1>1, <1>3, <1>37, <1>39, <1>40, <1>41

\* The subgraph of a shot, with m files: ss are the sources of its references.
Drawn(g, shot, m, ss) ==
  /\ Len(g.nodes) = m + 5 /\ ss \in Seq(Nat \X Nat) /\ Len(ss) = Len(shot.refs)
  /\ \A k \in 1..Len(ss) :
       IF shot.refs[k].source # {} THEN ss[k] = <<0, 2 + Rank(shot, k)>>
       ELSE ss[k][1] \in 1..m /\ ss[k][2] = 1 /\ g.nodes[ss[k][1]].kind = Direct(shot.id, shot.refs[k].id)
  /\ \A n \in 1..m : \E k \in 1..Len(ss) : shot.refs[k].source = {} /\ g.nodes[n].kind = Direct(shot.id, shot.refs[k].id)
  /\ g.nodes[m + 1].kind = CanvasPack(shot.id, Len(ss)) /\ g.nodes[m + 2].kind = Keyframe(shot)
  /\ g.nodes[m + 3].kind = VideoPack(shot.id, 1 + Len(ss))
  /\ g.nodes[m + 4].kind = PromptOf(shot.id) /\ g.nodes[m + 5].kind = VideoNode(shot.id)
  /\ Edges(g) =
       (UNION {{<<0, 1, n, 1>>, <<0, 2, n, 2>>} : n \in 1..m})
       \cup Ordered(ss, m + 1, 1) \cup {<<0, 1, m + 2, 1>>, <<0, 2, m + 2, 2>>}
       \cup (IF ss = << >> THEN {} ELSE {<<m + 1, 1, m + 2, 6>>})
       \cup {<<m + 2, 1, m + 3, 2>>} \cup Ordered(ss, m + 3, 2)
       \cup {<<0, 1, m + 4, 1>>, <<m + 3, 1, m + 4, 2>>, <<0, 1, m + 5, 1>>, <<m + 4, 1, m + 5, 2>>,
             <<m + 3, 1, m + 5, 3>>, <<0, 2, m + 5, 4>>, <<m + 2, 1, -1, 1>>, <<m + 5, 1, -1, 2>>}

\* Every link of a subgraph is paired, and the subgraph is exactly the one drawn.
LEMMA SubgraphDoes ==
  ASSUME NEW shot, NEW T, shot.refs \in Seq(T), NEW g, g = SubgraphForShot(shot)
  PROVE  /\ g \in Level(KindsOf(shot)) /\ Paired(g, {}) /\ Edged(g, Rank(shot, Len(shot.refs)))
         /\ \E m \in Nat : \E ss : Drawn(g, shot, m, ss)
<1>1. PICK K, c : K = KindsOf(shot) /\ c = Len(shot.refs)
  OBVIOUS
<1>2. PICK e, ss : e = WithReferences(shot).g /\ ss = WithReferences(shot).sources
  OBVIOUS
<1>3. /\ e \in Level(K) /\ Paired(e, {}) /\ Edged(e, Rank(shot, c))
      /\ ss \in Seq(Nat \X Nat) /\ Len(ss) = c /\ Sources(e, ss, shot, c) /\ Files(e, shot, c)
  BY <1>1, <1>2, ReferencesDo DEF Referred
<1>4. PICK m \in Nat : m = Len(e.nodes)
  BY <1>3, LevelIs
<1>5. c \in Nat /\ Rank(shot, c) \in Nat /\ \A k \in 1..c : Rank(shot, k) \in Nat /\ Rank(shot, k) <= Rank(shot, c)
  <2>1. c \in Nat /\ c \in 0..c /\ \A k \in 1..c : k \in 0..c
    BY <1>1
  <2> QED BY <2>1, RankIs
<1>6. 1 \in DOMAIN e.inputs /\ 2 \in DOMAIN e.inputs /\ DOMAIN e.outputs = {1, 2}
  BY <1>3, <1>5 DEF Edged
<1>7. Available(e, ss)
  <2>1. ASSUME NEW k \in 1..c, shot.refs[k].source # {}
        PROVE  ss[k][1] = 0 /\ ss[k][2] \in DOMAIN e.inputs
    <3>1. ss[k] = <<0, 2 + Rank(shot, k)>>
      BY <1>3, <2>1 DEF Sources
    <3>2. 2 + Rank(shot, k) \in 1..(2 + Rank(shot, c))
      BY <1>5
    <3> QED BY <1>3, <3>1, <3>2 DEF Edged
  <2>2. ASSUME NEW k \in 1..c, shot.refs[k].source = {}
        PROVE  ss[k][1] # 0 /\ Outlet(e, ss[k][1], ss[k][2])
    <3>1. Outlet(e, ss[k][1], 1) /\ ss[k][2] = 1
      BY <1>3, <2>2 DEF Sources
    <3>2. ss[k][1] \in 1..m
      BY <1>4, <3>1 DEF Outlet
    <3> QED BY <3>1, <3>2
  <2> QED BY <1>3, <2>1, <2>2 DEF Available
<1>8. /\ CanvasPack(shot.id, Len(ss)) \in K /\ Keyframe(shot) \in K /\ VideoPack(shot.id, 1 + Len(ss)) \in K
      /\ PromptOf(shot.id) \in K /\ VideoNode(shot.id) \in K
  BY <1>1, <1>3 DEF KindsOf
<1>9. PICK f : f = WithKeyframe(shot, e, ss)
  OBVIOUS
<1>10. PICK n \in Nat, k \in Nat : n = m + 1 /\ k = m + 2
  OBVIOUS
<1>11. /\ f \in Level(K) /\ Extends(e, f, 2) /\ Paired(f, {})
       /\ f.nodes[n].kind = CanvasPack(shot.id, Len(ss)) /\ f.nodes[n + 1].kind = Keyframe(shot)
       /\ Outlet(f, n + 1, 1)
       /\ Edges(f) = Edges(e) \cup Ordered(ss, n, 1) \cup {<<0, 1, n + 1, 1>>, <<0, 2, n + 1, 2>>}
                     \cup (IF ss = << >> THEN {} ELSE {<<n, 1, n + 1, 6>>})
  <2>1. n = Len(e.nodes) + 1
    BY <1>4, <1>10
  <2>2. e \in Level(K) /\ Paired(e, {})
    BY <1>3
  <2> QED BY <1>6, <1>7, <1>8, <1>9, <2>1, <2>2, KeyframeDoes
<1>12. n + 1 = k /\ Len(f.nodes) = k
  BY <1>4, <1>10, <1>11 DEF Extends
<1>13. PICK h : h = WithVideoPack(shot, f, ss, k)
  OBVIOUS
<1>14. /\ h \in Level(K) /\ Extends(f, h, 1) /\ Paired(h, {})
       /\ h.nodes[k + 1].kind = VideoPack(shot.id, 1 + Len(ss)) /\ Outlet(h, k + 1, 1)
       /\ Edges(h) = Edges(f) \cup {<<k, 1, k + 1, 2>>} \cup Ordered(ss, k + 1, 2)
  <2>1. Available(f, ss) /\ Outlet(f, k, 1)
    BY <1>7, <1>11, <1>12, StaysAvailable
  <2> QED BY <1>8, <1>11, <1>12, <1>13, <2>1, VideoPackDoes
<1>15. g = WithVideo(shot, h, k)
  BY <1>2, <1>9, <1>12, <1>13 DEF SubgraphForShot
<1>16. Len(h.nodes) = k + 1
  BY <1>12, <1>14 DEF Extends
<1>17. /\ g \in Level(K) /\ Extends(h, g, 2) /\ Paired(g, {})
       /\ g.nodes[k + 2].kind = PromptOf(shot.id) /\ g.nodes[k + 3].kind = VideoNode(shot.id)
       /\ Edges(g) = Edges(h) \cup {<<0, 1, k + 2, 1>>, <<k + 1, 1, k + 2, 2>>, <<0, 1, k + 3, 1>>,
                                    <<k + 2, 1, k + 3, 2>>, <<k + 1, 1, k + 3, 3>>, <<0, 2, k + 3, 4>>,
                                    <<k, 1, -1, 1>>, <<k + 3, 1, -1, 2>>}
  <2>1. 1 \in DOMAIN h.inputs /\ 2 \in DOMAIN h.inputs /\ DOMAIN h.outputs = {1, 2} /\ Outlet(h, k, 1)
    BY <1>6, <1>11, <1>12, <1>14 DEF Extends
  <2> QED BY <1>8, <1>14, <1>15, <1>16, <2>1, VideoDoes, SMTT(30)
<1>18. Edged(g, Rank(shot, c))
  BY <1>3, <1>11, <1>14, <1>17 DEF Edged, Extends
<1>19. /\ k + 1 = m + 3 /\ k + 2 = m + 4 /\ k + 3 = m + 5 /\ n = m + 1 /\ k = m + 2 /\ n + 1 = m + 2
       /\ Len(g.nodes) = m + 5
  <2>1. Len(g.nodes) = (k + 1) + 2
    BY <1>16, <1>17 DEF Extends
  <2> QED BY <1>10, <2>1
<1>20. \A i \in 1..m : g.nodes[i].kind = e.nodes[i].kind
  <2>1. \A i \in 1..m : i \in 1..k /\ i \in 1..(k + 1)
    BY <1>10
  <2> QED BY <1>4, <1>11, <1>12, <1>14, <1>16, <1>17, <2>1 DEF Extends
<1>21. /\ g.nodes[m + 1].kind = CanvasPack(shot.id, Len(ss)) /\ g.nodes[m + 2].kind = Keyframe(shot)
       /\ g.nodes[m + 3].kind = VideoPack(shot.id, 1 + Len(ss))
       /\ g.nodes[m + 4].kind = PromptOf(shot.id) /\ g.nodes[m + 5].kind = VideoNode(shot.id)
  <2>1. n \in 1..k /\ k \in 1..k /\ n \in 1..(k + 1) /\ k \in 1..(k + 1) /\ k + 1 \in 1..(k + 1)
    BY <1>10
  <2>2. g.nodes[n].kind = f.nodes[n].kind /\ g.nodes[k].kind = f.nodes[k].kind
    BY <1>12, <1>14, <1>16, <1>17, <2>1 DEF Extends
  <2>3. g.nodes[k + 1].kind = h.nodes[k + 1].kind
    BY <1>16, <1>17, <2>1 DEF Extends
  <2> QED BY <1>11, <1>12, <1>14, <1>17, <1>19, <2>2, <2>3
<1>22. \A i \in 1..Len(ss) :
         IF shot.refs[i].source # {} THEN ss[i] = <<0, 2 + Rank(shot, i)>>
         ELSE ss[i][1] \in 1..m /\ ss[i][2] = 1 /\ g.nodes[ss[i][1]].kind = Direct(shot.id, shot.refs[i].id)
  BY <1>3, <1>4, <1>20 DEF Sources, Outlet
<1>23. \A i \in 1..m : \E j \in 1..Len(ss) : shot.refs[j].source = {} /\ g.nodes[i].kind = Direct(shot.id, shot.refs[j].id)
  BY <1>3, <1>4, <1>20 DEF Files
<1>24. Edges(g) =
       (UNION {{<<0, 1, i, 1>>, <<0, 2, i, 2>>} : i \in 1..m})
       \cup Ordered(ss, m + 1, 1) \cup {<<0, 1, m + 2, 1>>, <<0, 2, m + 2, 2>>}
       \cup (IF ss = << >> THEN {} ELSE {<<m + 1, 1, m + 2, 6>>})
       \cup {<<m + 2, 1, m + 3, 2>>} \cup Ordered(ss, m + 3, 2)
       \cup {<<0, 1, m + 4, 1>>, <<m + 3, 1, m + 4, 2>>, <<0, 1, m + 5, 1>>, <<m + 4, 1, m + 5, 2>>,
             <<m + 3, 1, m + 5, 3>>, <<0, 2, m + 5, 4>>, <<m + 2, 1, -1, 1>>, <<m + 5, 1, -1, 2>>}
  <2>1. Edges(e) = UNION {{<<0, 1, i, 1>>, <<0, 2, i, 2>>} : i \in 1..m}
    BY <1>3, <1>4 DEF Files
  <2> QED BY <1>11, <1>14, <1>17, <1>19, <2>1
<1>25. Drawn(g, shot, m, ss)
  BY <1>1, <1>3, <1>19, <1>21, <1>22, <1>23, <1>24 DEF Drawn
<1> QED BY <1>1, <1>17, <1>18, <1>25

-----------------------------------------------------------------------------
(* The nodes around the UI graph's instances                                 *)

LEMMA OneList ==
  ASSUME NEW a
  PROVE  SetToSeq({a}) \in Seq({a}) /\ Len(SetToSeq({a})) = 1 /\ SetToSeq({a})[1] = a
<1>1. Cardinality({a}) = 1
  BY FS_Singleton
<1>2. PICK f : f = [i \in 1..1 |-> a]
  OBVIOUS
<1>3. f \in [1..1 -> {a}] /\ IsInjective(f)
  BY <1>2 DEF IsInjective
<1>4. PICK g : g = SetToSeq({a})
  OBVIOUS
<1>5. g \in [1..1 -> {a}]
  <2>1. SetToSeq({a}) = CHOOSE h \in [1..1 -> {a}] : IsInjective(h)
    BY <1>1 DEF SetToSeq
  <2>2. (CHOOSE h \in [1..1 -> {a}] : IsInjective(h)) \in [1..1 -> {a}]
    BY <1>3
  <2> QED BY <1>4, <2>1, <2>2
<1>6. g \in Seq({a}) /\ Len(g) = 1 /\ g[1] = a
  <2>1. g = [i \in 1..1 |-> g[i]] /\ \A i \in 1..1 : g[i] = a
    BY <1>5
  <2>2. g = << a >>
    BY <2>1
  <2> QED BY <2>2
<1> QED BY <1>4, <1>6

\* Every reference of the shot names one image that the run makes, or none.
OneEach(shot) ==
  /\ shot.refs \in Seq(ToSet(shot.refs))
  /\ \A r \in ToSet(shot.refs) : r.source = {} \/ \E a \in r.source : r.source = {a}

\* What a shot is fed with: the images of its references, in their order.
LEMMA SourcesList ==
  ASSUME NEW shot, OneEach(shot)
  PROVE  /\ \E A : SourcesOf(shot) \in Seq(A)
         /\ Len(SourcesOf(shot)) = Rank(shot, Len(shot.refs))
         /\ \A k \in 1..Len(shot.refs) : shot.refs[k].source # {} =>
              /\ Rank(shot, k) \in 1..Rank(shot, Len(shot.refs))
              /\ shot.refs[k].source = {SourcesOf(shot)[Rank(shot, k)]}
<1>1. PICK A : A = UNION {r.source : r \in ToSet(shot.refs)}
  BY Zenon
<1>2. PICK refs : refs = shot.refs
  OBVIOUS
<1>3. PICK n \in Nat : n = Len(refs) /\ DOMAIN refs = 1..n
  <2>1. refs \in Seq(ToSet(refs))
    BY <1>2 DEF OneEach
  <2>2. Len(refs) \in Nat /\ DOMAIN refs = 1..Len(refs)
    BY <2>1
  <2> QED BY <2>2, Zenon
<1>4. \A j \in 1..n : refs[j].source = {} \/ \E a \in A : refs[j].source = {a}
  <2>1. ASSUME NEW j \in 1..n PROVE refs[j].source = {} \/ \E a \in A : refs[j].source = {a}
    <3>1. PICK r : r = refs[j]
      OBVIOUS
    <3>2. r \in ToSet(shot.refs)
      BY <1>2, <1>3, <3>1 DEF ToSet
    <3>3. r.source \subseteq A
      BY <1>1, <3>2
    <3>4. r.source = {} \/ \E a \in r.source : r.source = {a}
      BY <3>2 DEF OneEach
    <3> QED BY <3>1, <3>3, <3>4
  <2> QED BY <2>1
<1>5. PICK seqs : seqs = [j \in DOMAIN refs |-> SetToSeq(refs[j].source)]
  OBVIOUS
<1>6. ASSUME NEW j \in 1..n
      PROVE  /\ seqs[j] \in Seq(A)
             /\ refs[j].source = {} => Len(seqs[j]) = 0
             /\ refs[j].source # {} => Len(seqs[j]) = 1 /\ refs[j].source = {seqs[j][1]}
  <2>1. PICK S, s : S = refs[j].source /\ s = seqs[j]
    OBVIOUS
  <2>2. s = SetToSeq(S)
    BY <1>3, <1>5, <2>1
  <2>3. CASE S = {}
    <3>1. IsFiniteSet(S)
      BY <2>3, FS_EmptySet
    <3>2. s \in Seq(S)
      BY <2>2, <3>1, SetAsList
    <3>3. Len(s) \in Nat /\ \A i \in 1..Len(s) : s[i] \in S
      BY <3>2
    <3>4. Len(s) = 0 /\ Seq(S) \subseteq Seq(A)
      BY <2>3, <3>3
    <3> QED BY <2>1, <2>3, <3>2, <3>4
  <2>4. CASE S # {}
    <3>1. PICK a \in A : S = {a}
      BY <1>4, <2>1, <2>4
    <3>2. s \in Seq({a}) /\ Len(s) = 1 /\ s[1] = a
      BY <2>2, <3>1, OneList
    <3>3. Seq({a}) \subseteq Seq(A)
      OBVIOUS
    <3> QED BY <2>1, <2>4, <3>1, <3>2, <3>3
  <2> QED BY <2>3, <2>4
<1>7. seqs \in Seq(Seq(A)) /\ Len(seqs) = n
  <2>1. seqs = [j \in 1..n |-> seqs[j]] /\ \A j \in 1..n : seqs[j] \in Seq(A)
    BY <1>3, <1>5, <1>6
  <2> QED BY <2>1
<1>8. PICK f : Flattening(f, seqs, A)
  BY <1>7, FlattenFold
<1>9. PICK rk : rk = [k \in 0..n |-> Rank(shot, k)]
  OBVIOUS
<1>10. /\ rk \in [0..n -> Nat] /\ rk[0] = 0 /\ (\A k \in 0..n : rk[k] <= rk[n])
       /\ \A k \in 1..n : rk[k] = IF refs[k].source # {} THEN rk[k - 1] + 1 ELSE rk[k - 1]
  <2>1. /\ \A k \in 0..n : Rank(shot, k) \in Nat /\ Rank(shot, k) <= Rank(shot, n)
        /\ Rank(shot, 0) = 0
        /\ \A k \in 1..n : Rank(shot, k) = IF refs[k].source # {} THEN Rank(shot, k - 1) + 1
                                           ELSE Rank(shot, k - 1)
    BY <1>2, RankIs
  <2>2. \A k \in 1..n : k \in 0..n /\ k - 1 \in 0..n
    OBVIOUS
  <2>3. 0 \in 0..n /\ n \in 0..n
    OBVIOUS
  <2> QED BY <1>9, <2>1, <2>2, <2>3
<1> DEFINE Right(s, i) ==
             /\ s \in Seq(A) /\ Len(s) = rk[i]
             /\ \A k \in 1..i : refs[k].source # {} => rk[k] \in 1..rk[i] /\ refs[k].source = {s[rk[k]]}
           S == {i \in 0..n : i # 0 => Right(f[i], i)}
<1>11. 0 \in S
  BY <1>3
<1>12. ASSUME NEW i \in 1..n, i - 1 \in S PROVE i \in S
  <2>1. PICK t : t = seqs[i]
    OBVIOUS
  <2>2. /\ t \in Seq(A) /\ (refs[i].source = {} => Len(t) = 0)
        /\ (refs[i].source # {} => Len(t) = 1 /\ refs[i].source = {t[1]})
    BY <1>6, <2>1
  <2>3. i - 1 \in 0..n /\ rk[i - 1] \in Nat /\ rk[i] \in Nat
        /\ rk[i] = IF refs[i].source # {} THEN rk[i - 1] + 1 ELSE rk[i - 1]
    BY <1>10
  <2>4. PICK s : s = IF i = 1 THEN << >> ELSE f[i - 1]
    OBVIOUS
  <2>5. Right(s, i - 1)
    <3>1. CASE i = 1
      <4>1. s = << >> /\ rk[i - 1] = 0 /\ \A k : k \notin 1..(i - 1)
        BY <1>10, <2>4, <3>1
      <4> QED BY <4>1
    <3>2. CASE i # 1
      <4>1. i - 1 # 0
        BY <3>2
      <4> QED BY <1>12, <2>4, <3>2, <4>1
    <3> QED BY <3>1, <3>2
  <2>6. f[i] = s \o t
    <3>1. f[i] = IF i = 1 THEN seqs[i] ELSE f[i - 1] \o seqs[i]
      BY <1>7, <1>8 DEF Flattening
    <3>2. << >> \o t = t
      BY <2>2
    <3> QED BY <2>1, <2>4, <3>1, <3>2
  <2>7. PICK u : u = s \o t
    OBVIOUS
  <2>8. /\ u \in Seq(A) /\ Len(u) = rk[i - 1] + Len(t) /\ Len(t) \in Nat
        /\ \A j \in 1..rk[i - 1] : u[j] = s[j]
        /\ \A j \in 1..Len(t) : u[rk[i - 1] + j] = t[j]
    <3>1. s \in Seq(A) /\ Len(s) = rk[i - 1]
      BY <2>5
    <3>2. /\ u \in Seq(A) /\ Len(u) = Len(s) + Len(t) /\ Len(t) \in Nat /\ Len(s) \in Nat
          /\ \A j \in 1..Len(s) : u[j] = s[j]
          /\ \A j \in 1..(Len(s) + Len(t)) : j > Len(s) => u[j] = t[j - Len(s)]
      BY <2>2, <2>7, <3>1, ConcatAt, SMTT(30)
    <3>3. ASSUME NEW j \in 1..Len(t) PROVE u[Len(s) + j] = t[j]
      <4>1. Len(s) + j \in 1..(Len(s) + Len(t)) /\ Len(s) + j > Len(s) /\ (Len(s) + j) - Len(s) = j
        BY <3>2
      <4> QED BY <3>2, <4>1
    <3> QED BY <3>1, <3>2, <3>3
  <2>9. Len(u) = rk[i]
    BY <2>2, <2>3, <2>8
  <2>10. ASSUME NEW k \in 1..i, refs[k].source # {}
         PROVE  rk[k] \in 1..rk[i] /\ refs[k].source = {u[rk[k]]}
    <3>1. CASE k = i
      <4>1. rk[i] = rk[i - 1] + 1 /\ Len(t) = 1 /\ refs[i].source = {t[1]} /\ 1 \in 1..Len(t)
        BY <2>2, <2>3, <2>10, <3>1
      <4>2. u[rk[i - 1] + 1] = t[1]
        BY <2>8, <4>1
      <4>3. rk[i] \in 1..rk[i]
        BY <2>3, <4>1
      <4> QED BY <3>1, <4>1, <4>2, <4>3
    <3>2. CASE k # i
      <4>1. k \in 1..(i - 1)
        BY <3>2
      <4>2. rk[k] \in 1..rk[i - 1] /\ refs[k].source = {s[rk[k]]}
        BY <2>5, <2>10, <4>1
      <4>3. rk[k] \in 1..rk[i]
        BY <2>3, <4>2
      <4> QED BY <2>8, <4>2, <4>3
    <3> QED BY <3>1, <3>2
  <2>11. Right(f[i], i)
    BY <2>6, <2>7, <2>8, <2>9, <2>10
  <2>12. i \in 0..n
    OBVIOUS
  <2> QED BY <2>11, <2>12
<1>13. n \in S
  <2> HIDE DEF S
  <2>1. n \in 0..n
    OBVIOUS
  <2> QED BY <1>11, <1>12, <2>1, UpTo
<1>14. Right(FlattenSeq(seqs), n)
  <2>1. CASE n = 0
    <3>1. FlattenSeq(seqs) = << >> /\ rk[n] = 0 /\ \A k : k \notin 1..n
      BY <1>7, <1>8, <1>10, <2>1 DEF Flattening
    <3>2. << >> \in Seq(A) /\ Len(<< >>) = 0
      OBVIOUS
    <3>3. PICK s : s = FlattenSeq(seqs)
      OBVIOUS
    <3>4. s \in Seq(A) /\ Len(s) = rk[n]
      BY <3>1, <3>2, <3>3
    <3>5. Right(s, n)
      BY <3>1, <3>4
    <3> QED BY <3>3, <3>5
  <2>2. CASE n # 0
    <3>1. FlattenSeq(seqs) = f[n]
      BY <1>7, <1>8, <2>2 DEF Flattening
    <3> QED BY <1>13, <2>2, <3>1
  <2> QED BY <2>1, <2>2
<1>15. SourcesOf(shot) = FlattenSeq(seqs)
  BY <1>2, <1>5 DEF SourcesOf
<1>16. \A k \in 1..n : rk[k] = Rank(shot, k) /\ rk[n] = Rank(shot, n)
  BY <1>9
<1>17. rk[n] = Rank(shot, n)
  BY <1>9
<1> QED BY <1>2, <1>3, <1>14, <1>15, <1>16, <1>17

-----------------------------------------------------------------------------
(* The UI graph                                                              *)

\* The links from plan and policy to node t.
Plugged(t) == {<<3, 1, t, 1>>, <<2, 1, t, 2>>}
\* The nodes that Attach links from are there.
Started(g) == Outlet(g, 3, 1) /\ Outlet(g, 2, 1)

LEMMA AttachDoes ==
  ASSUME NEW K, NEW g \in Level(K), Paired(g, {}), Started(g), NEW t \in Int, Free(g, t, 1), Free(g, t, 2),
         NEW h, h = Attach(g, t)
  PROVE  /\ h \in Level(K) /\ SameNodes(g, h) /\ Paired(h, {}) /\ Edges(h) = Edges(g) \cup Plugged(t)
         /\ \A b : Free(g, t, b) /\ b # 1 /\ b # 2 => Free(h, t, b)
<1>1. PICK x : x = Connect(g, 3, 1, t, 1)
  OBVIOUS
<1>2. h = Connect(x, 2, 1, t, 2)
  BY <1>1 DEF Attach
<1>3. x \in Level(K) /\ Linked(g, x, 3, 1, t, 1) /\ Paired(x, {})
  <2>1. Outlet(g, 3, 1) /\ Inlet(g, t, 1)
    BY DEF Started, Free
  <2> QED BY <1>1, <2>1, ConnectDoes
<1>4. SameNodes(g, x) /\ (\A b : Free(g, t, b) /\ b # 1 => Free(x, t, b)) /\ Edges(x) = Edges(g) \cup {<<3, 1, t, 1>>}
  BY <1>3 DEF Linked
<1>5. h \in Level(K) /\ Linked(x, h, 2, 1, t, 2) /\ Paired(h, {})
  <2>1. Outlet(x, 2, 1) /\ Free(x, t, 2)
    BY <1>4 DEF SameNodes, Started
  <2>2. Inlet(x, t, 2)
    BY <2>1 DEF Free
  <2> QED BY <1>2, <1>3, <2>1, <2>2, ConnectDoes
<1>6. SameNodes(x, h) /\ (\A b : Free(x, t, b) /\ b # 2 => Free(h, t, b)) /\ Edges(h) = Edges(x) \cup {<<2, 1, t, 2>>}
  BY <1>5 DEF Linked
<1>7. SameNodes(g, h)
  BY <1>4, <1>6, SameTwice
<1>8. Edges(h) = Edges(g) \cup Plugged(t)
  BY <1>4, <1>6 DEF Plugged
<1> QED BY <1>4, <1>5, <1>6, <1>7, <1>8

\* A new node N, attached.
LEMMA AttachedDoes ==
  ASSUME NEW K, NEW g \in Level(K), Paired(g, {}), Started(g), NEW kd \in K, NEW N \in Nat, N = Len(g.nodes) + 1,
         NEW c \in Nat, c >= 2, NEW o \in {1, 2}, NEW h, h = Attach(AddNode(g, kd, Zeros(c), o), N)
  PROVE  /\ h \in Level(K) /\ Paired(h, {}) /\ Extends(g, h, 1) /\ Started(h)
         /\ Edges(h) = Edges(g) \cup Plugged(N)
         /\ h.nodes[N].kind = kd /\ (\A s \in 1..o : Outlet(h, N, s))
         /\ \A b \in 3..c : Free(h, N, b)
<1>1. PICK x : x = AddNode(g, kd, Zeros(c), o)
  OBVIOUS
<1>2. /\ x \in Level(K) /\ Extends(g, x, 1) /\ Edges(x) = Edges(g)
      /\ x.nodes[N].kind = kd /\ (\A s \in 1..o : Outlet(x, N, s))
      /\ (\A b \in 1..c : Free(x, N, b))
      /\ Paired(x, {})
  BY <1>1, EmptyNodeDoes
<1>3. Started(x) /\ Free(x, N, 1) /\ Free(x, N, 2) /\ \A b \in 3..c : Free(x, N, b) /\ b # 1 /\ b # 2
  <2>1. 1 \in 1..c /\ 2 \in 1..c /\ \A b \in 3..c : b \in 1..c /\ b # 1 /\ b # 2
    OBVIOUS
  <2> QED BY <1>2, <2>1 DEF Started, Extends
<1>4. /\ h \in Level(K) /\ SameNodes(x, h) /\ Paired(h, {}) /\ Edges(h) = Edges(x) \cup Plugged(N)
      /\ \A b : Free(x, N, b) /\ b # 1 /\ b # 2 => Free(h, N, b)
  <2>1. h = Attach(x, N) /\ N \in Int
    BY <1>1
  <2> QED BY <1>2, <1>3, <2>1, AttachDoes
<1>5. Extends(g, h, 1)
  BY <1>2, <1>4, StillExtends
<1>6. N \in 1..Len(x.nodes)
  BY <1>2 DEF Extends
<1>7. h.nodes[N].kind = kd /\ (\A s \in 1..o : Outlet(h, N, s)) /\ Started(h)
  BY <1>2, <1>3, <1>4, <1>6 DEF SameNodes, Started
<1> QED BY <1>2, <1>3, <1>4, <1>5, <1>7

\* What the UI graph is made of.
UiKinds(p) ==
  {Single(c) : c \in {"Input", "ExecutionPolicy", "Director", "StoryAssemble", "RunManifest"}}
  \cup {Shared(a.asset) : a \in ToSet(p.shared)}
  \cup {Kind("Shot", {s.id}, << >>, 0) : s \in ToSet(p.shots)}

\* h is g with a new node N that nothing feeds yet.
Plain(K, g, kd, N, c, h) ==
  /\ g \in Level(K) /\ Paired(g, {}) /\ kd \in K /\ N \in Nat /\ N = Len(g.nodes) + 1 /\ c \in Nat
  /\ h = AddNode(g, kd, Zeros(c), 1)

LEMMA PlainNode ==
  ASSUME NEW K, NEW g, NEW kd, NEW N, NEW c, NEW h, Plain(K, g, kd, N, c, h)
  PROVE  /\ h \in Level(K) /\ Paired(h, {}) /\ Extends(g, h, 1) /\ Edges(h) = Edges(g) /\ Len(h.nodes) = N
         /\ h.nodes[N].kind = kd /\ Outlet(h, N, 1) /\ \A b \in 1..c : Free(h, N, b)
<1>1. PICK o \in {1, 2} : o = 1
  OBVIOUS
<1>2. N \in Nat /\ N = Len(g.nodes) + 1 /\ g \in Level(K) /\ Paired(g, {}) /\ kd \in K /\ c \in Nat
  BY DEF Plain
<1>3. h = AddNode(g, kd, Zeros(c), o)
  BY <1>1 DEF Plain
<1>4. /\ h \in Level(K) /\ Extends(g, h, 1) /\ Edges(h) = Edges(g)
      /\ h.nodes[N].kind = kd /\ \A s \in 1..o : Outlet(h, N, s)
      /\ \A b \in 1..c : Free(h, N, b)
      /\ Paired(h, {})
  BY <1>2, <1>3, EmptyNodeDoes
<1>5. 1 \in 1..o
  BY <1>1
<1> QED BY <1>2, <1>4, <1>5 DEF Extends

LEMMA NoLevelIs ==
  ASSUME NEW K, NEW e, e = NoLevel
  PROVE  /\ e \in Level(K) /\ Paired(e, {}) /\ Len(e.nodes) = 0 /\ Edges(e) = {}
         /\ DOMAIN e.inputs = {} /\ DOMAIN e.outputs = {}
<1>1. e \in Level(K) /\ Len(e.nodes) = 0 /\ Len(e.links) = 0 /\ DOMAIN e.inputs = {} /\ DOMAIN e.outputs = {}
  <2>1. /\ << >> \in Seq(NodeOf(K)) /\ << >> \in Seq(Wire) /\ << >> \in Seq(Seq(Nat))
        /\ Len(<< >>) = 0 /\ DOMAIN << >> = {}
    OBVIOUS
  <2> QED BY <2>1 DEF NoLevel, Level
<1>2. Paired(e, {}) /\ Edges(e) = {}
  <2>1. \A x : x \notin 1..0
    OBVIOUS
  <2> QED BY <1>1, <2>1 DEF Paired, Edges, OutAt, InAt, OriginAt, TargetAt, Outlet, Inlet
<1> QED BY <1>1, <1>2

\* Input, policy and director.
LEMMA HeadDoes ==
  ASSUME NEW K, Single("Input") \in K, Single("ExecutionPolicy") \in K, Single("Director") \in K,
         NEW g, g = UiHead
  PROVE  /\ g \in Level(K) /\ Paired(g, {}) /\ Len(g.nodes) = 3 /\ Started(g)
         /\ DOMAIN g.inputs = {} /\ DOMAIN g.outputs = {}
         /\ g.nodes[1].kind = Single("Input") /\ g.nodes[2].kind = Single("ExecutionPolicy")
         /\ g.nodes[3].kind = Single("Director")
         /\ Edges(g) = {<<1, 1, 3, 1>>, <<2, 1, 3, 2>>}
<1>1. PICK k1 \in K, k2 \in K, k3 \in K : k1 = Single("Input") /\ k2 = Single("ExecutionPolicy") /\ k3 = Single("Director")
  OBVIOUS
<1>2. PICK e : e = NoLevel
  OBVIOUS
<1>3. /\ e \in Level(K) /\ Paired(e, {}) /\ Len(e.nodes) = 0 /\ Edges(e) = {}
      /\ DOMAIN e.inputs = {} /\ DOMAIN e.outputs = {}
  BY <1>2, NoLevelIs
<1>4. PICK a, b, c : a = AddNode(e, k1, Zeros(2), 1) /\ b = AddNode(a, k2, Zeros(1), 1) /\ c = AddNode(b, k3, Zeros(4), 1)
  OBVIOUS
<1>5. PICK n1 \in Nat, n2 \in Nat, n3 \in Nat : n1 = 2 /\ n2 = 1 /\ n3 = 4
  OBVIOUS
<1>6. PICK m1 \in Nat, m2 \in Nat, m3 \in Nat : m1 = 1 /\ m2 = 2 /\ m3 = 3
  OBVIOUS
<1>7. AddNode(e, k1, Zeros(2), 1) = AddNode(e, k1, Zeros(n1), 1)
  BY <1>5
<1>8. AddNode(a, k2, Zeros(1), 1) = AddNode(a, k2, Zeros(n2), 1)
  BY <1>5
<1>9. AddNode(b, k3, Zeros(4), 1) = AddNode(b, k3, Zeros(n3), 1)
  BY <1>5
<1>10. /\ a \in Level(K) /\ Paired(a, {}) /\ Extends(e, a, 1) /\ Edges(a) = {} /\ Len(a.nodes) = m1
       /\ a.nodes[m1].kind = k1 /\ Outlet(a, m1, 1)
  <2>1. m1 = Len(e.nodes) + 1
    BY <1>3, <1>6
  <2>2. Plain(K, e, k1, m1, n1, a)
    BY <1>3, <1>4, <1>7, <2>1 DEF Plain
  <2>3. /\ a \in Level(K) /\ Paired(a, {}) /\ Extends(e, a, 1) /\ Edges(a) = Edges(e) /\ Len(a.nodes) = m1
        /\ a.nodes[m1].kind = k1 /\ Outlet(a, m1, 1)
    BY <2>2, PlainNode
  <2> QED BY <1>3, <2>3
<1>11. /\ b \in Level(K) /\ Paired(b, {}) /\ Extends(a, b, 1) /\ Edges(b) = {} /\ Len(b.nodes) = m2
       /\ b.nodes[m2].kind = k2 /\ Outlet(b, m2, 1)
  <2>1. m2 = Len(a.nodes) + 1
    BY <1>10, <1>6
  <2>2. Plain(K, a, k2, m2, n2, b)
    BY <1>4, <1>10, <1>8, <2>1 DEF Plain
  <2>3. /\ b \in Level(K) /\ Paired(b, {}) /\ Extends(a, b, 1) /\ Edges(b) = Edges(a) /\ Len(b.nodes) = m2
        /\ b.nodes[m2].kind = k2 /\ Outlet(b, m2, 1)
    BY <2>2, PlainNode
  <2> QED BY <1>10, <2>3
<1>12. /\ c \in Level(K) /\ Paired(c, {}) /\ Extends(b, c, 1) /\ Edges(c) = {} /\ Len(c.nodes) = m3
       /\ c.nodes[m3].kind = k3 /\ Outlet(c, m3, 1) /\ \A i \in 1..n3 : Free(c, m3, i)
  <2>1. m3 = Len(b.nodes) + 1
    BY <1>11, <1>6
  <2>2. Plain(K, b, k3, m3, n3, c)
    BY <1>4, <1>11, <1>9, <2>1 DEF Plain
  <2>3. /\ c \in Level(K) /\ Paired(c, {}) /\ Extends(b, c, 1) /\ Edges(c) = Edges(b) /\ Len(c.nodes) = m3
        /\ c.nodes[m3].kind = k3 /\ Outlet(c, m3, 1) /\ \A i \in 1..n3 : Free(c, m3, i)
    BY <2>2, PlainNode
  <2> QED BY <1>11, <2>3
<1>13. c \in Level(K) /\ Edges(c) = {} /\ Paired(c, {}) /\ c.nodes[3].kind = k3 /\ Outlet(c, 3, 1) /\ Free(c, 3, 1) /\ Free(c, 3, 2)
  <2>1. 1 \in 1..n3 /\ 2 \in 1..n3
    BY <1>5
  <2> QED BY <1>12, <1>6, <2>1
<1>14. Len(c.nodes) = 3
  BY <1>12, <1>6
<1>15. Outlet(c, 1, 1) /\ Outlet(c, 2, 1) /\ c.nodes[1].kind = k1 /\ c.nodes[2].kind = k2
  <2>1. 1 \in 1..1 /\ 1 \in 1..2 /\ 2 \in 1..2
    OBVIOUS
  <2> QED BY <1>10, <1>11, <1>12, <1>6, <2>1 DEF Extends
<1>16. PICK d : d = Connect(c, 1, 1, 3, 1)
  OBVIOUS
<1>17. g = Connect(d, 2, 1, 3, 2)
  BY <1>1, <1>2, <1>4, <1>16 DEF UiHead
<1>18. d \in Level(K) /\ Linked(c, d, 1, 1, 3, 1) /\ Paired(d, {})
  <2>1. Inlet(c, 3, 1)
    BY <1>13 DEF Free
  <2> QED BY <1>13, <1>15, <1>16, <2>1, ConnectDoes
<1>19. g \in Level(K) /\ Linked(d, g, 2, 1, 3, 2) /\ Paired(g, {})
  <2>1. Free(d, 3, 2) /\ Outlet(d, 2, 1)
    BY <1>13, <1>15, <1>18 DEF Linked, SameNodes
  <2>2. Inlet(d, 3, 2)
    BY <2>1 DEF Free
  <2> QED BY <1>17, <1>18, <2>1, <2>2, ConnectDoes
<1>20. SameNodes(c, g)
  BY <1>18, <1>19, SameTwice DEF Linked
<1>21. 1 \in 1..3 /\ 2 \in 1..3 /\ 3 \in 1..3
  OBVIOUS
<1>22. /\ Len(g.nodes) = 3 /\ Started(g)
       /\ g.nodes[1].kind = k1 /\ g.nodes[2].kind = k2 /\ g.nodes[3].kind = k3
  BY <1>13, <1>14, <1>15, <1>20, <1>21 DEF SameNodes, Started
<1>23. DOMAIN g.inputs = {} /\ DOMAIN g.outputs = {}
  BY <1>3, <1>10, <1>11, <1>12, <1>20 DEF SameNodes, Extends
<1>24. Edges(g) = {<<1, 1, 3, 1>>, <<2, 1, 3, 2>>}
  BY <1>13, <1>18, <1>19 DEF Linked
<1> QED BY <1>1, <1>19, <1>22, <1>23, <1>24

\* A level that nodes can be attached to.
Attachable(K) == {g \in Level(K) : Paired(g, {}) /\ Started(g)}
\* One iteration of SharedNodes.
Share(h, a) == Attach(AddNode(h, Shared(a.asset), Zeros(3), 1), Len(h.nodes) + 1)
Sharing(h, g) ==
  /\ h[0] = g
  /\ \A i \in 1..Len(plan.shared) : h[i] = Share(h[i - 1], plan.shared[i])

LEMMA ShareDoes ==
  ASSUME NEW K, NEW g \in Attachable(K), NEW a, Shared(a.asset) \in K, NEW N \in Nat, N = Len(g.nodes) + 1,
         NEW h, h = Share(g, a)
  PROVE  /\ h \in Attachable(K) /\ Extends(g, h, 1) /\ Edges(h) = Edges(g) \cup Plugged(N)
         /\ h.nodes[N].kind = Shared(a.asset) /\ Outlet(h, N, 1)
<1>1. g \in Level(K) /\ Paired(g, {}) /\ Started(g)
  BY DEF Attachable
<1>2. PICK kd \in K, c \in Nat, o \in {1, 2} : kd = Shared(a.asset) /\ c = 3 /\ o = 1
  OBVIOUS
<1>3. AddNode(g, Shared(a.asset), Zeros(3), 1) = AddNode(g, kd, Zeros(c), o)
  BY <1>2
<1>4. h = Attach(AddNode(g, kd, Zeros(c), o), N)
  BY <1>3 DEF Share
<1>5. c >= 2 /\ 1 \in 1..o
  BY <1>2
<1>6. /\ h \in Level(K) /\ Paired(h, {}) /\ Extends(g, h, 1) /\ Started(h)
      /\ Edges(h) = Edges(g) \cup Plugged(N)
      /\ h.nodes[N].kind = kd /\ (\A s \in 1..o : Outlet(h, N, s))
  BY <1>1, <1>4, <1>5, AttachedDoes
<1> QED BY <1>2, <1>5, <1>6 DEF Attachable

LEMMA ShareFold ==
  ASSUME NEW K, NEW g \in Attachable(K), NEW T, plan.shared \in Seq(T), \A a \in ToSet(plan.shared) : Shared(a.asset) \in K
  PROVE  \E h : Sharing(h, g) /\ SharedNodes(g) = h[Len(plan.shared)]
<1> DEFINE list == plan.shared
           P(f) == f = [x \in SUBSET DOMAIN list |->
                          IF x = {} THEN g
                          ELSE Attach(AddNode(f[x \ {Max(x)}], Shared(list[Max(x)].asset), Zeros(3), 1),
                                      Len(f[x \ {Max(x)}].nodes) + 1)]
           Q(f) == f = [x \in SUBSET DOMAIN list |->
                          IF x = {} THEN g ELSE Share(f[x \ {Max(x)}], list[Max(x)])]
<1>1. PICK n \in Nat : n = Len(list) /\ DOMAIN list = 1..n
  <2>1. Len(list) \in Nat /\ DOMAIN list = 1..Len(list)
    OBVIOUS
  <2> QED BY <2>1
<1>2. SharedNodes(g) = (CHOOSE f : P(f))[DOMAIN list]
  BY DEF SharedNodes, FoldLeft, MapThenFoldSet
<1>3. ASSUME NEW f PROVE P(f) <=> Q(f)
  BY DEF Share
<1> HIDE DEF P
<1>4. PICK A : A = Attachable(K)
  OBVIOUS
<1>5. ASSUME NEW acc \in A, NEW i \in 1..n PROVE Share(acc, list[i]) \in A
  <2>1. PICK a : a = list[i]
    OBVIOUS
  <2>2. Shared(a.asset) \in K
    BY <1>1, <2>1 DEF ToSet
  <2>3. Len(acc.nodes) + 1 \in Nat
    BY <1>4, LevelIs DEF Attachable
  <2> QED BY <1>4, <2>1, <2>2, <2>3, ShareDoes
<1>6. PICK op \in [A \X (1..n) -> A] : \A acc \in A : \A i \in 1..n : op[<<acc, i>>] = Share(acc, list[i])
  <2> DEFINE h == [q \in A \X (1..n) |-> Share(q[1], list[q[2]])]
  <2>1. h \in [A \X (1..n) -> A]
    BY <1>5
  <2>2. \A acc \in A : \A i \in 1..n : h[<<acc, i>>] = Share(acc, list[i])
    OBVIOUS
  <2> HIDE DEF h
  <2> QED BY <2>1, <2>2
<1>7. PICK base \in A : base = g
  BY <1>4
<1>8. PICK c \in [SUBSET (1..n) -> A] : Folding(c, n, base, op)
  BY FoldExists
<1>9. ASSUME NEW x \in SUBSET (1..n), x # {} PROVE Max(x) \in 1..n /\ x \ {Max(x)} \in SUBSET (1..n)
  <2>1. PICK s \in Seq(T) : s = list
    OBVIOUS
  <2>2. x \in SUBSET DOMAIN s
    BY <1>1, <2>1
  <2>3. Max(x) \in DOMAIN s /\ x \ {Max(x)} \in SUBSET DOMAIN s
    BY <1>9, <2>2, GreatestPosition
  <2> QED BY <1>1, <2>1, <2>3
<1>10. Q(c)
  <2>1. ASSUME NEW x \in SUBSET (1..n), x # {}
        PROVE  c[x] = Share(c[x \ {Max(x)}], list[Max(x)])
    <3>1. c[x] = op[<<c[x \ {Max(x)}], Max(x)>>]
      BY <1>8, <2>1 DEF Folding
    <3> QED BY <1>6, <1>8, <1>9, <2>1, <3>1
  <2>2. c[{}] = g
    BY <1>7, <1>8 DEF Folding
  <2>3. c = [x \in SUBSET (1..n) |-> c[x]]
    BY <1>8
  <2> QED BY <1>1, <2>1, <2>2, <2>3
<1>11. PICK f : f = CHOOSE h : P(h)
  OBVIOUS
<1>12. Q(f)
  <2> HIDE DEF Q
  <2>1. P(c)
    BY <1>3, <1>10
  <2>2. P(CHOOSE h : P(h))
    BY <2>1, Zenon
  <2> QED BY <1>3, <1>11, <2>2
<1>13. f[{}] = g /\ \A x \in SUBSET (1..n) : x # {} => f[x] = Share(f[x \ {Max(x)}], list[Max(x)])
  BY <1>1, <1>12, Zenon
<1> HIDE DEF Q
<1> DEFINE h == [i \in 0..n |-> f[1..i]]
<1>14. h[0] = g
  <2>1. 1..0 = {} /\ 0 \in 0..n
    OBVIOUS
  <2>2. h[0] = f[{}]
    BY <2>1
  <2> QED BY <1>13, <2>2
<1>15. ASSUME NEW i \in 1..n PROVE h[i] = Share(h[i - 1], list[i])
  <2>1. PICK x : x = 1..i
    OBVIOUS
  <2>2. i \in Nat /\ i # 0 /\ x \in SUBSET (1..n)
    BY <2>1
  <2>3. x # {} /\ Max(x) = i /\ x \ {i} = 1..(i - 1)
    BY <2>1, <2>2, Initial
  <2>4. f[x] = Share(f[x \ {i}], list[i])
    BY <1>13, <2>2, <2>3
  <2>5. h[i] = f[1..i] /\ h[i - 1] = f[1..(i - 1)]
    <3>1. i \in 0..n /\ i - 1 \in 0..n
      OBVIOUS
    <3> QED BY <3>1
  <2> QED BY <2>1, <2>3, <2>4, <2>5
<1>16. h[n] = f[1..n]
  OBVIOUS
<1> HIDE DEF h
<1>17. Sharing(h, g)
  BY <1>1, <1>14, <1>15 DEF Sharing
<1> QED BY <1>1, <1>2, <1>11, <1>16, <1>17, Zenon

\* The nodes of the shared images behind the N nodes of g.
SharedSoFar(K, g, N, h, i) ==
  /\ h \in Attachable(K) /\ Extends(g, h, i)
  /\ \A k \in 1..i : h.nodes[N + k].kind = Shared(plan.shared[k].asset) /\ Outlet(h, N + k, 1)
  /\ Edges(h) = Edges(g) \cup UNION {Plugged(N + k) : k \in 1..i}

\* The shared images follow the first three nodes.
LEMMA SharedDoes ==
  ASSUME NEW K, NEW g \in Attachable(K), NEW T, plan.shared \in Seq(T), \A a \in ToSet(plan.shared) : Shared(a.asset) \in K,
         NEW N \in Nat, N = Len(g.nodes)
  PROVE  SharedSoFar(K, g, N, SharedNodes(g), Len(plan.shared))
<1>1. PICK n \in Nat : n = Len(plan.shared) /\ DOMAIN plan.shared = 1..n
  <2>1. Len(plan.shared) \in Nat /\ DOMAIN plan.shared = 1..Len(plan.shared)
    OBVIOUS
  <2> QED BY <2>1
<1>2. PICK h : Sharing(h, g) /\ SharedNodes(g) = h[n]
  BY <1>1, ShareFold
<1> DEFINE S == {i \in 0..n : SharedSoFar(K, g, N, h[i], i)}
<1>3. 0 \in S
  <2>1. h[0] = g /\ 0 \in 0..n /\ N + 0 = N /\ \A k : k \notin 1..0
    BY <1>2 DEF Sharing
  <2>2. UNION {Plugged(N + k) : k \in 1..0} = {}
    BY <2>1
  <2>3. Extends(g, g, 0)
    BY <2>1 DEF Extends
  <2>4. SharedSoFar(K, g, N, g, 0)
    BY <2>1, <2>2, <2>3 DEF SharedSoFar
  <2> QED BY <2>1, <2>4
<1>4. ASSUME NEW i \in 1..n, i - 1 \in S PROVE i \in S
  <2>1. PICK c, j, a : c = h[i - 1] /\ j = h[i] /\ a = plan.shared[i]
    OBVIOUS
  <2>2. PICK m \in Nat, M \in Nat : m = i - 1 /\ i = m + 1 /\ M = N + i
    <3>1. \A q \in 1..n : \A p \in Nat : q - 1 \in Nat /\ q = (q - 1) + 1 /\ p + q \in Nat
      BY <1>1
    <3> QED BY <3>1
  <2>3. SharedSoFar(K, g, N, c, m)
    BY <1>4, <2>1, <2>2
  <2>4. j = Share(c, a)
    BY <1>1, <1>2, <2>1 DEF Sharing
  <2>5. c \in Attachable(K) /\ Extends(g, c, m) /\ M = Len(c.nodes) + 1
    BY <2>2, <2>3 DEF SharedSoFar, Extends
  <2>6. Shared(a.asset) \in K
    BY <1>1, <2>1 DEF ToSet
  <2>7. /\ j \in Attachable(K) /\ Extends(c, j, 1) /\ Edges(j) = Edges(c) \cup Plugged(M)
        /\ j.nodes[M].kind = Shared(a.asset) /\ Outlet(j, M, 1)
    BY <2>4, <2>5, <2>6, ShareDoes
  <2>8. Extends(g, j, i)
    <3>1. g \in Level(K)
      BY DEF Attachable
    <3>2. Extends(g, j, m + 1)
      BY <2>5, <2>7, <3>1, ExtendsTwice
    <3> QED BY <2>2, <3>2
  <2>9. (\A k \in 1..i : k \in 1..m \/ k = i) /\ (\A k \in 1..m : k \in 1..i) /\ i \in 1..i
    BY <2>2
  <2>10. ASSUME NEW k \in 1..i
         PROVE  j.nodes[N + k].kind = Shared(plan.shared[k].asset) /\ Outlet(j, N + k, 1)
    <3>1. CASE k = i
      BY <2>1, <2>2, <2>7, <3>1
    <3>2. CASE k # i
      <4>1. k \in 1..m
        BY <2>9, <3>2
      <4>2. c.nodes[N + k].kind = Shared(plan.shared[k].asset) /\ Outlet(c, N + k, 1)
        BY <2>3, <4>1 DEF SharedSoFar
      <4>3. N + k \in 1..Len(c.nodes)
        BY <4>2 DEF Outlet
      <4> QED BY <2>7, <4>2, <4>3 DEF Extends
    <3> QED BY <3>1, <3>2
  <2>11. Edges(j) = Edges(g) \cup UNION {Plugged(N + k) : k \in 1..i}
    <3>1. Edges(c) = Edges(g) \cup UNION {Plugged(N + k) : k \in 1..m}
      BY <2>3 DEF SharedSoFar
    <3>2. UNION {Plugged(N + k) : k \in 1..i} = (UNION {Plugged(N + k) : k \in 1..m}) \cup Plugged(M)
      BY <2>2, <2>9
    <3> QED BY <2>7, <3>1, <3>2
  <2>12. SharedSoFar(K, g, N, j, i)
    BY <2>7, <2>8, <2>10, <2>11 DEF SharedSoFar
  <2> QED BY <2>1, <2>12
<1>5. n \in S
  <2> HIDE DEF S
  <2>1. n \in 0..n
    OBVIOUS
  <2> QED BY <1>3, <1>4, <2>1, UpTo
<1> QED BY <1>1, <1>2, <1>5

\* h is g with a new node N, attached and fed by ss from the slot after first on.
Instance(K, g, kd, N, c, o, ss, first, h) ==
  /\ g \in Attachable(K) /\ kd \in K /\ N \in Nat /\ N = Len(g.nodes) + 1
  /\ c \in Nat /\ c >= 2 /\ o \in {1, 2} /\ first \in Nat
  /\ Available(g, ss) /\ \A k \in 1..Len(ss) : first + k \in 3..c
  /\ h = LinkAll(Attach(AddNode(g, kd, Zeros(c), o), N), ss, N, first)

LEMMA InstanceDoes ==
  ASSUME NEW K, NEW g, NEW kd, NEW N, NEW c, NEW o, NEW ss, NEW first, NEW h, Instance(K, g, kd, N, c, o, ss, first, h)
  PROVE  /\ h \in Attachable(K) /\ Extends(g, h, 1) /\ h.nodes[N].kind = kd /\ (\A s \in 1..o : Outlet(h, N, s))
         /\ Edges(h) = Edges(g) \cup Plugged(N) \cup Ordered(ss, N, first)
<1>1. g \in Level(K) /\ Paired(g, {}) /\ Started(g) /\ kd \in K /\ N \in Nat /\ N = Len(g.nodes) + 1
  BY DEF Attachable, Instance
<1>2. c \in Nat /\ c >= 2 /\ o \in {1, 2} /\ first \in Nat /\ Available(g, ss) /\ \A k \in 1..Len(ss) : first + k \in 3..c
  BY DEF Instance
<1>3. PICK x : x = Attach(AddNode(g, kd, Zeros(c), o), N)
  OBVIOUS
<1>4. /\ x \in Level(K) /\ Paired(x, {}) /\ Extends(g, x, 1) /\ Started(x)
      /\ Edges(x) = Edges(g) \cup Plugged(N)
      /\ x.nodes[N].kind = kd /\ (\A s \in 1..o : Outlet(x, N, s))
      /\ \A b \in 3..c : Free(x, N, b)
  BY <1>1, <1>2, <1>3, AttachedDoes
<1>5. Available(x, ss) /\ \A k \in 1..Len(ss) : Free(x, N, first + k)
  <2>1. Available(x, ss)
    BY <1>2, <1>4, StaysAvailable
  <2> QED BY <1>2, <1>4, <2>1
<1>6. h = LinkAll(x, ss, N, first)
  BY <1>3 DEF Instance
<1>7. h \in Level(K) /\ SameNodes(x, h) /\ Edges(h) = Edges(x) \cup Ordered(ss, N, first) /\ Paired(h, {})
  BY <1>1, <1>2, <1>4, <1>5, <1>6, PackDoes
<1>8. Extends(g, h, 1)
  BY <1>1, <1>4, <1>7, StillExtends
<1>9. h.nodes[N].kind = kd /\ (\A s \in 1..o : Outlet(h, N, s)) /\ Started(h)
  <2>1. N \in 1..Len(x.nodes)
    BY <1>1, <1>4 DEF Extends
  <2> QED BY <1>4, <1>7, <2>1 DEF SameNodes, Started
<1> QED BY <1>4, <1>7, <1>8, <1>9 DEF Attachable

\* The manifest N, fed by the story of the node before it.
LEMMA ManifestDoes ==
  ASSUME NEW K, NEW g \in Attachable(K), NEW kd \in K, NEW N \in Nat, N = Len(g.nodes) + 1, NEW a \in Nat, Outlet(g, a, 1),
         NEW h, h = Connect(Attach(AddNode(g, kd, Zeros(3), 1), N), a, 1, N, 3)
  PROVE  /\ h \in Attachable(K) /\ Extends(g, h, 1) /\ h.nodes[N].kind = kd
         /\ Edges(h) = Edges(g) \cup Plugged(N) \cup {<<a, 1, N, 3>>}
<1>1. g \in Level(K) /\ Paired(g, {}) /\ Started(g)
  BY DEF Attachable
<1>2. PICK c \in Nat, o \in {1, 2} : c = 3 /\ o = 1
  OBVIOUS
<1>3. PICK x : x = Attach(AddNode(g, kd, Zeros(c), o), N)
  OBVIOUS
<1>4. x = Attach(AddNode(g, kd, Zeros(3), 1), N)
  BY <1>2, <1>3
<1>5. c >= 2 /\ 3 \in 3..c
  BY <1>2
<1>6. /\ x \in Level(K) /\ Paired(x, {}) /\ Extends(g, x, 1) /\ Started(x)
      /\ Edges(x) = Edges(g) \cup Plugged(N)
      /\ x.nodes[N].kind = kd /\ (\A s \in 1..o : Outlet(x, N, s))
      /\ \A b \in 3..c : Free(x, N, b)
  BY <1>1, <1>3, <1>5, AttachedDoes
<1>7. Free(x, N, 3) /\ Outlet(x, a, 1)
  BY <1>5, <1>6 DEF Extends
<1>8. Inlet(x, N, 3)
  BY <1>7 DEF Free
<1>9. h = Connect(x, a, 1, N, 3)
  BY <1>4
<1>10. h \in Level(K) /\ Linked(x, h, a, 1, N, 3) /\ Paired(h, {})
  BY <1>6, <1>7, <1>8, <1>9, ConnectDoes
<1>11. SameNodes(x, h) /\ Edges(h) = Edges(x) \cup {<<a, 1, N, 3>>}
  BY <1>10 DEF Linked
<1>12. Extends(g, h, 1)
  BY <1>1, <1>6, <1>10, <1>11, StillExtends
<1>13. h.nodes[N].kind = kd /\ Started(h)
  <2>1. N \in 1..Len(x.nodes)
    BY <1>6 DEF Extends
  <2> QED BY <1>6, <1>11, <2>1 DEF SameNodes, Started
<1> QED BY <1>6, <1>10, <1>11, <1>12, <1>13 DEF Attachable

\* Every link of the level is listed where it leaves and where it enters.
Sound(g) == \E K : g \in Level(K) /\ Paired(g, {})

\* The UI graph g of the plan p when c shots have an instance: m are the nodes of the images.
Assembling(p, g, m, c) ==
  /\ g \in Attachable(UiKinds(p)) /\ Len(g.nodes) = 3 + Len(p.shared) + c
  /\ \A a \in DOMAIN m : Outlet(g, m[a], 1)
  /\ \A j \in 1..c : Outlet(g, 3 + Len(p.shared) + j, 2)

\* The outlets ss of the images that the sources name.
MadeFrom(m, g, sources, ss) ==
  /\ (\E T : sources \in Seq(T)) /\ ToSet(sources) \subseteq DOMAIN m
  /\ \A a \in DOMAIN m : Outlet(g, m[a], 1)
  /\ ss = [k \in DOMAIN sources |-> <<m[sources[k]], 1>>]

LEMMA FedByMade ==
  ASSUME NEW K, NEW g \in Level(K), NEW m, NEW sources, NEW ss, MadeFrom(m, g, sources, ss)
  PROVE  Available(g, ss) /\ Len(ss) = Len(sources)
<1>1. PICK n \in Nat : n = Len(sources) /\ DOMAIN sources = 1..n
  <2>1. Len(sources) \in Nat /\ DOMAIN sources = 1..Len(sources)
    BY DEF MadeFrom
  <2> QED BY <2>1, Zenon
<1>2. ss = [k \in 1..n |-> <<m[sources[k]], 1>>]
  BY <1>1 DEF MadeFrom
<1>3. \A k \in 1..n : Outlet(g, m[sources[k]], 1)
  BY <1>1 DEF MadeFrom, ToSet
<1>4. Len(g.nodes) \in Nat
  BY LevelIs
<1>5. \A k \in 1..n : m[sources[k]] \in Nat /\ m[sources[k]] # 0
  BY <1>3, <1>4 DEF Outlet
<1>6. \A k \in 1..n : ss[k] \in Nat \X Nat /\ ss[k][1] = m[sources[k]] /\ ss[k][2] = 1
  BY <1>2, <1>5
<1>7. ss \in [1..n -> Nat \X Nat]
  BY <1>2, <1>6
<1>8. ss \in Seq(Nat \X Nat) /\ Len(ss) = n
  BY <1>7
<1>9. ASSUME NEW k \in 1..Len(ss)
      PROVE  IF ss[k][1] = 0 THEN ss[k][2] \in DOMAIN g.inputs ELSE Outlet(g, ss[k][1], ss[k][2])
  BY <1>3, <1>5, <1>6, <1>8
<1> QED BY <1>1, <1>8, <1>9 DEF Available

\* What the UI graph g of the plan p starts with.
StartNodes(p, g) ==
  /\ g.nodes[1].kind = Single("Input") /\ g.nodes[2].kind = Single("ExecutionPolicy") /\ g.nodes[3].kind = Single("Director")
  /\ \A k \in 1..Len(p.shared) : g.nodes[3 + k].kind = Shared(p.shared[k].asset)
  /\ Edges(g) = {<<1, 1, 3, 1>>, <<2, 1, 3, 2>>} \cup UNION {Plugged(3 + k) : k \in 1..Len(p.shared)}

LEMMA StartDoes ==
  ASSUME IsPlan(plan), NEW g, g = SharedNodes(UiHead),
         NEW m, m = [a \in {plan.shared[k].asset : k \in DOMAIN plan.shared} |->
                       3 + CHOOSE k \in DOMAIN plan.shared : plan.shared[k].asset = a]
  PROVE  Assembling(plan, g, m, 0) /\ StartNodes(plan, g)
<1>1. PICK K : K = UiKinds(plan)
  OBVIOUS
<1>2. Single("Input") \in K /\ Single("ExecutionPolicy") \in K /\ Single("Director") \in K
  BY <1>1 DEF UiKinds
<1>3. PICK e : e = UiHead
  OBVIOUS
<1>4. /\ e \in Level(K) /\ Paired(e, {}) /\ Len(e.nodes) = 3 /\ Started(e)
      /\ e.nodes[1].kind = Single("Input") /\ e.nodes[2].kind = Single("ExecutionPolicy")
      /\ e.nodes[3].kind = Single("Director") /\ Edges(e) = {<<1, 1, 3, 1>>, <<2, 1, 3, 2>>}
  BY <1>2, <1>3, HeadDoes
<1>5. PICK T : plan.shared \in Seq(T)
  BY DEF IsPlan, IsSequence
<1>6. \A a \in ToSet(plan.shared) : Shared(a.asset) \in K
  BY <1>1 DEF UiKinds
<1>7. PICK N \in Nat : N = 3
  OBVIOUS
<1>8. PICK n \in Nat : n = Len(plan.shared) /\ DOMAIN plan.shared = 1..n
  <2>1. Len(plan.shared) \in Nat /\ DOMAIN plan.shared = 1..Len(plan.shared)
    BY <1>5
  <2> QED BY <2>1
<1>9. e \in Attachable(K) /\ N = Len(e.nodes)
  BY <1>4, <1>7 DEF Attachable
<1>10. SharedSoFar(K, e, N, g, n)
  <2>1. SharedSoFar(K, e, N, SharedNodes(e), Len(plan.shared))
    BY <1>5, <1>6, <1>9, SharedDoes
  <2> QED BY <1>3, <1>8, <2>1
<1>11. /\ g \in Attachable(K) /\ Len(g.nodes) = N + n
       /\ \A k \in 1..n : Outlet(g, N + k, 1)
  BY <1>9, <1>10 DEF SharedSoFar, Extends
<1>12. ASSUME NEW a \in DOMAIN m PROVE Outlet(g, m[a], 1)
  <2>1. \E k \in 1..n : plan.shared[k].asset = a
    BY <1>8
  <2>2. PICK k : k = CHOOSE j \in 1..n : plan.shared[j].asset = a
    OBVIOUS
  <2>3. k \in 1..n
    BY <2>1, <2>2
  <2>4. m[a] = N + k
    BY <1>7, <1>8, <2>2
  <2> QED BY <1>11, <2>3, <2>4
<1>13. Len(g.nodes) = 3 + Len(plan.shared) + 0 /\ \A j : j \notin 1..0
  BY <1>7, <1>8, <1>11
<1>14. StartNodes(plan, g)
  <2>1. 1 \in 1..3 /\ 2 \in 1..3 /\ 3 \in 1..3
    OBVIOUS
  <2>2. \A i \in 1..3 : g.nodes[i].kind = e.nodes[i].kind
    BY <1>4, <1>10 DEF SharedSoFar, Extends
  <2>3. \A k \in 1..n : g.nodes[3 + k].kind = Shared(plan.shared[k].asset)
    BY <1>7, <1>10 DEF SharedSoFar
  <2>4. Edges(g) = Edges(e) \cup UNION {Plugged(3 + k) : k \in 1..n}
    BY <1>7, <1>10 DEF SharedSoFar
  <2> QED BY <1>4, <1>8, <2>1, <2>2, <2>3, <2>4 DEF StartNodes
<1> QED BY <1>1, <1>11, <1>12, <1>13, <1>14 DEF Assembling

-----------------------------------------------------------------------------
(* Every link is paired                                                      *)

\* Of the UI graph and the subgraphs.
LinksInv ==
  /\ stage = "idle" => ui = NoLevel
  /\ \A g \in {ui} \cup ToSet(subgraphs) : Sound(g)
  /\ stage = "ui" => Assembling(plan, ui, uiMade, Len(subgraphs))

LEMMA LinksInit == Init => LinksInv
<1> SUFFICES ASSUME Init PROVE LinksInv
  OBVIOUS
<1>1. stage = "idle" /\ ui = NoLevel /\ subgraphs = << >>
  BY DEF Init, CompileInit
<1>2. ToSet(subgraphs) = {}
  BY <1>1 DEF ToSet
<1>3. Sound(ui)
  BY <1>1, NoLevelIs DEF Sound
<1> QED BY <1>1, <1>2, <1>3 DEF LinksInv

LEMMA AssemblingIsSound ==
  ASSUME NEW p, NEW g, NEW m, NEW c, Assembling(p, g, m, c)
  PROVE  Sound(g)
BY DEF Assembling, Attachable, Sound

LEMMA BeginCompileLinks ==
  ASSUME DraftInv, Handed, LinksInv, BeginCompile
  PROVE  LinksInv' /\ (stage' = "ui" => StartNodes(plan, ui'))
<1>1. phase = "planned" /\ stage = "idle" /\ subgraphs = << >> /\ IsPlan(plan)
  BY PlannedIsSingular DEF BeginCompile, DraftInv
<1>2. CASE ~Compilable /\ Fail
  BY <1>1, <1>2 DEF Fail, LinksInv
<1>3. CASE Compilable
  <2>1. /\ stage' = "ui" /\ plan' = plan /\ subgraphs' = << >> /\ ui' = SharedNodes(UiHead)
        /\ uiMade' = [a \in {plan.shared[k].asset : k \in DOMAIN plan.shared} |->
                        3 + CHOOSE k \in DOMAIN plan.shared : plan.shared[k].asset = a]
    BY <1>1, <1>3 DEF BeginCompile, planVars
  <2>2. PICK g, m : g = ui' /\ m = uiMade'
    OBVIOUS
  <2>3. Assembling(plan, g, m, 0) /\ StartNodes(plan, g)
    BY <1>1, <2>1, <2>2, StartDoes
  <2>4. Sound(g)
    BY <2>3, AssemblingIsSound
  <2>5. ToSet(subgraphs') = {} /\ Len(subgraphs') = 0
    BY <2>1 DEF ToSet
  <2> QED BY <2>1, <2>2, <2>3, <2>4, <2>5 DEF LinksInv
<1> QED BY <1>2, <1>3 DEF BeginCompile

\* h is g with an instance n of d, the subgraph of the shot.
Instantiates(p, g, m, c, shot, d, n, h) ==
  /\ IsPlan(p) /\ shot \in ToSet(p.shots) /\ OneEach(shot) /\ c \in Nat /\ Assembling(p, g, m, c)
  /\ ToSet(SourcesOf(shot)) \subseteq DOMAIN m
  /\ d = SubgraphForShot(shot) /\ n = Len(g.nodes) + 1
  /\ h = LinkAll(Attach(AddNode(g, Kind("Shot", {shot.id}, << >>, 0), Zeros(Len(d.inputs)), 2), n),
                 [k \in DOMAIN SourcesOf(shot) |-> <<m[SourcesOf(shot)[k]], 1>>], n, 2)

\* The links that bring the images of the shot to node n, by the nodes m.
Fetched(m, shot, n) == {<<m[SourcesOf(shot)[k]], 1, n, 2 + k>> : k \in 1..Rank(shot, Len(shot.refs))}

\* What the instance adds.
InstanceNodes(g, m, shot, d, n, h) ==
  /\ Extends(g, h, 1) /\ h.nodes[n].kind = Kind("Shot", {shot.id}, << >>, 0)
  /\ Edges(h) = Edges(g) \cup Plugged(n) \cup Fetched(m, shot, n)
  /\ d \in Level(KindsOf(shot)) /\ \E mm \in Nat : \E ss : Drawn(d, shot, mm, ss)

\* An instance of the next shot keeps the UI graph as it should be.
LEMMA NextInstance ==
  ASSUME NEW p, NEW g, NEW m, NEW c, NEW shot, NEW d, NEW n, NEW h, Instantiates(p, g, m, c, shot, d, n, h)
  PROVE  Sound(d) /\ Assembling(p, h, Put(m, shot.asset, n), c + 1) /\ InstanceNodes(g, m, shot, d, n, h)
<1>1. /\ IsPlan(p) /\ shot \in ToSet(p.shots) /\ OneEach(shot) /\ c \in Nat /\ Assembling(p, g, m, c)
      /\ ToSet(SourcesOf(shot)) \subseteq DOMAIN m
      /\ d = SubgraphForShot(shot) /\ n = Len(g.nodes) + 1
  BY DEF Instantiates
<1>2. PICK K : K = UiKinds(p)
  OBVIOUS
<1>3. g \in Attachable(K) /\ (\A a \in DOMAIN m : Outlet(g, m[a], 1))
      /\ (\A j \in 1..c : Outlet(g, 3 + Len(p.shared) + j, 2))
  BY <1>2, <1>1 DEF Assembling
<1>4. g \in Level(K)
  BY <1>3 DEF Attachable
<1>5. PICK N \in Nat, S \in Nat : /\ N = n /\ S = 3 + Len(p.shared) /\ N = S + (c + 1)
                                  /\ Len(g.nodes) = S + c
  <2>1. Len(p.shared) \in Nat
    BY <1>1 DEF IsPlan, IsSequence
  <2> QED BY <1>1, <2>1 DEF Assembling
<1>6. PICK kd \in K : kd = Kind("Shot", {shot.id}, << >>, 0)
  BY <1>2, <1>1 DEF UiKinds
<1>7. PICK sources, ss : sources = SourcesOf(shot) /\ ss = [k \in DOMAIN sources |-> <<m[sources[k]], 1>>]
  OBVIOUS
<1>8. PICK r \in Nat : r = Rank(shot, Len(shot.refs)) /\ Len(sources) = r
  <2>1. Len(sources) = Rank(shot, Len(shot.refs))
    BY <1>7, <1>1, SourcesList
  <2>2. PICK T : sources \in Seq(T)
    BY <1>7, <1>1, SourcesList
  <2>3. Len(sources) \in Nat
    BY <2>2
  <2> QED BY <2>1, <2>3
<1>9. /\ d \in Level(KindsOf(shot)) /\ Paired(d, {}) /\ Edged(d, r)
      /\ \E mm \in Nat : \E s : Drawn(d, shot, mm, s)
  <2>1. shot.refs \in Seq(ToSet(shot.refs))
    BY <1>1 DEF OneEach
  <2> QED BY <1>8, <1>1, <2>1, SubgraphDoes
<1>10. PICK c2 \in Nat : c2 = Len(d.inputs) /\ c2 = 2 + r
  <2>1. DOMAIN d.inputs = 1..(2 + r)
    BY <1>9 DEF Edged
  <2>2. d.inputs \in Seq(Seq(Nat))
    BY <1>9, LevelIs
  <2>3. Len(d.inputs) = 2 + r
    BY <2>1, <2>2
  <2> QED BY <2>3
<1>11. Available(g, ss) /\ Len(ss) = r
  <2>1. PICK T : sources \in Seq(T)
    BY <1>7, <1>1, SourcesList
  <2>2. MadeFrom(m, g, sources, ss)
    BY <1>3, <1>7, <1>1, <2>1 DEF MadeFrom
  <2>3. Available(g, ss) /\ Len(ss) = Len(sources)
    BY <1>4, <2>2, FedByMade
  <2> QED BY <1>8, <2>3
<1>12. PICK first \in Nat, o \in {1, 2} : first = 2 /\ o = 2
  OBVIOUS
<1>13. h = LinkAll(Attach(AddNode(g, kd, Zeros(c2), o), N), ss, N, first)
  <2>1. h = LinkAll(Attach(AddNode(g, kd, Zeros(c2), 2), N), ss, N, 2)
    BY <1>5, <1>6, <1>7, <1>10 DEF Instantiates
  <2> QED BY <1>12, <2>1
<1>14. N = Len(g.nodes) + 1
  BY <1>5, <1>1
<1>15. /\ h \in Attachable(K) /\ Extends(g, h, 1) /\ h.nodes[N].kind = kd /\ (\A s \in 1..o : Outlet(h, N, s))
       /\ Edges(h) = Edges(g) \cup Plugged(N) \cup Ordered(ss, N, first)
  <2>1. c2 >= 2 /\ \A k \in 1..r : first + k \in 3..c2
    BY <1>10, <1>12
  <2>2. Instance(K, g, kd, N, c2, o, ss, first, h)
    BY <1>3, <1>11, <1>13, <1>14, <2>1 DEF Instance
  <2> QED BY <2>2, InstanceDoes
<1>16. Outlet(h, N, 1) /\ Outlet(h, N, 2)
  <2>1. 1 \in 1..o /\ 2 \in 1..o
    BY <1>12
  <2> QED BY <1>15, <2>1
<1>17. Len(h.nodes) = S + (c + 1)
  <2>1. Len(h.nodes) = Len(g.nodes) + 1
    BY <1>15 DEF Extends
  <2> QED BY <1>5, <1>1, <2>1
<1>18. ASSUME NEW a \in DOMAIN Put(m, shot.asset, n) PROVE Outlet(h, Put(m, shot.asset, n)[a], 1)
  <2>1. CASE a = shot.asset
    BY <1>5, <1>16, <2>1 DEF Put
  <2>2. CASE a # shot.asset
    <3>1. a \in DOMAIN m /\ Put(m, shot.asset, n)[a] = m[a]
      BY <2>2 DEF Put
    <3> QED BY <1>3, <1>15, <3>1 DEF Extends
  <2> QED BY <2>1, <2>2
<1>19. ASSUME NEW j \in 1..(c + 1) PROVE Outlet(h, S + j, 2)
  <2>1. j \in 1..c \/ S + j = N
    <3>1. j \in 1..c \/ j = c + 1
      BY <1>1
    <3> QED BY <1>5, <3>1
  <2>2. \A i \in 1..c : Outlet(g, S + i, 2)
    BY <1>3, <1>5
  <2> QED BY <1>15, <1>16, <2>1, <2>2 DEF Extends
<1>20. Sound(d)
  BY <1>9 DEF Sound
<1>21. InstanceNodes(g, m, shot, d, n, h)
  <2>1. PICK T : sources \in Seq(T)
    BY <1>7, <1>1, SourcesList
  <2>2. DOMAIN sources = 1..r
    BY <1>8, <2>1
  <2>3. \A k \in 1..r : ss[k] = <<m[sources[k]], 1>>
    BY <1>7, <2>2
  <2>4. Ordered(ss, N, first) = {<<m[sources[k]], 1, n, 2 + k>> : k \in 1..r}
    BY <1>5, <1>11, <1>12, <2>3 DEF Ordered
  <2> QED BY <1>5, <1>6, <1>7, <1>8, <1>9, <1>15, <2>4 DEF InstanceNodes, Fetched
<1> QED BY <1>2, <1>5, <1>15, <1>17, <1>18, <1>19, <1>20, <1>21 DEF Assembling

\* h is g with the story a and its manifest, from the instances of all shots.
Finishes(p, g, m, a, h) ==
  /\ IsPlan(p) /\ Assembling(p, g, m, Len(p.shots)) /\ a = Len(g.nodes) + 1
  /\ h = Connect(Attach(AddNode(LinkAll(Attach(AddNode(g, Single("StoryAssemble"), Zeros(3 + Len(p.shots)), 1), a),
                                        [i \in DOMAIN p.shots |-> <<3 + Len(p.shared) + i, 2>>], a, 3),
                                Single("RunManifest"), Zeros(3), 1), a + 1),
                 a, 1, a + 1, 3)

\* The links that bring the videos of the n shots behind node b to the story a.
Told(b, n, a) == {<<b + i, 2, a, 3 + i>> : i \in 1..n}

\* What they add.
FinishNodes(p, g, a, h) ==
  /\ Len(h.nodes) = Len(g.nodes) + 2 /\ a = Len(g.nodes) + 1 /\ \A i \in 1..Len(g.nodes) : h.nodes[i].kind = g.nodes[i].kind
  /\ h.nodes[a].kind = Single("StoryAssemble") /\ h.nodes[a + 1].kind = Single("RunManifest")
  /\ Edges(h) = Edges(g) \cup Plugged(a) \cup Told(3 + Len(p.shared), Len(p.shots), a)
                 \cup Plugged(a + 1) \cup {<<a, 1, a + 1, 3>>}

LEMMA FinishDoes ==
  ASSUME NEW p, NEW g, NEW m, NEW a, NEW h, Finishes(p, g, m, a, h)
  PROVE  Sound(h) /\ FinishNodes(p, g, a, h)
<1>1. PICK K : K = UiKinds(p)
  OBVIOUS
<1>2. IsPlan(p) /\ Assembling(p, g, m, Len(p.shots))
  BY DEF Finishes
<1>3. PICK n \in Nat, S \in Nat : n = Len(p.shots) /\ DOMAIN p.shots = 1..n /\ S = 3 + Len(p.shared)
  <2>1. Len(p.shots) \in Nat /\ DOMAIN p.shots = 1..Len(p.shots) /\ Len(p.shared) \in Nat
    BY <1>2 DEF IsPlan, IsSequence
  <2> QED BY <2>1
<1>4. g \in Attachable(K) /\ Len(g.nodes) = S + n /\ \A j \in 1..n : Outlet(g, S + j, 2)
  BY <1>1, <1>2, <1>3 DEF Assembling
<1>5. PICK N \in Nat, M \in Nat : N = a /\ M = a + 1
  <2>1. a = (S + n) + 1
    BY <1>4 DEF Finishes
  <2>2. a \in Nat /\ a + 1 \in Nat
    BY <2>1
  <2> QED BY <2>2
<1>6. PICK k1 \in K, k2 \in K : k1 = Single("StoryAssemble") /\ k2 = Single("RunManifest")
  BY <1>1 DEF UiKinds
<1>7. PICK ss : ss = [i \in 1..n |-> <<S + i, 2>>]
  OBVIOUS
<1>8. Available(g, ss) /\ Len(ss) = n
  <2>1. \A k \in 1..n : S + k \in Nat /\ S + k # 0
    OBVIOUS
  <2>2. \A k \in 1..n : ss[k] \in Nat \X Nat /\ ss[k][1] = S + k /\ ss[k][2] = 2
    BY <1>7, <2>1
  <2>3. ss \in [1..n -> Nat \X Nat]
    BY <1>7, <2>2
  <2>4. ss \in Seq(Nat \X Nat) /\ Len(ss) = n
    BY <2>3
  <2> QED BY <1>4, <2>1, <2>2, <2>4 DEF Available
<1>9. PICK c \in Nat, first \in Nat, o \in {1, 2} : c = 3 + n /\ first = 3 /\ o = 1
  <2>1. 3 + n \in Nat /\ 3 \in Nat /\ 1 \in {1, 2}
    OBVIOUS
  <2> QED BY <2>1
<1>10. PICK x : x = LinkAll(Attach(AddNode(g, k1, Zeros(c), o), N), ss, N, first)
  OBVIOUS
<1>11. /\ x \in Attachable(K) /\ Extends(g, x, 1) /\ x.nodes[N].kind = k1 /\ (\A s \in 1..o : Outlet(x, N, s))
       /\ Edges(x) = Edges(g) \cup Plugged(N) \cup Ordered(ss, N, first)
  <2>1. c >= 2 /\ \A k \in 1..n : first + k \in 3..c
    BY <1>9
  <2>2. N = Len(g.nodes) + 1
    BY <1>5 DEF Finishes
  <2>3. Instance(K, g, k1, N, c, o, ss, first, x)
    BY <1>4, <1>8, <1>10, <2>1, <2>2 DEF Instance
  <2> QED BY <2>3, InstanceDoes
<1>12. h = Connect(Attach(AddNode(x, k2, Zeros(3), 1), M), N, 1, M, 3)
  BY <1>3, <1>5, <1>6, <1>7, <1>9, <1>10 DEF Finishes
<1>13. /\ h \in Attachable(K) /\ Extends(x, h, 1) /\ h.nodes[M].kind = k2
       /\ Edges(h) = Edges(x) \cup Plugged(M) \cup {<<N, 1, M, 3>>}
  <2>1. M = Len(x.nodes) + 1
    BY <1>3, <1>4, <1>5, <1>11 DEF Extends, Finishes
  <2>2. Outlet(x, N, 1)
    <3>1. 1 \in 1..o
      BY <1>9
    <3> QED BY <1>11, <3>1
  <2> QED BY <1>11, <1>12, <2>1, <2>2, ManifestDoes
<1>14. FinishNodes(p, g, a, h)
  <2>1. a = Len(g.nodes) + 1 /\ Len(g.nodes) \in Nat
    <3>1. a = Len(g.nodes) + 1
      BY DEF Finishes
    <3>2. Len(g.nodes) \in Nat
      BY <1>4, LevelIs DEF Attachable
    <3> QED BY <3>1, <3>2
  <2>2. Len(x.nodes) = Len(g.nodes) + 1 /\ Len(h.nodes) = Len(x.nodes) + 1
    BY <1>11, <1>13 DEF Extends
  <2>3. \A i \in 1..Len(g.nodes) : h.nodes[i].kind = g.nodes[i].kind
    <3>1. \A i \in 1..Len(g.nodes) : i \in 1..Len(x.nodes)
      BY <2>1, <2>2
    <3> QED BY <1>11, <1>13, <3>1 DEF Extends
  <2>4. h.nodes[a].kind = k1
    <3>1. N \in 1..Len(x.nodes)
      BY <1>5, <2>1, <2>2
    <3> QED BY <1>5, <1>11, <1>13, <3>1 DEF Extends
  <2>5. Ordered(ss, N, first) = Told(S, n, a)
    <3>1. \A i \in 1..n : ss[i][1] = S + i /\ ss[i][2] = 2
      BY <1>7
    <3> QED BY <1>5, <1>8, <1>9, <3>1 DEF Ordered, Told
  <2>6. Edges(h) = Edges(g) \cup Plugged(a) \cup Told(S, n, a)
                   \cup Plugged(a + 1) \cup {<<a, 1, a + 1, 3>>}
    BY <1>5, <1>11, <1>13, <2>5
  <2>7. Len(h.nodes) = Len(g.nodes) + 2
    BY <2>1, <2>2
  <2> QED BY <1>3, <1>5, <1>6, <1>13, <2>1, <2>3, <2>4, <2>6, <2>7 DEF FinishNodes
<1> QED BY <1>13, <1>14 DEF Attachable, Sound

\* An instance is made, unless an image has no node.
LEMMA UiShotAdds ==
  ASSUME DraftInv, Handed, ShownInv, LinksInv, UiShot, ~Fail
  PROVE  \E c, d, n : /\ c \in Nat /\ c = Len(subgraphs) /\ c + 1 <= Len(plan.shots)
                      /\ Instantiates(plan, ui, uiMade, c, plan.shots[c + 1], d, n, ui')
                      /\ stage = "ui" /\ stage' = "ui" /\ plan' = plan /\ subgraphs' = Append(subgraphs, d)
                      /\ uiMade' = Put(uiMade, plan.shots[c + 1].asset, n)
<1>1. stage = "ui" /\ phase = "planned" /\ IsSequence(subgraphs)
  BY DEF UiShot, DraftInv, ShownInv
<1>2. IsPlan(plan) /\ Singular(plan)
  BY <1>1, PlannedIsSingular
<1>3. PICK c \in Nat : c = Len(subgraphs)
  BY <1>1 DEF IsSequence
<1>4. PICK shot, d : shot = plan.shots[c + 1] /\ d = SubgraphForShot(shot)
  OBVIOUS
<1>5. PICK g, m, n : g = ui /\ m = uiMade /\ n = Len(ui.nodes) + 1
  OBVIOUS
<1>6. PICK h : h = LinkAll(Attach(AddNode(g, Kind("Shot", {shot.id}, << >>, 0), Zeros(Len(d.inputs)), 2), n),
                           [k \in DOMAIN SourcesOf(shot) |-> <<m[SourcesOf(shot)[k]], 1>>], n, 2)
  OBVIOUS
<1>7. /\ c + 1 <= Len(plan.shots) /\ ToSet(SourcesOf(shot)) \subseteq DOMAIN m
      /\ ui' = h /\ subgraphs' = Append(subgraphs, d) /\ uiMade' = Put(m, shot.asset, n)
      /\ stage' = "ui" /\ plan' = plan
  BY <1>1, <1>3, <1>4, <1>5, <1>6 DEF UiShot, planVars
<1>8. shot \in ToSet(plan.shots)
  <2>1. Len(plan.shots) \in Nat /\ DOMAIN plan.shots = 1..Len(plan.shots)
    BY <1>2 DEF IsPlan, IsSequence
  <2>2. c + 1 \in DOMAIN plan.shots
    BY <1>7, <2>1
  <2> QED BY <1>4, <2>2 DEF ToSet
<1>9. OneEach(shot)
  BY <1>2, <1>8 DEF Singular, OneEach
<1>10. Assembling(plan, g, m, c)
  BY <1>1, <1>3, <1>5 DEF LinksInv
<1>11. Instantiates(plan, g, m, c, shot, d, n, h)
  BY <1>2, <1>4, <1>5, <1>6, <1>7, <1>8, <1>9, <1>10 DEF Instantiates
<1> QED BY <1>1, <1>3, <1>4, <1>5, <1>7, <1>11

LEMMA UiShotLinks ==
  ASSUME DraftInv, Handed, ShownInv, LinksInv, UiShot
  PROVE  LinksInv'
<1>1. stage = "ui"
  BY DEF UiShot
<1>2. CASE Fail
  BY <1>1, <1>2 DEF Fail, LinksInv
<1>3. CASE ~Fail
  <2>1. PICK c, d, n : /\ c \in Nat /\ c = Len(subgraphs) /\ c + 1 <= Len(plan.shots)
                       /\ Instantiates(plan, ui, uiMade, c, plan.shots[c + 1], d, n, ui')
                       /\ stage = "ui" /\ stage' = "ui" /\ plan' = plan /\ subgraphs' = Append(subgraphs, d)
                       /\ uiMade' = Put(uiMade, plan.shots[c + 1].asset, n)
    BY <1>3, UiShotAdds, Zenon
  <2>2. PICK T : subgraphs \in Seq(T)
    BY <1>1 DEF ShownInv, IsSequence
  <2>3. Sound(d) /\ Assembling(plan, ui', uiMade', c + 1)
    BY <2>1, NextInstance
  <2>4. Sound(ui')
    BY <2>3, AssemblingIsSound
  <2>5. Len(subgraphs') = c + 1 /\ ToSet(subgraphs') = ToSet(subgraphs) \cup {d}
    <3>1. PICK s \in Seq(T) : s = subgraphs
      BY <2>2
    <3>2. PICK t : t = Append(s, d)
      OBVIOUS
    <3>3. /\ Len(t) = Len(s) + 1 /\ DOMAIN t = 1..(Len(s) + 1)
          /\ \A i \in 1..Len(s) : t[i] = s[i]
          /\ t[Len(s) + 1] = d
      BY <3>2, AppendAt
    <3>4. Len(s) = c /\ DOMAIN s = 1..c /\ \A i \in 1..(c + 1) : i \in 1..c \/ i = c + 1
      BY <2>1, <3>1
    <3>5. \A i \in 1..c : i \in 1..(c + 1)
      BY <2>1
    <3>6. ToSet(t) = ToSet(s) \cup {d}
      BY <3>3, <3>4, <3>5 DEF ToSet
    <3> QED BY <2>1, <3>1, <3>2, <3>3, <3>4, <3>6
  <2>6. \A x \in ToSet(subgraphs) : Sound(x)
    BY DEF LinksInv
  <2> QED BY <2>1, <2>3, <2>4, <2>5, <2>6 DEF LinksInv
<1> QED BY <1>2, <1>3

LEMMA UiEndLinks ==
  ASSUME DraftInv, Handed, ShownInv, LinksInv, UiEnd
  PROVE  LinksInv' /\ FinishNodes(plan, ui, Len(ui.nodes) + 1, ui')
<1>1. stage = "ui" /\ phase = "planned" /\ Len(subgraphs) = Len(plan.shots)
  BY DEF UiEnd, DraftInv
<1>2. IsPlan(plan)
  BY <1>1, PlannedIsSingular
<1>3. PICK a, h, g, m : a = Len(ui.nodes) + 1 /\ h = ui' /\ g = ui /\ m = uiMade
  OBVIOUS
<1>4. stage' = "api" /\ plan' = plan /\ subgraphs' = subgraphs
  BY DEF UiEnd, planVars
<1>5. h = Connect(Attach(AddNode(LinkAll(Attach(AddNode(g, Single("StoryAssemble"), Zeros(3 + Len(plan.shots)), 1), a),
                                         [i \in DOMAIN plan.shots |-> <<3 + Len(plan.shared) + i, 2>>], a, 3),
                                 Single("RunManifest"), Zeros(3), 1), a + 1),
                  a, 1, a + 1, 3)
  BY <1>3 DEF UiEnd
<1>6. Finishes(plan, g, m, a, h)
  <2>1. Assembling(plan, g, m, Len(plan.shots))
    BY <1>1, <1>3 DEF LinksInv
  <2> QED BY <1>2, <1>3, <1>5, <2>1 DEF Finishes
<1>7. Sound(ui') /\ FinishNodes(plan, g, a, h)
  BY <1>3, <1>6, FinishDoes
<1> QED BY <1>3, <1>4, <1>7 DEF LinksInv

LEMMA LinksKept ==
  ASSUME DraftInv, Handed, ShownInv, LinksInv, [(PlanNext /\ UNCHANGED compileVars) \/ CompileNext]_vars
  PROVE  LinksInv'
<1>1. CASE UNCHANGED vars
  BY <1>1 DEF LinksInv, vars, planVars, compileVars
<1>2. CASE PlanNext /\ UNCHANGED compileVars
  <2>1. phase # "planned"
    BY <1>2 DEF PlanNext, BeginDraft, DraftShot, EndDraft, CheckGraph, ResolveLayer, Accept
  <2>2. stage = "idle" /\ stage' = "idle" /\ ui' = ui /\ subgraphs' = subgraphs
    BY <1>2, <2>1 DEF DraftInv, compileVars
  <2> QED BY <2>2 DEF LinksInv
<1>3. CASE ApiShot \/ ApiEnd
  <2>1. stage' \in {"api", "done"} /\ ui' = ui /\ subgraphs' = subgraphs
    BY <1>3, Zenon DEF ApiShot, ApiEnd
  <2> QED BY <2>1 DEF LinksInv
<1>4. CASE CompileNext /\ ~(ApiShot \/ ApiEnd)
  BY <1>4, BeginCompileLinks, UiShotLinks, UiEndLinks DEF CompileNext
<1> QED BY <1>1, <1>2, <1>3, <1>4

\* The links listed are the links that are there.
LEMMA SoundIsPaired ==
  ASSUME NEW g, Sound(g)
  PROVE  /\ Leaving(g) = {<<g.links[l].origin, g.links[l].oslot, l>> : l \in DOMAIN g.links}
         /\ {e \in Entered(g) : e[3] # 0} = {<<g.links[l].target, g.links[l].tslot, l>> : l \in DOMAIN g.links}
<1>1. PICK K : g \in Level(K) /\ Paired(g, {})
  BY DEF Sound
<1>2. DOMAIN g.nodes = 1..Len(g.nodes) /\ DOMAIN g.links = 1..Len(g.links)
  BY <1>1, LevelIs
<1>3. \A n, s, l : /\ OutAt(g, n, s, l) <=> OriginAt(g, n, s, l)
                   /\ InAt(g, n, s, l) <=> TargetAt(g, n, s, l)
  BY <1>1 DEF Paired
<1>4. Leaving(g) = {<<g.links[l].origin, g.links[l].oslot, l>> : l \in DOMAIN g.links}
  <2>1. ASSUME NEW e \in Leaving(g) PROVE \E l \in DOMAIN g.links : e = <<g.links[l].origin, g.links[l].oslot, l>>
    <3>1. CASE \E p \in (DOMAIN g.nodes) \X {1, 2} :
                 /\ p[2] \in DOMAIN g.nodes[p[1]].outs
                 /\ \E l \in ToSet(g.nodes[p[1]].outs[p[2]]) : e = <<p[1], p[2], l>>
      <4>1. PICK n \in DOMAIN g.nodes, s \in {1, 2} :
              s \in DOMAIN g.nodes[n].outs /\ \E l \in ToSet(g.nodes[n].outs[s]) : e = <<n, s, l>>
        BY <3>1
      <4>2. PICK l \in ToSet(g.nodes[n].outs[s]) : e = <<n, s, l>>
        BY <4>1
      <4>3. OutAt(g, n, s, l)
        BY <1>2, <4>1, <4>2 DEF OutAt, Outlet
      <4> QED BY <1>2, <1>3, <4>2, <4>3 DEF OriginAt
    <3>2. CASE \E i \in DOMAIN g.inputs : \E l \in ToSet(g.inputs[i]) : e = <<0, i, l>>
      <4>1. PICK i \in DOMAIN g.inputs : \E l \in ToSet(g.inputs[i]) : e = <<0, i, l>>
        BY <3>2
      <4>2. PICK l \in ToSet(g.inputs[i]) : e = <<0, i, l>>
        BY <4>1
      <4>3. OutAt(g, 0, i, l)
        BY DEF OutAt
      <4> QED BY <1>2, <1>3, <4>2, <4>3 DEF OriginAt
    <3> QED BY <3>1, <3>2 DEF Leaving
  <2>2. ASSUME NEW l \in DOMAIN g.links PROVE <<g.links[l].origin, g.links[l].oslot, l>> \in Leaving(g)
    <3>1. PICK n, s : n = g.links[l].origin /\ s = g.links[l].oslot
      OBVIOUS
    <3>2. OutAt(g, n, s, l)
      <4>1. OriginAt(g, n, s, l)
        BY <1>2, <3>1, Zenon DEF OriginAt
      <4> QED BY <1>3, <4>1, Zenon
    <3>3. CASE Outlet(g, n, s) /\ l \in ToSet(g.nodes[n].outs[s])
      <4>1. PICK p : p = <<n, s>>
        OBVIOUS
      <4>2. /\ p \in (DOMAIN g.nodes) \X {1, 2} /\ p[1] = n /\ p[2] = s
            /\ s \in DOMAIN g.nodes[n].outs
        BY <1>2, <3>3, <4>1 DEF Outlet
      <4>3. p[2] \in DOMAIN g.nodes[p[1]].outs /\ l \in ToSet(g.nodes[p[1]].outs[p[2]])
        BY <3>3, <4>2
      <4>4. <<p[1], p[2], l>> \in Leaving(g)
        <5>1. PICK W : W = {<<p[1], p[2], x>> : x \in ToSet(g.nodes[p[1]].outs[p[2]])}
          OBVIOUS
        <5>2. <<p[1], p[2], l>> \in W
          BY <4>3, <5>1
        <5>3. W \subseteq Leaving(g)
          BY <4>2, <4>3, <5>1 DEF Leaving
        <5> QED BY <5>2, <5>3
      <4> QED BY <3>1, <4>2, <4>4
    <3>4. CASE n = 0 /\ s \in DOMAIN g.inputs /\ l \in ToSet(g.inputs[s])
      <4>1. <<0, s, l>> \in Leaving(g)
        <5>1. PICK W : W = {<<0, s, x>> : x \in ToSet(g.inputs[s])}
          OBVIOUS
        <5>2. <<0, s, l>> \in W
          BY <3>4, <5>1
        <5>3. W \subseteq Leaving(g)
          BY <3>4, <5>1 DEF Leaving
        <5> QED BY <5>2, <5>3
      <4> QED BY <3>1, <3>4, <4>1
    <3> QED BY <3>2, <3>3, <3>4 DEF OutAt
  <2> QED BY <2>1, <2>2
<1>5. {e \in Entered(g) : e[3] # 0} = {<<g.links[l].target, g.links[l].tslot, l>> : l \in DOMAIN g.links}
  <2>1. ASSUME NEW e \in Entered(g), e[3] # 0
        PROVE  \E l \in DOMAIN g.links : e = <<g.links[l].target, g.links[l].tslot, l>>
    <3>1. CASE \E n \in DOMAIN g.nodes : \E s \in DOMAIN g.nodes[n].ins : e = <<n, s, g.nodes[n].ins[s]>>
      <4>1. PICK n \in DOMAIN g.nodes : \E s \in DOMAIN g.nodes[n].ins : e = <<n, s, g.nodes[n].ins[s]>>
        BY <3>1
      <4>2. PICK s \in DOMAIN g.nodes[n].ins : e = <<n, s, g.nodes[n].ins[s]>>
        BY <4>1
      <4>3. PICK l : l = g.nodes[n].ins[s]
        OBVIOUS
      <4>4. InAt(g, n, s, l)
        BY <1>2, <2>1, <4>2, <4>3 DEF InAt, Inlet
      <4> QED BY <1>2, <1>3, <4>2, <4>3, <4>4 DEF TargetAt
    <3>2. CASE \E i \in DOMAIN g.outputs : \E l \in ToSet(g.outputs[i]) : e = <<-1, i, l>>
      <4>1. PICK i \in DOMAIN g.outputs : \E l \in ToSet(g.outputs[i]) : e = <<-1, i, l>>
        BY <3>2
      <4>2. PICK l \in ToSet(g.outputs[i]) : e = <<-1, i, l>>
        BY <4>1
      <4>3. InAt(g, -1, i, l)
        BY <2>1, <4>2 DEF InAt
      <4> QED BY <1>2, <1>3, <4>2, <4>3 DEF TargetAt
    <3> QED BY <3>1, <3>2 DEF Entered
  <2>2. ASSUME NEW l \in DOMAIN g.links
        PROVE  <<g.links[l].target, g.links[l].tslot, l>> \in Entered(g) /\ l # 0
    <3>1. PICK n, s : n = g.links[l].target /\ s = g.links[l].tslot
      OBVIOUS
    <3>2. InAt(g, n, s, l)
      <4>1. TargetAt(g, n, s, l)
        BY <1>2, <3>1, Zenon DEF TargetAt
      <4> QED BY <1>3, <4>1, Zenon
    <3>3. CASE Inlet(g, n, s) /\ l = g.nodes[n].ins[s]
      <4>1. n \in DOMAIN g.nodes /\ s \in DOMAIN g.nodes[n].ins
        BY <1>2, <3>3 DEF Inlet
      <4>2. <<n, s, g.nodes[n].ins[s]>> \in Entered(g)
        <5>1. PICK W : W = {<<n, x, g.nodes[n].ins[x]>> : x \in DOMAIN g.nodes[n].ins}
          OBVIOUS
        <5>2. <<n, s, g.nodes[n].ins[s]>> \in W
          BY <4>1, <5>1
        <5>3. W \subseteq Entered(g)
          BY <4>1, <5>1 DEF Entered
        <5> QED BY <5>2, <5>3
      <4> QED BY <3>1, <3>2, <3>3, <4>2, Zenon DEF InAt
    <3>4. CASE n = -1 /\ s \in DOMAIN g.outputs /\ l \in ToSet(g.outputs[s])
      <4>1. <<-1, s, l>> \in Entered(g)
        <5>1. PICK W : W = {<<-1, s, x>> : x \in ToSet(g.outputs[s])}
          OBVIOUS
        <5>2. <<-1, s, l>> \in W
          BY <3>4, <5>1
        <5>3. W \subseteq Entered(g)
          BY <3>4, <5>1 DEF Entered
        <5> QED BY <5>2, <5>3
      <4> QED BY <3>1, <3>2, <3>4, <4>1 DEF InAt
    <3> QED BY <3>2, <3>3, <3>4 DEF InAt
  <2> QED BY <2>1, <2>2
<1> QED BY <1>4, <1>5

\* Every link is listed at both its ends, and nothing else is, in the UI graph and in every subgraph.
THEOREM LinksArePaired == Spec => []LinksPaired
<1>1. Init => Handed /\ ShownInv /\ LinksInv
  BY HandedInit, ShownInit, LinksInit
<1>2. IInv /\ DraftInv /\ (Handed /\ ShownInv /\ LinksInv) /\ [(PlanNext /\ UNCHANGED compileVars) \/ CompileNext]_vars
        => (Handed /\ ShownInv /\ LinksInv)'
  BY HandedKept, ShownKept, LinksKept
<1>3. LinksInv => LinksPaired
  BY SoundIsPaired DEF LinksInv, LinksPaired
<1> QED BY <1>1, <1>2, <1>3, AlwaysIInv, AlwaysDraftInv, PTL DEF Spec

-----------------------------------------------------------------------------
(* The graph of a plan                                                       *)

\* The references of a shot that are files, and those that the run makes.
Filed(shot) == {k \in DOMAIN shot.refs : shot.refs[k].source = {}}
Sourcing(shot) == {k \in DOMAIN shot.refs : shot.refs[k].source # {}}
\* A node for each file, and the five nodes of every shot.
FileOf(shot, k) == Direct(shot.id, shot.refs[k].id)
FileKinds(shot) == {FileOf(shot, k) : k \in Filed(shot)}
Canvas(shot) == CanvasPack(shot.id, Len(shot.refs))
H3Pack(shot) == VideoPack(shot.id, 1 + Len(shot.refs))
ShotKinds(shot) == FileKinds(shot) \cup {Canvas(shot), Keyframe(shot), H3Pack(shot), PromptOf(shot.id), VideoNode(shot.id)}

\* What plan and policy feed at the first two slots.
FromHead(k) == {<<Single("Director"), k, 1>>, <<Single("ExecutionPolicy"), k, 2>>}
\* The links between the nodes of a shot.
Chain(shot) ==
  {<<Keyframe(shot), H3Pack(shot), 2>>, <<H3Pack(shot), PromptOf(shot.id), 2>>,
   <<PromptOf(shot.id), VideoNode(shot.id), 2>>, <<H3Pack(shot), VideoNode(shot.id), 3>>}
Given(shot) ==
  {<<Single("Director"), PromptOf(shot.id), 1>>, <<Single("Director"), VideoNode(shot.id), 1>>,
   <<Single("ExecutionPolicy"), VideoNode(shot.id), 4>>}
Packed(shot) == <<Canvas(shot), Keyframe(shot), 6>>
\* What the k-th reference, made by x, feeds.
Referral(shot, k, x) == {<<x, Canvas(shot), 1 + k>>, <<x, H3Pack(shot), 2 + k>>}
ShotEdges(p, shot) ==
  (UNION {FromHead(f) : f \in FileKinds(shot)})
  \cup (UNION {Referral(shot, k, MakerIn(p, shot, shot.refs[k])) : k \in DOMAIN shot.refs})
  \cup FromHead(Keyframe(shot)) \cup {Packed(shot)} \cup Chain(shot) \cup Given(shot)

HeadKinds(p) ==
  {Single("Input"), Single("ExecutionPolicy"), Single("Director")} \cup {Shared(p.shared[k].asset) : k \in DOMAIN p.shared}
HeadEdges(p) ==
  {<<Single("Input"), Single("Director"), 1>>, <<Single("ExecutionPolicy"), Single("Director"), 2>>}
  \cup UNION {FromHead(Shared(p.shared[k].asset)) : k \in DOMAIN p.shared}
EndEdges(p) ==
  FromHead(Single("StoryAssemble")) \cup FromHead(Single("RunManifest"))
  \cup {<<VideoNode(p.shots[i].id), Single("StoryAssemble"), 3 + i>> : i \in DOMAIN p.shots}
  \cup {<<Single("StoryAssemble"), Single("RunManifest"), 3>>}
\* The nodes and the links of the plan's graph, with its first c shots.
KindsTo(p, c) == HeadKinds(p) \cup UNION {ShotKinds(p.shots[j]) : j \in 1..c}
EdgesTo(p, c) == HeadEdges(p) \cup UNION {ShotEdges(p, p.shots[j]) : j \in 1..c}
PlanKinds(p) == KindsTo(p, Len(p.shots)) \cup {Single("StoryAssemble"), Single("RunManifest")}
PlanEdges(p) == EdgesTo(p, Len(p.shots)) \cup EndEdges(p)

-----------------------------------------------------------------------------
(* The API workflow is the plan's graph                                      *)

KindsIn(w) == {w[n].kind : n \in DOMAIN w}
Feeding(w, n) == {<<w[i[2]].kind, w[n].kind, i[1]>> : i \in w[n].ins}
EdgesIn(w) == UNION {Feeding(w, n) : n \in DOMAIN w}

\* The nodes w are those of the plan's graph with its first c shots.
Drawing(p, w, c) ==
  /\ w[2].kind = Single("ExecutionPolicy") /\ w[3].kind = Single("Director")
  /\ KindsIn(w) = KindsTo(p, c) /\ EdgesIn(w) = EdgesTo(p, c)

-----------------------------------------------------------------------------
(* The UI graph is the plan's graph                                          *)

\* What input s of the subgraph feeds, the links between its nodes, what its output s gives.
Entries(d, s) == {<<d.nodes[e.target].kind, e.tslot>> : e \in {y \in ToSet(d.links) : y.origin = 0 /\ y.oslot = s}}
Inner(d) ==
  {<<d.nodes[e.origin].kind, d.nodes[e.target].kind, e.tslot>> : e \in {y \in ToSet(d.links) : y.origin > 0 /\ y.target > 0}}
Exit(d, s) == CHOOSE e \in ToSet(d.links) : e.target = -1 /\ e.tslot = s

\* The subgraph d of a shot, by what its nodes are.
Shaped(d, shot) ==
  /\ {d.nodes[n].kind : n \in DOMAIN d.nodes} = ShotKinds(shot)
  /\ Entries(d, 1) = {<<f, 1>> : f \in FileKinds(shot)}
                     \cup {<<Keyframe(shot), 1>>, <<PromptOf(shot.id), 1>>, <<VideoNode(shot.id), 1>>}
  /\ Entries(d, 2) = {<<f, 2>> : f \in FileKinds(shot)} \cup {<<Keyframe(shot), 2>>, <<VideoNode(shot.id), 4>>}
  /\ \A k \in Sourcing(shot) :
       Entries(d, 2 + Rank(shot, k)) = {<<Canvas(shot), 1 + k>>, <<H3Pack(shot), 2 + k>>}
  /\ Inner(d) = (UNION {Referral(shot, k, FileOf(shot, k)) : k \in Filed(shot)}) \cup Chain(shot)
                \cup (IF shot.refs = << >> THEN {} ELSE {Packed(shot)})
  /\ d.nodes[Exit(d, 1).origin].kind = Keyframe(shot) /\ d.nodes[Exit(d, 2).origin].kind = VideoNode(shot.id)

\* Where the shots begin.
Base(p) == 3 + Len(p.shared)
ShotKind(shot) == Kind("Shot", {shot.id}, << >>, 0)
\* The node that shows image a.
Place(p, a) ==
  IF a \in SharedOf(p) THEN 3 + CHOOSE k \in DOMAIN p.shared : p.shared[k].asset = a
  ELSE Base(p) + CHOOSE i \in DOMAIN p.shots : p.shots[i].asset = a
SourceOf(shot, k) == CHOOSE a \in shot.refs[k].source : TRUE
\* The links from the images of the shot into its instance n.
Meets(p, shot, n) == {<<Place(p, SourceOf(shot, k)), 1, n, 2 + Rank(shot, k)>> : k \in Sourcing(shot)}

\* The nodes and the links of the plan's UI graph g, with its first c shots.
KindsLaid(p, g, c) ==
  /\ g.nodes[1].kind = Single("Input") /\ g.nodes[2].kind = Single("ExecutionPolicy") /\ g.nodes[3].kind = Single("Director")
  /\ \A k \in 1..Len(p.shared) : g.nodes[3 + k].kind = Shared(p.shared[k].asset)
  /\ \A j \in 1..c : g.nodes[Base(p) + j].kind = ShotKind(p.shots[j])
LinksLaid(p, c) ==
  {<<1, 1, 3, 1>>, <<2, 1, 3, 2>>}
  \cup (UNION {Plugged(3 + k) : k \in 1..Len(p.shared)})
  \cup (UNION {Plugged(Base(p) + j) \cup Meets(p, p.shots[j], Base(p) + j) : j \in 1..c})
Laid(p, g, c) == KindsLaid(p, g, c) /\ Edges(g) = LinksLaid(p, c)
Whole(p, g) ==
  LET n == Len(p.shots)
      a == Base(p) + n + 1
  IN  /\ KindsLaid(p, g, n) /\ Len(g.nodes) = a + 1
      /\ g.nodes[a].kind = Single("StoryAssemble") /\ g.nodes[a + 1].kind = Single("RunManifest")
      /\ Edges(g) = LinksLaid(p, n) \cup Plugged(a) \cup Told(Base(p), n, a)
                    \cup Plugged(a + 1) \cup {<<a, 1, a + 1, 3>>}

\* Of the compilation: the UI graph is the plan's graph as far as it is compiled.
UiDrawn ==
  /\ stage \in {"ui", "api", "done"} =>
       IsSequence(subgraphs) /\ \A j \in 1..Len(subgraphs) : Shaped(subgraphs[j], plan.shots[j])
  /\ stage = "ui" => Laid(plan, ui, Len(subgraphs)) /\ \A a \in DOMAIN uiMade : uiMade[a] = Place(plan, a)
  /\ stage \in {"api", "done"} =>
       Len(subgraphs) = Len(plan.shots) /\ Whole(plan, ui) /\ \A j \in DOMAIN plan.shots : Fed(plan, j)

-----------------------------------------------------------------------------
(* What the API workflow's steps draw                                        *)

LEMMA EdgeIs ==
  ASSUME NEW w, NEW x
  PROVE  x \in EdgesIn(w) <=> \E n \in DOMAIN w : x \in Feeding(w, n)
BY DEF EdgesIn

\* What is fed stays fed when nodes are added behind.
LEMMA Grows ==
  ASSUME NEW w, NEW u, NEW a \in Nat, NEW b \in Nat, DOMAIN w = 1..a, DOMAIN u = 1..b, a <= b,
         \A n \in 1..a : u[n] = w[n], FrontToBack(w)
  PROVE  /\ KindsIn(u) = KindsIn(w) \cup {u[n].kind : n \in (a + 1)..b}
         /\ EdgesIn(u) = EdgesIn(w) \cup UNION {Feeding(u, n) : n \in (a + 1)..b}
<1>1. \A n : n \in 1..b <=> n \in 1..a \/ n \in (a + 1)..b
  OBVIOUS
<1>2. ASSUME NEW n \in 1..a PROVE Feeding(u, n) = Feeding(w, n) /\ u[n].kind = w[n].kind
  <2>1. \A i \in w[n].ins : u[i[2]] = w[i[2]]
    <3>1. ASSUME NEW i \in w[n].ins PROVE i[2] \in 1..a
      <4>1. i[2] \in 1..(n - 1)
        BY DEF FrontToBack
      <4> QED BY <4>1
    <3> QED BY <3>1
  <2>2. u[n] = w[n]
    OBVIOUS
  <2> QED BY <2>1, <2>2 DEF Feeding
<1>3. KindsIn(u) = KindsIn(w) \cup {u[n].kind : n \in (a + 1)..b}
  <2>1. \A n \in 1..a : u[n].kind = w[n].kind
    BY <1>2
  <2> QED BY <1>1, <2>1 DEF KindsIn
<1>4. EdgesIn(u) = EdgesIn(w) \cup UNION {Feeding(u, n) : n \in (a + 1)..b}
  <2>1. \A x : x \in EdgesIn(w) <=> \E n \in 1..a : x \in Feeding(u, n)
    BY <1>2, EdgeIs
  <2>2. \A x : x \in EdgesIn(u) <=> \E n \in 1..b : x \in Feeding(u, n)
    BY EdgeIs
  <2>3. \A x : x \in UNION {Feeding(u, n) : n \in (a + 1)..b} <=> \E n \in (a + 1)..b : x \in Feeding(u, n)
    OBVIOUS
  <2> QED BY <1>1, <2>1, <2>2, <2>3
<1> QED BY <1>3, <1>4

\* Plan and policy are nodes 3 and 2.
Headed(w) == w[2].kind = Single("ExecutionPolicy") /\ w[3].kind = Single("Director")

LEMMA FedFromHead ==
  ASSUME NEW w, Headed(w), NEW n, w[n].ins = FromPlan
  PROVE  Feeding(w, n) = FromHead(w[n].kind)
<1>1. Feeding(w, n) = {<<w[i[2]].kind, w[n].kind, i[1]>> : i \in {<<1, 3>>, <<2, 2>>}}
  BY DEF Feeding, FromPlan
<1>2. <<1, 3>>[1] = 1 /\ <<1, 3>>[2] = 3 /\ <<2, 2>>[1] = 2 /\ <<2, 2>>[2] = 2
  OBVIOUS
<1> QED BY <1>1, <1>2 DEF Headed, FromHead

LEMMA FeedingIs ==
  ASSUME NEW w, NEW n, NEW x
  PROVE  x \in Feeding(w, n) <=> \E i \in w[n].ins : x = <<w[i[2]].kind, w[n].kind, i[1]>>
BY DEF Feeding

\* What a node at slot s gives.
LEMMA OneFed ==
  ASSUME NEW w, NEW n, NEW s, NEW o, <<s, o>> \in w[n].ins
  PROVE  <<w[o].kind, w[n].kind, s>> \in Feeding(w, n)
<1>1. <<s, o>>[1] = s /\ <<s, o>>[2] = o
  OBVIOUS
<1>2. PICK i \in w[n].ins : i[1] = s /\ i[2] = o
  BY <1>1
<1> QED BY <1>2, FeedingIs

\* The five nodes of a shot were added behind node l; d are the nodes of its references.
OfFive(u, l, d, shot, p, c) ==
  /\ Headed(u) /\ l \in Nat /\ AddedFor(u, l, d, shot) /\ c \in Nat
  /\ DOMAIN d = 1..c /\ Len(d) = c /\ DOMAIN shot.refs = 1..c /\ Len(shot.refs) = c
  /\ \A k \in 1..c : u[d[k]].kind = MakerIn(p, shot, shot.refs[k])
FiveDrawn(u, l, shot, p) ==
  /\ {u[n].kind : n \in (l + 1)..(l + 5)}
       = {Canvas(shot), Keyframe(shot), H3Pack(shot), PromptOf(shot.id), VideoNode(shot.id)}
  /\ UNION {Feeding(u, n) : n \in (l + 1)..(l + 5)}
       = (UNION {Referral(shot, k, MakerIn(p, shot, shot.refs[k])) : k \in DOMAIN shot.refs})
         \cup FromHead(Keyframe(shot)) \cup {Packed(shot)} \cup Chain(shot) \cup Given(shot)

\* What the five nodes of a shot are fed by.
LEMMA FiveFed ==
  ASSUME NEW u, NEW l, NEW d, NEW shot, NEW p, NEW c, OfFive(u, l, d, shot, p, c)
  PROVE  FiveDrawn(u, l, shot, p)
<1>0. /\ Headed(u) /\ l \in Nat /\ AddedFor(u, l, d, shot) /\ c \in Nat
      /\ DOMAIN d = 1..c /\ Len(d) = c /\ DOMAIN shot.refs = 1..c /\ Len(shot.refs) = c
      /\ \A k \in 1..c : u[d[k]].kind = MakerIn(p, shot, shot.refs[k])
  BY DEF OfFive
<1>1. PICK n1 \in Nat, n2 \in Nat, n3 \in Nat, n4 \in Nat, n5 \in Nat :
        n1 = l + 1 /\ n2 = l + 2 /\ n3 = l + 3 /\ n4 = l + 4 /\ n5 = l + 5
  BY <1>0
<1>2. \A n : n \in (l + 1)..(l + 5) <=> n \in {n1, n2, n3, n4, n5}
  BY <1>0, <1>1
<1>3. PICK kc, kk, kh, kp, kv : /\ kc = Canvas(shot) /\ kk = Keyframe(shot) /\ kh = H3Pack(shot)
                                /\ kp = PromptOf(shot.id) /\ kv = VideoNode(shot.id)
  OBVIOUS
<1>4. PICK dir, pol : dir = Single("Director") /\ pol = Single("ExecutionPolicy")
  OBVIOUS
<1>5. u[3].kind = dir /\ u[2].kind = pol
  BY <1>0, <1>4 DEF Headed
<1>6. /\ u[n1].kind = kc /\ u[n2].kind = kk /\ u[n3].kind = kh /\ u[n4].kind = kp /\ u[n5].kind = kv
      /\ u[n1].ins = {<<1 + k, d[k]>> : k \in 1..c}
      /\ u[n2].ins = {<<1, 3>>, <<2, 2>>, <<6, n1>>}
      /\ u[n3].ins = {<<2, n2>>} \cup {<<2 + k, d[k]>> : k \in 1..c}
      /\ u[n4].ins = {<<1, 3>>, <<2, n3>>}
      /\ u[n5].ins = {<<1, 3>>, <<2, n4>>, <<3, n3>>, <<4, 2>>}
  <2>1. /\ u[n1] = ApiNode(kc, {<<1 + k, d[k]>> : k \in 1..c})
        /\ u[n2] = ApiNode(kk, FromPlan \cup {<<6, n1>>})
        /\ u[n3] = ApiNode(kh, {<<2, n2>>} \cup {<<2 + k, d[k]>> : k \in 1..c})
        /\ u[n4] = ApiNode(kp, {<<1, 3>>, <<2, n3>>})
        /\ u[n5] = ApiNode(kv, {<<1, 3>>, <<2, n4>>, <<3, n3>>, <<4, 2>>})
    BY <1>0, <1>1, <1>3, Zenon DEF AddedFor, Canvas, H3Pack
  <2>2. FromPlan \cup {<<6, n1>>} = {<<1, 3>>, <<2, 2>>, <<6, n1>>}
    BY DEF FromPlan
  <2>3. \A k, i : ApiNode(k, i).kind = k /\ ApiNode(k, i).ins = i
    BY DEF ApiNode
  <2>4. u[n1].kind = kc /\ u[n2].kind = kk /\ u[n3].kind = kh /\ u[n4].kind = kp /\ u[n5].kind = kv
    BY <2>1, <2>3
  <2>5. /\ u[n1].ins = {<<1 + k, d[k]>> : k \in 1..c}
        /\ u[n3].ins = {<<2, n2>>} \cup {<<2 + k, d[k]>> : k \in 1..c}
    <3>1. PICK A, B : A = {<<1 + k, d[k]>> : k \in 1..c} /\ B = {<<2, n2>>} \cup {<<2 + k, d[k]>> : k \in 1..c}
      OBVIOUS
    <3>2. u[n1] = ApiNode(kc, A) /\ u[n3] = ApiNode(kh, B)
      BY <2>1, <3>1
    <3>3. u[n1].ins = A /\ u[n3].ins = B
      BY <2>3, <3>2
    <3> QED BY <3>1, <3>3
  <2>6. /\ u[n2].ins = {<<1, 3>>, <<2, 2>>, <<6, n1>>}
        /\ u[n4].ins = {<<1, 3>>, <<2, n3>>}
        /\ u[n5].ins = {<<1, 3>>, <<2, n4>>, <<3, n3>>, <<4, 2>>}
    BY <2>1, <2>2, <2>3
  <2> QED BY <2>4, <2>5, <2>6
<1>7. PICK mk : mk = [k \in 1..c |-> MakerIn(p, shot, shot.refs[k])]
  OBVIOUS
<1>8. \A k \in 1..c : u[d[k]].kind = mk[k]
  BY <1>0, <1>7
<1>9. Feeding(u, n1) = {<<mk[k], kc, 1 + k>> : k \in 1..c}
  <2>1. ASSUME NEW x \in Feeding(u, n1) PROVE x \in {<<mk[k], kc, 1 + k>> : k \in 1..c}
    <3>1. PICK i \in u[n1].ins : x = <<u[i[2]].kind, u[n1].kind, i[1]>>
      BY FeedingIs
    <3>2. PICK k \in 1..c : i = <<1 + k, d[k]>>
      BY <1>6
    <3> QED BY <1>6, <1>8, <3>1, <3>2
  <2>2. ASSUME NEW k \in 1..c PROVE <<mk[k], kc, 1 + k>> \in Feeding(u, n1)
    <3>1. <<1 + k, d[k]>> \in u[n1].ins
      BY <1>6
    <3>2. <<u[d[k]].kind, u[n1].kind, 1 + k>> \in Feeding(u, n1)
      BY <3>1, OneFed
    <3> QED BY <1>6, <1>8, <3>2
  <2> QED BY <2>1, <2>2
<1>10. Feeding(u, n3) = {<<kk, kh, 2>>} \cup {<<mk[k], kh, 2 + k>> : k \in 1..c}
  <2>1. ASSUME NEW x \in Feeding(u, n3) PROVE x \in {<<kk, kh, 2>>} \cup {<<mk[k], kh, 2 + k>> : k \in 1..c}
    <3>1. PICK i \in u[n3].ins : x = <<u[i[2]].kind, u[n3].kind, i[1]>>
      BY FeedingIs
    <3>2. i = <<2, n2>> \/ \E k \in 1..c : i = <<2 + k, d[k]>>
      BY <1>6
    <3> QED BY <1>6, <1>8, <3>1, <3>2
  <2>2. ASSUME NEW k \in 1..c PROVE <<mk[k], kh, 2 + k>> \in Feeding(u, n3)
    <3>1. <<2 + k, d[k]>> \in u[n3].ins
      BY <1>6
    <3>2. <<u[d[k]].kind, u[n3].kind, 2 + k>> \in Feeding(u, n3)
      BY <3>1, OneFed
    <3> QED BY <1>6, <1>8, <3>2
  <2>3. <<kk, kh, 2>> \in Feeding(u, n3)
    <3>1. <<2, n2>> \in u[n3].ins
      BY <1>6
    <3>2. <<u[n2].kind, u[n3].kind, 2>> \in Feeding(u, n3)
      BY <3>1, OneFed
    <3> QED BY <1>6, <3>2
  <2> QED BY <2>1, <2>2, <2>3
<1>11. Feeding(u, n2) = {<<dir, kk, 1>>, <<pol, kk, 2>>, <<kc, kk, 6>>}
  <2>1. Feeding(u, n2) = {<<u[i[2]].kind, u[n2].kind, i[1]>> : i \in {<<1, 3>>, <<2, 2>>, <<6, n1>>}}
    BY <1>6 DEF Feeding
  <2> QED BY <1>5, <1>6, <2>1
<1>12. Feeding(u, n4) = {<<dir, kp, 1>>, <<kh, kp, 2>>}
  <2>1. Feeding(u, n4) = {<<u[i[2]].kind, u[n4].kind, i[1]>> : i \in {<<1, 3>>, <<2, n3>>}}
    BY <1>6 DEF Feeding
  <2> QED BY <1>5, <1>6, <2>1
<1>13. Feeding(u, n5) = {<<dir, kv, 1>>, <<kp, kv, 2>>, <<kh, kv, 3>>, <<pol, kv, 4>>}
  <2>1. Feeding(u, n5) = {<<u[i[2]].kind, u[n5].kind, i[1]>> : i \in {<<1, 3>>, <<2, n4>>, <<3, n3>>, <<4, 2>>}}
    BY <1>6 DEF Feeding
  <2> QED BY <1>5, <1>6, <2>1
<1>14. {u[n].kind : n \in (l + 1)..(l + 5)} = {kc, kk, kh, kp, kv}
  <2>1. PICK R : R = (l + 1)..(l + 5)
    OBVIOUS
  <2>2. R = {n1, n2, n3, n4, n5}
    BY <1>2, <2>1
  <2>3. {u[n].kind : n \in R} = {u[n1].kind, u[n2].kind, u[n3].kind, u[n4].kind, u[n5].kind}
    BY <2>2
  <2> QED BY <1>6, <2>1, <2>3
<1>15. UNION {Feeding(u, n) : n \in (l + 1)..(l + 5)}
         = Feeding(u, n1) \cup Feeding(u, n2) \cup Feeding(u, n3) \cup Feeding(u, n4) \cup Feeding(u, n5)
  BY <1>2
<1>16. UNION {Referral(shot, k, MakerIn(p, shot, shot.refs[k])) : k \in DOMAIN shot.refs}
         = {<<mk[k], kc, 1 + k>> : k \in 1..c} \cup {<<mk[k], kh, 2 + k>> : k \in 1..c}
  <2>1. \A k \in 1..c : Referral(shot, k, MakerIn(p, shot, shot.refs[k])) = {<<mk[k], kc, 1 + k>>, <<mk[k], kh, 2 + k>>}
    BY <1>3, <1>7 DEF Referral
  <2> QED BY <1>0, <2>1
<1>17. /\ FromHead(kk) = {<<dir, kk, 1>>, <<pol, kk, 2>>} /\ Packed(shot) = <<kc, kk, 6>>
       /\ Chain(shot) = {<<kk, kh, 2>>, <<kh, kp, 2>>, <<kp, kv, 2>>, <<kh, kv, 3>>}
       /\ Given(shot) = {<<dir, kp, 1>>, <<dir, kv, 1>>, <<pol, kv, 4>>}
  BY <1>3, <1>4 DEF FromHead, Packed, Chain, Given
<1> HIDE DEF Feeding
<1>18. Feeding(u, n1) \cup Feeding(u, n2) \cup Feeding(u, n3) \cup Feeding(u, n4) \cup Feeding(u, n5)
         = {<<mk[k], kc, 1 + k>> : k \in 1..c} \cup {<<mk[k], kh, 2 + k>> : k \in 1..c}
           \cup FromHead(kk) \cup {Packed(shot)} \cup Chain(shot) \cup Given(shot)
  <2>1. PICK A, B : A = {<<mk[k], kc, 1 + k>> : k \in 1..c} /\ B = {<<mk[k], kh, 2 + k>> : k \in 1..c}
    OBVIOUS
  <2> QED BY <1>9, <1>10, <1>11, <1>12, <1>13, <1>17, <2>1
<1> QED BY <1>3, <1>14, <1>15, <1>16, <1>18 DEF FiveDrawn

\* The nodes that were added behind those of w are the files among the first i references.
Filing(acc, i, w, shot) ==
  {acc.nodes[n].kind : n \in (Len(w) + 1)..Len(acc.nodes)} = {FileOf(shot, k) : k \in {j \in 1..i : shot.refs[j].source = {}}}

LEMMA FileStep ==
  ASSUME NEW w, NEW m, NEW p, NEW shot, NEW i \in Nat, i # 0, Len(w) \in Nat,
         NEW acc, SoFar(acc, i - 1, w, p, shot), Filing(acc, i - 1, w, shot)
  PROVE  Filing(Gather(acc, m, shot, shot.refs[i]), i, w, shot)
<1>1. PICK q, r : q = Gather(acc, m, shot, r) /\ r = shot.refs[i]
  OBVIOUS
<1>2. PICK N : acc.nodes \in Seq(N)
  BY DEF SoFar, IsSequence
<1>3. PICK s \in Seq(N) : s = acc.nodes
  BY <1>2
<1>4. PICK l \in Nat, b \in Nat : l = Len(s) /\ b = Len(w)
  OBVIOUS
<1>5. l >= b
  BY <1>3, <1>4 DEF SoFar
<1>6. PICK F : F = {FileOf(shot, k) : k \in {j \in 1..(i - 1) : shot.refs[j].source = {}}}
  OBVIOUS
<1>7. {s[n].kind : n \in (b + 1)..l} = F
  BY <1>3, <1>4, <1>6 DEF Filing
<1>8. \A k : k \in 1..i <=> k \in 1..(i - 1) \/ k = i
  OBVIOUS
<1>9. CASE r.source # {}
  <2>1. q.nodes = s
    BY <1>1, <1>3, <1>9 DEF Gather, SoFar
  <2>2. {j \in 1..i : shot.refs[j].source = {}} = {j \in 1..(i - 1) : shot.refs[j].source = {}}
    BY <1>1, <1>8, <1>9
  <2>3. {q.nodes[n].kind : n \in (Len(w) + 1)..Len(q.nodes)} = F
    BY <1>4, <1>7, <2>1
  <2>4. {FileOf(shot, k) : k \in {j \in 1..i : shot.refs[j].source = {}}} = F
    BY <1>6, <2>2
  <2>5. Filing(q, i, w, shot)
    BY <2>3, <2>4, Zenon DEF Filing
  <2> QED BY <1>1, <2>5, Zenon
<1>10. CASE r.source = {}
  <2>1. PICK e : e = ApiNode(Direct(shot.id, r.id), FromPlan)
    OBVIOUS
  <2>2. e.kind = FileOf(shot, i)
    BY <1>1, <2>1 DEF ApiNode, FileOf
  <2>3. PICK u : u = Append(s, e)
    OBVIOUS
  <2>4. Len(u) = l + 1 /\ (\A n \in 1..l : u[n] = s[n]) /\ u[l + 1] = e
    BY <1>4, <2>3, AppendAt
  <2>5. q.nodes = u
    BY <1>1, <1>3, <1>10, <2>1, <2>3 DEF Gather
  <2>6. \A n : n \in (b + 1)..(l + 1) <=> n \in (b + 1)..l \/ n = l + 1
    BY <1>5
  <2>7. \A n \in (b + 1)..l : u[n].kind = s[n].kind
    <3>1. \A n \in (b + 1)..l : n \in 1..l
      OBVIOUS
    <3> QED BY <2>4, <3>1
  <2>8. {u[n].kind : n \in (b + 1)..(l + 1)} = F \cup {FileOf(shot, i)}
    <3>1. {u[n].kind : n \in (b + 1)..(l + 1)} = {s[n].kind : n \in (b + 1)..l} \cup {u[l + 1].kind}
      BY <2>6, <2>7
    <3> QED BY <1>7, <2>2, <2>4, <3>1
  <2>9. {FileOf(shot, k) : k \in {j \in 1..i : shot.refs[j].source = {}}} = F \cup {FileOf(shot, i)}
    <3>1. {j \in 1..i : shot.refs[j].source = {}} = {j \in 1..(i - 1) : shot.refs[j].source = {}} \cup {i}
      BY <1>1, <1>8, <1>10
    <3> QED BY <1>6, <3>1
  <2> QED BY <1>1, <1>4, <2>4, <2>5, <2>8, <2>9 DEF Filing
<1> QED BY <1>9, <1>10

LEMMA GatherFiles ==
  ASSUME NEW N, NEW w \in Seq(N), NEW m, NEW p, NEW shot, NEW T, shot.refs \in Seq(T),
         MakersHaveNodes(w, m, p, shot)
  PROVE  Filing(Gathered(w, m, shot), Len(shot.refs), w, shot)
<1>1. PICK n \in Nat : n = Len(shot.refs) /\ DOMAIN shot.refs = 1..n
  <2>1. Len(shot.refs) \in Nat /\ DOMAIN shot.refs = 1..Len(shot.refs)
    OBVIOUS
  <2> QED BY <2>1
<1>2. PICK h : Gathering(h, w, m, shot) /\ Gathered(w, m, shot) = h[n]
  BY <1>1, GatherFold
<1> DEFINE S == {i \in 0..n : SoFar(h[i], i, w, p, shot) /\ Filing(h[i], i, w, shot)}
<1>3. 0 \in S
  <2>1. h[0].nodes = w /\ h[0].deps = << >>
    BY <1>2 DEF Gathering
  <2>2. << >> \in Seq(Nat) /\ Len(<< >>) = 0 /\ 0 \in 0..n /\ (\A k : k \notin 1..0)
    OBVIOUS
  <2>3. Len(w) \in Nat /\ \A k \in 1..Len(w) : ~(k > Len(w))
    OBVIOUS
  <2>4. SoFar(h[0], 0, w, p, shot)
    BY <2>1, <2>2, <2>3 DEF SoFar, IsSequence
  <2>5. \A k : k \notin (Len(w) + 1)..Len(w)
    BY <2>3
  <2>6. Filing(h[0], 0, w, shot)
    BY <2>1, <2>2, <2>5 DEF Filing
  <2> QED BY <2>2, <2>4, <2>6
<1>4. ASSUME NEW i \in 1..n, i - 1 \in S PROVE i \in S
  <2>1. i \in Nat /\ i # 0 /\ i \in DOMAIN shot.refs /\ Len(w) \in Nat /\ i \in 0..n
    BY <1>1
  <2>2. PICK acc : acc = h[i - 1]
    OBVIOUS
  <2>3. SoFar(acc, i - 1, w, p, shot) /\ Filing(acc, i - 1, w, shot)
    BY <1>4, <2>2
  <2>4. h[i] = Gather(acc, m, shot, shot.refs[i])
    BY <1>1, <1>2, <2>2 DEF Gathering
  <2>5. SoFar(Gather(acc, m, shot, shot.refs[i]), i, w, p, shot)
    BY <2>1, <2>3, GatherStep
  <2>6. Filing(Gather(acc, m, shot, shot.refs[i]), i, w, shot)
    BY <2>1, <2>3, FileStep
  <2> QED BY <2>1, <2>4, <2>5, <2>6
<1>5. \A i \in 0..n : i \in S
  <2> HIDE DEF S
  <2>1. \A i \in 1..n : i - 1 \in S => i \in S
    BY <1>4
  <2> QED BY <1>3, <2>1, UpTo, Zenon
<1>6. n \in S
  <2>1. n \in 0..n
    OBVIOUS
  <2> QED BY <1>5, <2>1
<1> QED BY <1>1, <1>2, <1>6

\* The nodes of w are the first of u.
Stay(w, u) == \A n \in DOMAIN w : u[n] = w[n]

LEMMA BuiltIs ==
  ASSUME NEW p, NEW w, NEW m, NEW c, Built(p, w, m, c)
  PROVE  /\ FrontToBack(w) /\ IsSequence(w) /\ Len(w) \in Nat /\ Len(w) >= 3 /\ DOMAIN w = 1..Len(w)
         /\ \E M : w \in Seq(M)
<1>1. IsSequence(w) /\ Len(w) >= 3 /\ FrontToBack(w)
  BY Zenon DEF Built
<1>2. PICK M : w \in Seq(M)
  BY <1>1 DEF IsSequence
<1>3. Len(w) \in Nat /\ DOMAIN w = 1..Len(w)
  BY <1>2
<1> QED BY <1>1, <1>2, <1>3

LEMMA SoFarIs ==
  ASSUME NEW acc, NEW i, NEW w, NEW p, NEW shot, SoFar(acc, i, w, p, shot), NEW s, s = acc.nodes, NEW d, d = acc.deps,
         NEW a, a = Len(w), NEW e, e = Len(acc.nodes)
  PROVE  /\ IsSequence(s) /\ e = Len(s) /\ a <= e /\ (\A j \in 1..a : s[j] = w[j])
         /\ (\A j \in 1..e : j > a => s[j].ins = FromPlan) /\ d \in Seq(Nat) /\ Len(d) = i
         /\ \A k \in 1..i : d[k] \in 1..e /\ s[d[k]].kind = MakerIn(p, shot, shot.refs[k])
BY DEF SoFar

\* The nodes of the next shot are the plan's.
LEMMA ShotDrawn ==
  ASSUME NEW p, NEW w, NEW m, NEW c \in Nat, NEW shot, NEW found, NEW l, NEW u, NEW m2,
         AddsShot(p, w, m, c, shot, found, l, u, m2), Drawing(p, w, c)
  PROVE  Drawing(p, u, c + 1) /\ u[l + 5].kind = VideoNode(shot.id) /\ Stay(w, u)
<1>1. IsPlan(p) /\ Problem(p) = "none" /\ Singular(p) /\ Built(p, w, m, c)
  BY Zenon DEF AddsShot
<1>2. c + 1 \in DOMAIN p.shots /\ Fed(p, c + 1) /\ shot = p.shots[c + 1]
  BY Zenon DEF AddsShot
<1>3. found = Gathered(w, m, shot) /\ l = Len(found.nodes) /\ u = WithShot(found.nodes, l, found.deps, shot)
  BY Zenon DEF AddsShot
<1>4. SoFar(found, Len(shot.refs), w, p, shot) /\ l \in Nat /\ l >= Len(w)
  <2>1. PICK x : x = Gathered(w, m, p.shots[c + 1])
    OBVIOUS
  <2>2. SoFar(x, Len(p.shots[c + 1].refs), w, p, p.shots[c + 1]) /\ Len(x.nodes) \in Nat /\ Len(x.nodes) >= Len(w)
    BY <1>1, <1>2, <2>1, ShotBuilds, Zenon
  <2>3. x = found
    BY <1>2, <1>3, <2>1, Zenon
  <2> QED BY <1>2, <1>3, <2>2, <2>3, Zenon
<1>5. shot \in ToSet(p.shots)
  BY <1>2 DEF ToSet
<1>6. PICK n \in Nat : n = Len(shot.refs) /\ DOMAIN shot.refs = 1..n
  <2>1. shot.refs \in Seq(ToSet(shot.refs))
    BY <1>1, <1>5, Zenon DEF Singular
  <2>2. Len(shot.refs) \in Nat /\ DOMAIN shot.refs = 1..Len(shot.refs)
    BY <2>1
  <2> QED BY <2>2
<1>7. Filing(found, n, w, shot)
  <2>1. \A j \in 1..c : j \in DOMAIN p.shots
    <3>1. Len(p.shots) \in Nat /\ DOMAIN p.shots = 1..Len(p.shots)
      BY <1>1 DEF IsPlan, IsSequence
    <3> QED BY <1>2, <3>1
  <2>2. \A k \in DOMAIN shot.refs : shot.refs[k].source \subseteq SharedOf(p) \cup {p.shots[j].asset : j \in 1..c}
    <3>1. (c + 1) - 1 = c
      OBVIOUS
    <3> QED BY <1>2, <3>1 DEF Fed
  <2>3. MakersHaveNodes(w, m, p, shot)
    BY <1>1, <1>5, <2>1, <2>2, MakersKnown
  <2>4. PICK M : w \in Seq(M)
    BY <1>1, BuiltIs
  <2>5. shot.refs \in Seq(ToSet(shot.refs))
    BY <1>1, <1>5, Zenon DEF Singular
  <2>6. Filing(Gathered(w, m, shot), Len(shot.refs), w, shot)
    BY <2>3, <2>4, <2>5, GatherFiles, Zenon
  <2> QED BY <1>3, <1>6, <2>6, Zenon
<1>8. PICK s, d : s = found.nodes /\ d = found.deps
  OBVIOUS
<1>9. PICK a \in Nat, e \in Nat : a = Len(w) /\ DOMAIN w = 1..a /\ e = l
  BY <1>1, <1>4, BuiltIs
<1>10. /\ IsSequence(s) /\ e = Len(s) /\ a <= e /\ (\A j \in 1..a : s[j] = w[j]) /\ (\A j \in 1..e : j > a => s[j].ins = FromPlan)
      /\ d \in Seq(Nat) /\ Len(d) = n
      /\ \A k \in 1..n : d[k] \in 1..e /\ s[d[k]].kind = MakerIn(p, shot, shot.refs[k])
  <2>1. SoFar(found, n, w, p, shot)
    BY <1>4, <1>6
  <2>2. e = Len(found.nodes)
    BY <1>3, <1>9
  <2> QED BY <1>8, <1>9, <2>1, <2>2, SoFarIs
<1>11. IsSequence(u) /\ DOMAIN u = 1..(e + 5) /\ (\A j \in 1..e : u[j] = s[j]) /\ AddedFor(u, e, d, shot)
  <2>1. IsSequence(s) /\ e = Len(s)
    BY <1>10
  <2>2. PICK v : v = WithShot(s, e, d, shot)
    OBVIOUS
  <2>3. IsSequence(v) /\ DOMAIN v = 1..(e + 5) /\ (\A j \in 1..e : v[j] = s[j]) /\ AddedFor(v, e, d, shot)
    BY <2>1, <2>2, FiveBehind
  <2>4. u = v
    BY <1>3, <1>8, <1>9, <2>2, Zenon
  <2> QED BY <2>3, <2>4
<1>12. \A j \in 1..a : j \in 1..e /\ u[j] = w[j]
  <2>1. \A j \in 1..a : j \in 1..e
    BY <1>10
  <2> QED BY <1>11, <1>10, <2>1
<1>13. Headed(u)
  <2>1. 2 \in 1..a /\ 3 \in 1..a
    BY <1>1, <1>9, BuiltIs
  <2>2. w[2].kind = Single("ExecutionPolicy") /\ w[3].kind = Single("Director")
    BY DEF Drawing
  <2> QED BY <1>12, <2>1, <2>2 DEF Headed
<1>14. DOMAIN d = 1..n /\ \A k \in 1..n : u[d[k]].kind = MakerIn(p, shot, shot.refs[k])
  <2>1. DOMAIN d = 1..n
    BY <1>10
  <2> QED BY <1>11, <1>10, <2>1
<1>15. \A x : x \in (a + 1)..(e + 5) <=> x \in (a + 1)..e \/ x \in (e + 1)..(e + 5)
  BY <1>10
<1>16. {u[x].kind : x \in (a + 1)..e} = FileKinds(shot)
  <2>1. {u[x].kind : x \in (a + 1)..e} = {s[x].kind : x \in (a + 1)..e}
    <3>1. \A x \in (a + 1)..e : x \in 1..e
      OBVIOUS
    <3>2. \A x \in (a + 1)..e : u[x] = s[x]
      BY <1>11, <3>1
    <3> QED BY <3>2
  <2>2. {s[x].kind : x \in (a + 1)..e} = {FileOf(shot, k) : k \in {j \in 1..n : shot.refs[j].source = {}}}
    BY <1>3, <1>7, <1>8, <1>9, Zenon DEF Filing
  <2> QED BY <1>6, <2>1, <2>2 DEF FileKinds, Filed
<1>17. UNION {Feeding(u, x) : x \in (a + 1)..e} = UNION {FromHead(f) : f \in FileKinds(shot)}
  <2>1. ASSUME NEW x \in (a + 1)..e PROVE Feeding(u, x) = FromHead(u[x].kind)
    <3>1. x \in 1..e /\ x > a
      OBVIOUS
    <3>2. u[x].ins = FromPlan
      BY <1>11, <1>10, <3>1
    <3> QED BY <1>13, <3>2, FedFromHead
  <2>2. {Feeding(u, x) : x \in (a + 1)..e} = {FromHead(f) : f \in {u[x].kind : x \in (a + 1)..e}}
    BY <2>1
  <2> QED BY <1>16, <2>2
<1>18. PICK R : R = (UNION {Referral(shot, k, MakerIn(p, shot, shot.refs[k])) : k \in DOMAIN shot.refs})
                    \cup FromHead(Keyframe(shot)) \cup {Packed(shot)} \cup Chain(shot) \cup Given(shot)
  OBVIOUS
<1>19. PICK V : V = {Canvas(shot), Keyframe(shot), H3Pack(shot), PromptOf(shot.id), VideoNode(shot.id)}
  OBVIOUS
<1>20. {u[x].kind : x \in (e + 1)..(e + 5)} = V /\ UNION {Feeding(u, x) : x \in (e + 1)..(e + 5)} = R
  <2>1. OfFive(u, e, d, shot, p, n)
    BY <1>6, <1>11, <1>10, <1>13, <1>14, Zenon DEF OfFive
  <2>2. FiveDrawn(u, e, shot, p)
    BY <2>1, FiveFed, Zenon
  <2> QED BY <1>18, <1>19, <2>2 DEF FiveDrawn
<1>21. KindsIn(u) = KindsIn(w) \cup ShotKinds(shot) /\ EdgesIn(u) = EdgesIn(w) \cup ShotEdges(p, shot)
  <2>1. FrontToBack(w) /\ a <= e + 5
    BY <1>1, <1>10, BuiltIs
  <2>2. PICK b \in Nat : b = e + 5
    OBVIOUS
  <2>3. /\ KindsIn(u) = KindsIn(w) \cup {u[x].kind : x \in (a + 1)..b}
        /\ EdgesIn(u) = EdgesIn(w) \cup UNION {Feeding(u, x) : x \in (a + 1)..b}
    BY <1>9, <1>11, <1>12, <2>1, <2>2, Grows
  <2>4. PICK A, B, C : A = (a + 1)..b /\ B = (a + 1)..e /\ C = (e + 1)..(e + 5)
    OBVIOUS
  <2>5. A = B \cup C
    BY <1>15, <2>2, <2>4
  <2>6. {u[x].kind : x \in A} = {u[x].kind : x \in B} \cup {u[x].kind : x \in C}
    BY <2>5
  <2>7. UNION {Feeding(u, x) : x \in A} = (UNION {Feeding(u, x) : x \in B}) \cup UNION {Feeding(u, x) : x \in C}
    BY <2>5
  <2>8. ShotKinds(shot) = FileKinds(shot) \cup V
    BY <1>19 DEF ShotKinds
  <2>9. ShotEdges(p, shot) = (UNION {FromHead(f) : f \in FileKinds(shot)}) \cup R
    BY <1>18 DEF ShotEdges
  <2> QED BY <1>16, <1>17, <1>20, <2>3, <2>4, <2>6, <2>7, <2>8, <2>9
<1>22. \A j : j \in 1..(c + 1) <=> j \in 1..c \/ j = c + 1
  OBVIOUS
<1>23. KindsTo(p, c + 1) = KindsTo(p, c) \cup ShotKinds(shot)
  BY <1>2, <1>22 DEF KindsTo
<1>24. EdgesTo(p, c + 1) = EdgesTo(p, c) \cup ShotEdges(p, shot)
  BY <1>2, <1>22 DEF EdgesTo
<1>25. Drawing(p, u, c + 1)
  BY <1>13, <1>21, <1>23, <1>24 DEF Drawing, Headed
<1>26. u[e + 5].kind = VideoNode(shot.id)
  <2>1. \A k, i : ApiNode(k, i).kind = k
    BY DEF ApiNode
  <2>2. \E i : u[e + 5] = ApiNode(VideoNode(shot.id), i)
    BY <1>11, Zenon DEF AddedFor
  <2> QED BY <2>1, <2>2
<1> QED BY <1>9, <1>12, <1>25, <1>26 DEF Stay

LEMMA HeadDrawn ==
  ASSUME NEW p, IsPlan(p), NEW u, HeadNodes(p, u)
  PROVE  Drawing(p, u, 0)
<1>1. PICK n \in Nat : n = Len(p.shared) /\ DOMAIN p.shared = 1..n
  <2>1. Len(p.shared) \in Nat /\ DOMAIN p.shared = 1..Len(p.shared)
    BY DEF IsPlan, IsSequence
  <2> QED BY <2>1
<1>2. PICK inp, pol, dir : inp = Single("Input") /\ pol = Single("ExecutionPolicy") /\ dir = Single("Director")
  OBVIOUS
<1>3. PICK S : S = [k \in 1..n |-> Shared(p.shared[k].asset)]
  OBVIOUS
<1>4. /\ DOMAIN u = 1..(3 + n)
      /\ u[1] = ApiNode(inp, {}) /\ u[2] = ApiNode(pol, {}) /\ u[3] = ApiNode(dir, {<<1, 1>>, <<2, 2>>})
      /\ \A k \in 1..n : u[3 + k] = ApiNode(S[k], FromPlan)
  BY <1>1, <1>2, <1>3 DEF HeadNodes
<1>5. \A k, i : ApiNode(k, i).kind = k /\ ApiNode(k, i).ins = i
  BY DEF ApiNode
<1>6. /\ u[1].kind = inp /\ u[2].kind = pol /\ u[3].kind = dir /\ u[1].ins = {} /\ u[2].ins = {}
      /\ u[3].ins = {<<1, 1>>, <<2, 2>>}
  BY <1>4, <1>5
<1>7. \A k \in 1..n : u[3 + k].kind = S[k] /\ u[3 + k].ins = FromPlan
  <2>1. ASSUME NEW k \in 1..n PROVE u[3 + k].kind = S[k] /\ u[3 + k].ins = FromPlan
    <3>1. PICK e : e = u[3 + k]
      OBVIOUS
    <3>2. e = ApiNode(S[k], FromPlan)
      BY <1>4, <3>1
    <3>3. e.kind = S[k] /\ e.ins = FromPlan
      BY <1>5, <3>2
    <3> QED BY <3>1, <3>3
  <2> QED BY <2>1
<1>8. Headed(u)
  BY <1>2, <1>6 DEF Headed
<1>9. \A j : j \in 1..(3 + n) <=> j = 1 \/ j = 2 \/ j = 3 \/ \E k \in 1..n : j = 3 + k
  <2>1. ASSUME NEW j \in 1..(3 + n), j # 1, j # 2, j # 3 PROVE \E k \in 1..n : j = 3 + k
    <3>1. j - 3 \in 1..n /\ j = 3 + (j - 3)
      BY <2>1
    <3> QED BY <3>1
  <2> QED BY <2>1
<1>10. KindsIn(u) = {inp, pol, dir} \cup {S[k] : k \in 1..n}
  <2>1. KindsIn(u) = {u[j].kind : j \in 1..(3 + n)}
    BY <1>4 DEF KindsIn
  <2>2. ASSUME NEW x PROVE x \in KindsIn(u) <=> x \in {inp, pol, dir} \cup {S[k] : k \in 1..n}
    <3>1. x \in KindsIn(u) <=> \E j \in 1..(3 + n) : x = u[j].kind
      BY <2>1
    <3>2. (\E j \in 1..(3 + n) : x = u[j].kind)
            <=> x = u[1].kind \/ x = u[2].kind \/ x = u[3].kind \/ \E k \in 1..n : x = u[3 + k].kind
      BY <1>9
    <3>3. (\E k \in 1..n : x = u[3 + k].kind) <=> \E k \in 1..n : x = S[k]
      BY <1>7
    <3> QED BY <1>6, <3>1, <3>2, <3>3
  <2> QED BY <2>2
<1>11. HeadKinds(p) = {inp, pol, dir} \cup {S[k] : k \in 1..n}
  BY <1>1, <1>2, <1>3 DEF HeadKinds
<1>12. Feeding(u, 1) = {} /\ Feeding(u, 2) = {}
  BY <1>6 DEF Feeding
<1>13. Feeding(u, 3) = {<<inp, dir, 1>>, <<pol, dir, 2>>}
  <2>1. Feeding(u, 3) = {<<u[i[2]].kind, u[3].kind, i[1]>> : i \in {<<1, 1>>, <<2, 2>>}}
    BY <1>6 DEF Feeding
  <2> QED BY <1>6, <2>1
<1>14. \A k \in 1..n : Feeding(u, 3 + k) = FromHead(S[k])
  <2>1. ASSUME NEW k \in 1..n PROVE Feeding(u, 3 + k) = FromHead(S[k])
    <3>1. PICK j : j = 3 + k
      OBVIOUS
    <3>2. u[j].ins = FromPlan /\ u[j].kind = S[k]
      BY <1>7, <3>1
    <3>3. Feeding(u, j) = FromHead(u[j].kind)
      BY <1>8, <3>2, FedFromHead
    <3> QED BY <3>1, <3>2, <3>3
  <2> QED BY <2>1
<1>15. EdgesIn(u) = {<<inp, dir, 1>>, <<pol, dir, 2>>} \cup UNION {FromHead(S[k]) : k \in 1..n}
  <2>1. ASSUME NEW x PROVE x \in EdgesIn(u) <=> x \in Feeding(u, 3) \/ \E k \in 1..n : x \in FromHead(S[k])
    <3>1. x \in EdgesIn(u) <=> \E j \in 1..(3 + n) : x \in Feeding(u, j)
      BY <1>4, EdgeIs
    <3> QED BY <1>9, <1>12, <1>14, <3>1
  <2>2. \A x : x \in UNION {FromHead(S[k]) : k \in 1..n} <=> \E k \in 1..n : x \in FromHead(S[k])
    OBVIOUS
  <2> QED BY <1>13, <2>1, <2>2
<1>16. HeadEdges(p) = {<<inp, dir, 1>>, <<pol, dir, 2>>} \cup UNION {FromHead(S[k]) : k \in 1..n}
  <2>1. {FromHead(Shared(p.shared[k].asset)) : k \in DOMAIN p.shared} = {FromHead(S[k]) : k \in 1..n}
    BY <1>1, <1>3
  <2> QED BY <1>2, <2>1 DEF HeadEdges
<1>17. \A j : j \notin 1..0
  OBVIOUS
<1>18. KindsTo(p, 0) = HeadKinds(p) /\ EdgesTo(p, 0) = HeadEdges(p)
  BY <1>17 DEF KindsTo, EdgesTo
<1> QED BY <1>2, <1>6, <1>10, <1>11, <1>15, <1>16, <1>18 DEF Drawing

\* Video i of a plan is made by node v[i].
Filmed(p, w, v) == \A i \in DOMAIN v : v[i] \in DOMAIN w /\ w[v[i]].kind = VideoNode(p.shots[i].id)

LEMMA EndDrawn ==
  ASSUME NEW p, NEW n \in Nat, n = Len(p.shots), DOMAIN p.shots = 1..n, NEW w, Drawing(p, w, n),
         FrontToBack(w), Len(w) >= 3, NEW v, DOMAIN v = 1..n, Filmed(p, w, v), NEW u, EndNodes(w, v, u)
  PROVE  KindsIn(u) = PlanKinds(p) /\ EdgesIn(u) = PlanEdges(p)
<1>1. PICK a \in Nat : /\ a = Len(w) /\ a >= 3 /\ DOMAIN w = 1..a /\ DOMAIN u = 1..(a + 2)
                       /\ \A j \in 1..a : u[j] = w[j]
  BY Zenon DEF EndNodes
<1>2. PICK sa, rm : sa = Single("StoryAssemble") /\ rm = Single("RunManifest")
  OBVIOUS
<1>3. PICK x, y : x = a + 1 /\ y = a + 2
  OBVIOUS
<1>4. PICK A, B : A = {<<3 + i, v[i]>> : i \in 1..n} /\ B = {<<3, x>>}
  OBVIOUS
<1>5. u[x] = ApiNode(sa, FromPlan \cup A) /\ u[y] = ApiNode(rm, FromPlan \cup B)
  BY <1>1, <1>2, <1>3, <1>4 DEF EndNodes
<1>6. u[x].kind = sa /\ u[x].ins = FromPlan \cup A /\ u[y].kind = rm /\ u[y].ins = FromPlan \cup B
  <2>1. \A k, i : ApiNode(k, i).kind = k /\ ApiNode(k, i).ins = i
    BY DEF ApiNode
  <2> QED BY <1>5, <2>1
<1>7. PICK dir, pol : dir = Single("Director") /\ pol = Single("ExecutionPolicy")
  OBVIOUS
<1>8. u[2].kind = pol /\ u[3].kind = dir
  <2>1. 2 \in 1..a /\ 3 \in 1..a
    BY <1>1
  <2> QED BY <1>1, <1>7, <2>1 DEF Drawing
<1>9. PICK V : V = [i \in 1..n |-> VideoNode(p.shots[i].id)]
  OBVIOUS
<1>10. \A i \in 1..n : u[v[i]].kind = V[i]
  BY <1>1, <1>9 DEF Filmed
<1>11. \A k : FromHead(k) = {<<dir, k, 1>>, <<pol, k, 2>>}
  BY <1>7 DEF FromHead
<1>12. Feeding(u, x) = FromHead(sa) \cup {<<V[i], sa, 3 + i>> : i \in 1..n}
  <2>1. ASSUME NEW z \in Feeding(u, x) PROVE z \in {<<dir, sa, 1>>, <<pol, sa, 2>>} \cup {<<V[i], sa, 3 + i>> : i \in 1..n}
    <3>1. PICK i \in u[x].ins : z = <<u[i[2]].kind, u[x].kind, i[1]>>
      BY <2>1, FeedingIs
    <3>2. i = <<1, 3>> \/ i = <<2, 2>> \/ \E k \in 1..n : i = <<3 + k, v[k]>>
      BY <1>4, <1>6 DEF FromPlan
    <3> QED BY <1>6, <1>8, <1>10, <3>1, <3>2
  <2>2. ASSUME NEW k \in 1..n PROVE <<V[k], sa, 3 + k>> \in Feeding(u, x)
    <3>1. <<3 + k, v[k]>> \in u[x].ins
      BY <1>4, <1>6
    <3>2. <<u[v[k]].kind, u[x].kind, 3 + k>> \in Feeding(u, x)
      BY <3>1, OneFed
    <3> QED BY <1>6, <1>10, <3>2
  <2>3. <<dir, sa, 1>> \in Feeding(u, x) /\ <<pol, sa, 2>> \in Feeding(u, x)
    <3>1. <<1, 3>> \in u[x].ins /\ <<2, 2>> \in u[x].ins
      BY <1>6 DEF FromPlan
    <3>2. <<u[3].kind, u[x].kind, 1>> \in Feeding(u, x) /\ <<u[2].kind, u[x].kind, 2>> \in Feeding(u, x)
      BY <3>1, OneFed
    <3> QED BY <1>6, <1>8, <3>2
  <2> HIDE DEF Feeding
  <2> QED BY <1>11, <2>1, <2>2, <2>3
<1>13. Feeding(u, y) = FromHead(rm) \cup {<<sa, rm, 3>>}
  <2>1. u[y].ins = {<<1, 3>>, <<2, 2>>, <<3, x>>}
    BY <1>4, <1>6 DEF FromPlan
  <2>2. Feeding(u, y) = {<<u[i[2]].kind, u[y].kind, i[1]>> : i \in {<<1, 3>>, <<2, 2>>, <<3, x>>}}
    BY <2>1 DEF Feeding
  <2> QED BY <1>6, <1>8, <1>11, <2>2
<1>14. PICK b \in Nat : b = a + 2
  OBVIOUS
<1>15. /\ KindsIn(u) = KindsIn(w) \cup {u[j].kind : j \in (a + 1)..b}
       /\ EdgesIn(u) = EdgesIn(w) \cup UNION {Feeding(u, j) : j \in (a + 1)..b}
  <2>1. \A j \in 1..a : u[j] = w[j]
    BY <1>1
  <2>2. DOMAIN w = 1..a /\ DOMAIN u = 1..b /\ a <= b
    BY <1>1, <1>14
  <2> QED BY <2>1, <2>2, Grows
<1>16. PICK R : R = (a + 1)..b
  OBVIOUS
<1>17. R = {x, y}
  BY <1>3, <1>14, <1>16
<1>18. {u[j].kind : j \in R} = {sa, rm}
  BY <1>6, <1>17
<1>19. UNION {Feeding(u, j) : j \in R} = Feeding(u, x) \cup Feeding(u, y)
  BY <1>17
<1>20. KindsIn(u) = PlanKinds(p)
  BY <1>2, <1>15, <1>16, <1>18 DEF PlanKinds, Drawing
<1>21. EndEdges(p) = FromHead(sa) \cup FromHead(rm) \cup {<<V[i], sa, 3 + i>> : i \in 1..n} \cup {<<sa, rm, 3>>}
  BY <1>2, <1>9 DEF EndEdges
<1>22. EdgesIn(u) = PlanEdges(p)
  <2>1. EdgesIn(w) = EdgesTo(p, n)
    BY DEF Drawing
  <2>2. PlanEdges(p) = EdgesTo(p, n) \cup EndEdges(p)
    BY DEF PlanEdges
  <2>3. EdgesIn(u) = EdgesTo(p, n) \cup (Feeding(u, x) \cup Feeding(u, y))
    BY <1>15, <1>16, <1>19, <2>1
  <2> QED BY <1>12, <1>13, <1>21, <2>2, <2>3
<1> QED BY <1>20, <1>22

\* The API workflow is the plan's graph as far as it is compiled.
ApiDrawn ==
  /\ stage = "api" => Drawing(plan, api, Len(videos)) /\ Filmed(plan, api, videos)
  /\ stage = "done" => KindsIn(api) = PlanKinds(plan) /\ EdgesIn(api) = PlanEdges(plan)

LEMMA UiEndDrawn ==
  ASSUME DraftInv, Handed, UiEnd, ShownInv
  PROVE  ApiDrawn'
<1>1. phase = "planned" /\ videos = << >>
  BY DEF UiEnd, DraftInv, ShownInv
<1>2. IsPlan(plan)
  BY <1>1, PlannedIsSingular
<1>3. /\ stage' = "api" /\ plan' = plan /\ videos' = << >>
      /\ api' = ApiHead
      /\ apiMade' = [x \in {plan.shared[k].asset : k \in DOMAIN plan.shared} |->
                       3 + CHOOSE k \in DOMAIN plan.shared : plan.shared[k].asset = x]
  BY <1>1 DEF UiEnd, planVars
<1>4. PICK u, m : u = api' /\ m = apiMade'
  OBVIOUS
<1>5. u = << ApiNode(Single("Input"), {}), ApiNode(Single("ExecutionPolicy"), {}),
             ApiNode(Single("Director"), {<<1, 1>>, <<2, 2>>}) >>
          \o [k \in DOMAIN plan.shared |-> ApiNode(Shared(plan.shared[k].asset), FromPlan)]
  BY <1>3, <1>4 DEF ApiHead
<1>6. m = [x \in {plan.shared[k].asset : k \in DOMAIN plan.shared} |->
             3 + CHOOSE k \in DOMAIN plan.shared : plan.shared[k].asset = x]
  BY <1>3, <1>4
<1>7. HeadNodes(plan, u)
  BY <1>2, <1>5, <1>6, HeadBuilds, Zenon
<1>8. Drawing(plan, u, 0)
  BY <1>2, <1>7, HeadDrawn
<1>9. Len(<< >>) = 0 /\ DOMAIN << >> = {}
  OBVIOUS
<1> QED BY <1>3, <1>4, <1>8, <1>9 DEF ApiDrawn, Filmed

LEMMA ApiShotDrawn ==
  ASSUME DraftInv, Handed, ShownInv, ApiDrawn, ApiShot
  PROVE  ApiDrawn'
<1>1. PICK c, found, l, m2 :
           /\ c \in Nat /\ c = Len(videos) /\ AddsShot(plan, api, apiMade, c, plan.shots[c + 1], found, l, api', m2)
           /\ stage = "api" /\ stage' = "api" /\ plan' = plan /\ apiMade' = m2 /\ videos' = Append(videos, l + 5)
  BY ApiShotAdds, Zenon
<1>2. PICK p, w, u, m, shot : p = plan /\ w = api /\ u = api' /\ m = apiMade /\ shot = p.shots[c + 1]
  OBVIOUS
<1>3. AddsShot(p, w, m, c, shot, found, l, u, m2) /\ Drawing(p, w, c) /\ Filmed(p, w, videos)
  BY <1>1, <1>2 DEF ApiDrawn
<1>4. Drawing(p, u, c + 1) /\ u[l + 5].kind = VideoNode(shot.id) /\ Stay(w, u)
  <2>1. c \in Nat
    BY <1>1
  <2> QED BY <1>3, <2>1, ShotDrawn
<1>5. l + 5 \in DOMAIN u /\ DOMAIN w \subseteq DOMAIN u
  BY <1>1, <1>3, ShotAdded
<1>6. PICK T : videos \in Seq(T)
  BY <1>1 DEF ShownInv, IsSequence
<1>7. Len(videos') = c + 1 /\ Filmed(p, u, videos')
  <2>1. PICK v \in Seq(T) : v = videos
    BY <1>6
  <2>2. PICK e : e = l + 5
    OBVIOUS
  <2>3. PICK v2 : v2 = Append(v, e)
    OBVIOUS
  <2>4. /\ v2 \in Seq(T \cup {e}) /\ Len(v2) = Len(v) + 1 /\ DOMAIN v2 = 1..(Len(v) + 1)
        /\ \A i \in 1..Len(v) : v2[i] = v[i]
        /\ v2[Len(v) + 1] = e
    BY <2>3, AppendAt
  <2>5. Len(v) = c /\ v2 = videos' /\ DOMAIN v = 1..c
    BY <1>1, <2>1, <2>2, <2>3
  <2>6. \A i \in 1..(c + 1) : i \in 1..c \/ i = c + 1
    BY <1>1
  <2>7. \A i \in 1..c : v[i] \in DOMAIN u /\ u[v[i]].kind = VideoNode(p.shots[i].id)
    BY <1>3, <1>4, <1>5, <2>1, <2>5 DEF Filmed, Stay
  <2>8. \A i \in 1..(c + 1) : v2[i] \in DOMAIN u /\ u[v2[i]].kind = VideoNode(p.shots[i].id)
    BY <1>2, <1>4, <1>5, <2>2, <2>4, <2>5, <2>6, <2>7
  <2> QED BY <2>4, <2>5, <2>8 DEF Filmed
<1> QED BY <1>1, <1>2, <1>4, <1>7 DEF ApiDrawn

LEMMA ApiEndDrawn ==
  ASSUME DraftInv, Handed, ShownInv, ApiDrawn, ApiEnd
  PROVE  ApiDrawn'
<1>1. stage = "api" /\ phase = "planned" /\ Len(videos) = Len(plan.shots)
  BY DEF ApiEnd, DraftInv
<1>2. PICK w, m, v, u, n : w = api /\ m = apiMade /\ v = videos /\ u = api' /\ n = Len(plan.shots)
  OBVIOUS
<1>3. n \in Nat /\ DOMAIN plan.shots = 1..n
  <2>1. IsPlan(plan)
    BY <1>1, PlannedIsSingular
  <2> QED BY <1>2, <2>1 DEF IsPlan, IsSequence
<1>4. /\ IsSequence(v) /\ (\A i \in DOMAIN v : v[i] \in DOMAIN w) /\ Built(plan, w, m, n)
      /\ Drawing(plan, w, n) /\ Filmed(plan, w, v)
  BY <1>1, <1>2 DEF ShownInv, ApiDrawn
<1>5. stage' = "done" /\ plan' = plan
      /\ u = w \o << ApiNode(Single("StoryAssemble"), FromPlan \cup {<<3 + i, v[i]>> : i \in DOMAIN v}),
                     ApiNode(Single("RunManifest"), FromPlan \cup {<<3, Len(w) + 1>>}) >>
  BY <1>2 DEF ApiEnd, planVars
<1>6. EndNodes(w, v, u)
  BY <1>4, <1>5, EndBuilds, Zenon
<1>7. DOMAIN v = 1..n
  BY <1>1, <1>2, <1>4 DEF IsSequence
<1>8. FrontToBack(w) /\ Len(w) >= 3
  BY <1>4 DEF Built
<1>9. KindsIn(u) = PlanKinds(plan) /\ EdgesIn(u) = PlanEdges(plan)
  BY <1>2, <1>3, <1>4, <1>6, <1>7, <1>8, EndDrawn
<1> QED BY <1>2, <1>5, <1>9 DEF ApiDrawn

LEMMA ApiDrawnKept ==
  ASSUME DraftInv, Handed, ShownInv, ApiDrawn, [(PlanNext /\ UNCHANGED compileVars) \/ CompileNext]_vars
  PROVE  ApiDrawn'
<1>1. CASE UNCHANGED vars
  BY <1>1 DEF vars, planVars, compileVars, ApiDrawn, Filmed, Drawing
<1>2. CASE PlanNext /\ UNCHANGED compileVars
  <2>1. phase # "planned"
    BY <1>2 DEF PlanNext, BeginDraft, DraftShot, EndDraft, CheckGraph, ResolveLayer, Accept
  <2>2. stage' = "idle"
    BY <1>2, <2>1 DEF DraftInv, compileVars
  <2> QED BY <2>2 DEF ApiDrawn
<1>3. CASE BeginCompile \/ UiShot
  <2>1. stage' \in {"failed", "ui"}
    BY <1>3 DEF BeginCompile, UiShot, Fail
  <2> QED BY <2>1 DEF ApiDrawn
<1> QED BY <1>1, <1>2, <1>3, UiEndDrawn, ApiShotDrawn, ApiEndDrawn DEF CompileNext

-----------------------------------------------------------------------------
(* What the UI graph's steps draw                                            *)

\* Of two references that the run makes, the later one has the higher rank.
LEMMA RankTells ==
  ASSUME NEW shot, NEW n \in Nat, NEW j \in 1..n, NEW k \in 1..n,
         shot.refs[j].source # {}, shot.refs[k].source # {}, Rank(shot, j) = Rank(shot, k)
  PROVE  j = k
<1>1. ASSUME NEW a \in 1..n, NEW b \in 1..n, a < b, shot.refs[b].source # {}
      PROVE  Rank(shot, a) # Rank(shot, b)
  <2>1. PICK c \in Nat : c = b - 1
    BY <1>1
  <2>2. a \in 0..c /\ c \in 0..c
    BY <1>1, <2>1
  <2>3. Rank(shot, a) \in Nat /\ Rank(shot, c) \in Nat /\ Rank(shot, a) <= Rank(shot, c)
    BY <2>2, RankIs
  <2>4. Rank(shot, b) = Rank(shot, b - 1) + 1
    BY <1>1, RankIs
  <2> QED BY <2>1, <2>3, <2>4
<1> QED BY <1>1

\* The links as records and as tuples.
LEMMA WiresAre ==
  ASSUME NEW K, NEW g \in Level(K)
  PROVE  /\ \A e \in ToSet(g.links) : <<e.origin, e.oslot, e.target, e.tslot>> \in Edges(g)
         /\ \A x \in Edges(g) : \E e \in ToSet(g.links) : x = <<e.origin, e.oslot, e.target, e.tslot>>
<1>1. DOMAIN g.links = 1..Len(g.links)
  BY LevelIs
<1> QED BY <1>1 DEF ToSet, Edges

\* What enters at an input, what links two nodes, and what leaves at an output, by the links.
EntryAt(g, s, z) == \E t, ts : <<0, s, t, ts>> \in Edges(g) /\ z = <<g.nodes[t].kind, ts>>
InnerAt(g, z) ==
  \E o, os, t, ts : o > 0 /\ t > 0 /\ <<o, os, t, ts>> \in Edges(g) /\ z = <<g.nodes[o].kind, g.nodes[t].kind, ts>>

LEMMA EntriesAre ==
  ASSUME NEW K, NEW g \in Level(K), NEW s, NEW z
  PROVE  z \in Entries(g, s) <=> EntryAt(g, s, z)
<1>1. ASSUME z \in Entries(g, s)
      PROVE  \E t, ts : <<0, s, t, ts>> \in Edges(g) /\ z = <<g.nodes[t].kind, ts>>
  <2>1. PICK e \in ToSet(g.links) : e.origin = 0 /\ e.oslot = s /\ z = <<g.nodes[e.target].kind, e.tslot>>
    BY <1>1 DEF Entries
  <2>2. <<e.origin, e.oslot, e.target, e.tslot>> \in Edges(g)
    BY WiresAre
  <2> QED BY <2>1, <2>2
<1>2. ASSUME NEW t, NEW ts, <<0, s, t, ts>> \in Edges(g), z = <<g.nodes[t].kind, ts>>
      PROVE  z \in Entries(g, s)
  <2>1. PICK e \in ToSet(g.links) : <<0, s, t, ts>> = <<e.origin, e.oslot, e.target, e.tslot>>
    BY <1>2, WiresAre
  <2> QED BY <1>2, <2>1 DEF Entries
<1> QED BY <1>1, <1>2 DEF EntryAt

LEMMA InnerAre ==
  ASSUME NEW K, NEW g \in Level(K), NEW z
  PROVE  z \in Inner(g) <=> InnerAt(g, z)
<1>1. ASSUME z \in Inner(g)
      PROVE  \E o, os, t, ts : /\ o > 0 /\ t > 0 /\ <<o, os, t, ts>> \in Edges(g)
                               /\ z = <<g.nodes[o].kind, g.nodes[t].kind, ts>>
  <2>1. PICK e \in ToSet(g.links) : e.origin > 0 /\ e.target > 0 /\ z = <<g.nodes[e.origin].kind, g.nodes[e.target].kind, e.tslot>>
    BY <1>1 DEF Inner
  <2>2. <<e.origin, e.oslot, e.target, e.tslot>> \in Edges(g)
    BY WiresAre
  <2> QED BY <2>1, <2>2
<1>2. ASSUME NEW o, NEW os, NEW t, NEW ts, o > 0, t > 0, <<o, os, t, ts>> \in Edges(g),
             z = <<g.nodes[o].kind, g.nodes[t].kind, ts>>
      PROVE  z \in Inner(g)
  <2>1. PICK e \in ToSet(g.links) : <<o, os, t, ts>> = <<e.origin, e.oslot, e.target, e.tslot>>
    BY <1>2, WiresAre
  <2> QED BY <1>2, <2>1 DEF Inner
<1> QED BY <1>1, <1>2 DEF InnerAt

LEMMA ExitIs ==
  ASSUME NEW K, NEW g \in Level(K), NEW s, NEW o, NEW os, <<o, os, -1, s>> \in Edges(g)
  PROVE  \E b : <<Exit(g, s).origin, b, -1, s>> \in Edges(g)
<1>1. PICK e \in ToSet(g.links) : <<o, os, -1, s>> = <<e.origin, e.oslot, e.target, e.tslot>>
  BY WiresAre
<1>2. e.target = -1 /\ e.tslot = s
  BY <1>1
<1>3. PICK x : x = Exit(g, s)
  OBVIOUS
<1>4. x \in ToSet(g.links) /\ x.target = -1 /\ x.tslot = s
  BY <1>2, <1>3 DEF Exit
<1>5. <<x.origin, x.oslot, x.target, x.tslot>> \in Edges(g)
  BY <1>4, WiresAre
<1> QED BY <1>3, <1>4, <1>5

\* The k-th reference is output os of node o, which is f[k] for a file.
Comes(shot, f, k, o, os) ==
  IF shot.refs[k].source # {} THEN o = 0 /\ os = 2 + Rank(shot, k) ELSE o = f[k] /\ os = 1

\* The links of a drawn subgraph: n references, whose files are nodes f, and m files.
Wired(shot, m, n, f, o, os, t, ts) ==
  \/ o = 0 /\ os \in {1, 2} /\ t \in 1..m /\ ts = os
  \/ o = 0 /\ os \in {1, 2} /\ t = m + 2 /\ ts = os
  \/ \E k \in 1..n : Comes(shot, f, k, o, os) /\ t = m + 1 /\ ts = 1 + k
  \/ \E k \in 1..n : Comes(shot, f, k, o, os) /\ t = m + 3 /\ ts = 2 + k
  \/ o = m + 1 /\ os = 1 /\ t = m + 2 /\ ts = 6 /\ n # 0
  \/ o = m + 2 /\ os = 1 /\ t = m + 3 /\ ts = 2
  \/ o = 0 /\ os = 1 /\ t = m + 4 /\ ts = 1
  \/ o = m + 3 /\ os = 1 /\ t = m + 4 /\ ts = 2
  \/ o = 0 /\ os = 1 /\ t = m + 5 /\ ts = 1
  \/ o = m + 4 /\ os = 1 /\ t = m + 5 /\ ts = 2
  \/ o = m + 3 /\ os = 1 /\ t = m + 5 /\ ts = 3
  \/ o = 0 /\ os = 2 /\ t = m + 5 /\ ts = 4
  \/ o = m + 2 /\ os = 1 /\ t = -1 /\ ts = 1
  \/ o = m + 5 /\ os = 1 /\ t = -1 /\ ts = 2

\* Those between its nodes.
WiredInside(shot, m, n, f, o, os, t, ts) ==
  \/ \E k \in 1..n : shot.refs[k].source = {} /\ o = f[k] /\ os = 1 /\ t = m + 1 /\ ts = 1 + k
  \/ \E k \in 1..n : shot.refs[k].source = {} /\ o = f[k] /\ os = 1 /\ t = m + 3 /\ ts = 2 + k
  \/ o = m + 1 /\ os = 1 /\ t = m + 2 /\ ts = 6 /\ n # 0
  \/ o = m + 2 /\ os = 1 /\ t = m + 3 /\ ts = 2
  \/ o = m + 3 /\ os = 1 /\ t = m + 4 /\ ts = 2
  \/ o = m + 4 /\ os = 1 /\ t = m + 5 /\ ts = 2
  \/ o = m + 3 /\ os = 1 /\ t = m + 5 /\ ts = 3

LEMMA DrawnWired ==
  ASSUME NEW shot, NEW m \in Nat, NEW ss, NEW g, Drawn(g, shot, m, ss), NEW n \in Nat, Len(ss) = n,
         NEW f, \A k \in 1..n : f[k] = ss[k][1], NEW o, NEW os, NEW t, NEW ts
  PROVE  <<o, os, t, ts>> \in Edges(g) <=> Wired(shot, m, n, f, o, os, t, ts)
<1>1. PICK x : x = <<o, os, t, ts>>
  OBVIOUS
<1>2. x \in UNION {{<<0, 1, i, 1>>, <<0, 2, i, 2>>} : i \in 1..m} <=> o = 0 /\ os \in {1, 2} /\ t \in 1..m /\ ts = os
  <2>1. x \in UNION {{<<0, 1, i, 1>>, <<0, 2, i, 2>>} : i \in 1..m} <=> \E i \in 1..m : x = <<0, 1, i, 1>> \/ x = <<0, 2, i, 2>>
    OBVIOUS
  <2> QED BY <1>1, <2>1
<1>3. \A k \in 1..n : /\ shot.refs[k].source # {} => ss[k][1] = 0 /\ ss[k][2] = 2 + Rank(shot, k)
                      /\ shot.refs[k].source = {} => ss[k][1] = f[k] /\ ss[k][2] = 1
  <2>1. ASSUME NEW k \in 1..n
        PROVE  /\ shot.refs[k].source # {} => ss[k][1] = 0 /\ ss[k][2] = 2 + Rank(shot, k)
               /\ shot.refs[k].source = {} => ss[k][1] = f[k] /\ ss[k][2] = 1
    <3>1. PICK r : r = Rank(shot, k)
      OBVIOUS
    <3>2. shot.refs[k].source # {} => ss[k] = <<0, 2 + r>>
      BY <3>1 DEF Drawn
    <3>3. shot.refs[k].source = {} => ss[k][2] = 1
      BY DEF Drawn
    <3> QED BY <3>1, <3>2, <3>3
  <2> QED BY <2>1
<1>4. ASSUME NEW a, NEW first
      PROVE  x \in Ordered(ss, a, first) <=>
               \E k \in 1..n : Comes(shot, f, k, o, os) /\ t = a /\ ts = first + k
  <2>1. x \in Ordered(ss, a, first) <=> \E k \in 1..n : x = <<ss[k][1], ss[k][2], a, first + k>>
    BY DEF Ordered
  <2>2. ASSUME NEW k \in 1..n
        PROVE  x = <<ss[k][1], ss[k][2], a, first + k>> <=> Comes(shot, f, k, o, os) /\ t = a /\ ts = first + k
    <3>1. x = <<ss[k][1], ss[k][2], a, first + k>> <=> o = ss[k][1] /\ os = ss[k][2] /\ t = a /\ ts = first + k
      BY <1>1
    <3> QED BY <1>3, <3>1 DEF Comes
  <2> QED BY <2>1, <2>2
<1>5. ss = << >> <=> n = 0
  BY DEF Drawn
<1>6. PICK ya, yb, yc, yd, ye, yf, yg, yh, yi, yj, yk, yl :
        /\ ya = <<0, 1, m + 2, 1>> /\ yb = <<0, 2, m + 2, 2>> /\ yc = <<m + 1, 1, m + 2, 6>> /\ yd = <<m + 2, 1, m + 3, 2>>
        /\ ye = <<0, 1, m + 4, 1>> /\ yf = <<m + 3, 1, m + 4, 2>> /\ yg = <<0, 1, m + 5, 1>> /\ yh = <<m + 4, 1, m + 5, 2>>
        /\ yi = <<m + 3, 1, m + 5, 3>> /\ yj = <<0, 2, m + 5, 4>> /\ yk = <<m + 2, 1, -1, 1>> /\ yl = <<m + 5, 1, -1, 2>>
  OBVIOUS
<1>7. PICK A, B, C : /\ A = UNION {{<<0, 1, i, 1>>, <<0, 2, i, 2>>} : i \in 1..m}
                     /\ B = Ordered(ss, m + 1, 1) /\ C = Ordered(ss, m + 3, 2)
  OBVIOUS
<1>8. x \in Edges(g) <=> \/ x \in A \/ x = ya \/ x = yb \/ x \in B \/ x \in C \/ (x = yc /\ n # 0) \/ x = yd
                         \/ x = ye \/ x = yf \/ x = yg \/ x = yh \/ x = yi \/ x = yj \/ x = yk \/ x = yl
  <2>1. Edges(g) = A \cup B \cup {ya, yb} \cup (IF ss = << >> THEN {} ELSE {yc}) \cup {yd} \cup C
                   \cup {ye, yf, yg, yh, yi, yj, yk, yl}
    BY <1>6, <1>7, Zenon DEF Drawn
  <2> QED BY <1>5, <2>1
<1>9. (x \in B <=> \E k \in 1..n : Comes(shot, f, k, o, os) /\ t = m + 1 /\ ts = 1 + k)
      /\ (x \in C <=> \E k \in 1..n : Comes(shot, f, k, o, os) /\ t = m + 3 /\ ts = 2 + k)
  BY <1>4, <1>7
<1>10. (x = ya \/ x = yb) <=> o = 0 /\ os \in {1, 2} /\ t = m + 2 /\ ts = os
  <2>1. x = ya <=> o = 0 /\ os = 1 /\ t = m + 2 /\ ts = 1
    BY <1>1, <1>6
  <2>2. x = yb <=> o = 0 /\ os = 2 /\ t = m + 2 /\ ts = 2
    BY <1>1, <1>6
  <2> QED BY <2>1, <2>2
<1>11. (x = yc <=> o = m + 1 /\ os = 1 /\ t = m + 2 /\ ts = 6) /\ (x = yd <=> o = m + 2 /\ os = 1 /\ t = m + 3 /\ ts = 2)
  BY <1>1, <1>6
<1>12. (x = ye <=> o = 0 /\ os = 1 /\ t = m + 4 /\ ts = 1) /\ (x = yf <=> o = m + 3 /\ os = 1 /\ t = m + 4 /\ ts = 2)
  BY <1>1, <1>6
<1>13. (x = yg <=> o = 0 /\ os = 1 /\ t = m + 5 /\ ts = 1) /\ (x = yh <=> o = m + 4 /\ os = 1 /\ t = m + 5 /\ ts = 2)
  BY <1>1, <1>6
<1>14. (x = yi <=> o = m + 3 /\ os = 1 /\ t = m + 5 /\ ts = 3) /\ (x = yj <=> o = 0 /\ os = 2 /\ t = m + 5 /\ ts = 4)
  BY <1>1, <1>6
<1>15. (x = yk <=> o = m + 2 /\ os = 1 /\ t = -1 /\ ts = 1) /\ (x = yl <=> o = m + 5 /\ os = 1 /\ t = -1 /\ ts = 2)
  BY <1>1, <1>6
<1>16. Wired(shot, m, n, f, o, os, t, ts) <=>
         \/ x \in A \/ x = ya \/ x = yb \/ x \in B \/ x \in C \/ (x = yc /\ n # 0) \/ x = yd
         \/ x = ye \/ x = yf \/ x = yg \/ x = yh \/ x = yi \/ x = yj \/ x = yk \/ x = yl
  BY <1>2, <1>7, <1>9, <1>10, <1>11, <1>12, <1>13, <1>14, <1>15 DEF Wired
<1> QED BY <1>1, <1>8, <1>16

\* The subgraph that is drawn is what the plan's graph has of the shot.
LEMMA DrawnShaped ==
  ASSUME NEW shot, NEW T, shot.refs \in Seq(T), NEW K, NEW g \in Level(K), NEW m \in Nat, NEW ss,
         Drawn(g, shot, m, ss)
  PROVE  Shaped(g, shot)
<1>1. PICK n \in Nat : n = Len(shot.refs) /\ DOMAIN shot.refs = 1..n /\ Len(ss) = n
  <2>1. Len(shot.refs) \in Nat /\ DOMAIN shot.refs = 1..Len(shot.refs)
    OBVIOUS
  <2> QED BY <2>1 DEF Drawn
<1>2. PICK f : f = [k \in 1..n |-> ss[k][1]]
  OBVIOUS
<1>3. \A o, os, t, ts : <<o, os, t, ts>> \in Edges(g) <=> Wired(shot, m, n, f, o, os, t, ts)
  <2>1. \A k \in 1..n : f[k] = ss[k][1]
    BY <1>2
  <2> QED BY <1>1, <2>1, DrawnWired
<1>4. PICK kd : kd = [i \in 1..(m + 5) |-> g.nodes[i].kind]
  OBVIOUS
<1>5. PICK kc, kk, kh, kp, kv : /\ kc = Canvas(shot) /\ kk = Keyframe(shot) /\ kh = H3Pack(shot)
                                /\ kp = PromptOf(shot.id) /\ kv = VideoNode(shot.id)
  OBVIOUS
<1>6. /\ \A i \in 1..(m + 5) : g.nodes[i].kind = kd[i]
      /\ g.nodes[m + 1].kind = kc /\ g.nodes[m + 2].kind = kk /\ g.nodes[m + 3].kind = kh
      /\ g.nodes[m + 4].kind = kp /\ g.nodes[m + 5].kind = kv
      /\ \A i \in 1..m : g.nodes[i].kind = kd[i]
      /\ kd[m + 1] = kc /\ kd[m + 2] = kk /\ kd[m + 3] = kh /\ kd[m + 4] = kp /\ kd[m + 5] = kv
  <2>1. m + 1 \in 1..(m + 5) /\ m + 2 \in 1..(m + 5) /\ m + 3 \in 1..(m + 5) /\ m + 4 \in 1..(m + 5) /\ m + 5 \in 1..(m + 5)
    OBVIOUS
  <2>2. /\ g.nodes[m + 1].kind = kc /\ g.nodes[m + 2].kind = kk /\ g.nodes[m + 3].kind = kh
        /\ g.nodes[m + 4].kind = kp /\ g.nodes[m + 5].kind = kv
    BY <1>1, <1>5 DEF Drawn, Canvas, H3Pack
  <2>3. \A i \in 1..m : i \in 1..(m + 5)
    OBVIOUS
  <2>4. \A i \in 1..(m + 5) : g.nodes[i].kind = kd[i]
    BY <1>4
  <2>5. \A i \in 1..m : g.nodes[i].kind = kd[i]
    BY <2>3, <2>4
  <2> QED BY <2>1, <2>2, <2>4, <2>5
<1>7. PICK F : F = [k \in 1..n |-> FileOf(shot, k)]
  OBVIOUS
<1>8. \A k \in 1..n : shot.refs[k].source = {} => f[k] \in 1..m /\ kd[f[k]] = F[k]
  <2>1. ASSUME NEW k \in 1..n, shot.refs[k].source = {} PROVE f[k] \in 1..m /\ kd[f[k]] = F[k]
    <3>1. ss[k][1] \in 1..m /\ g.nodes[ss[k][1]].kind = FileOf(shot, k)
      BY <1>1, <2>1 DEF Drawn, FileOf
    <3>2. \A i \in 1..m : i \in 1..(m + 5)
      OBVIOUS
    <3> QED BY <1>2, <1>6, <1>7, <3>1, <3>2
  <2> QED BY <2>1
<1>9. \A i \in 1..m : \E k \in 1..n : shot.refs[k].source = {} /\ kd[i] = F[k]
  <2>1. ASSUME NEW i \in 1..m PROVE \E k \in 1..n : shot.refs[k].source = {} /\ kd[i] = F[k]
    <3>1. PICK k \in 1..n : shot.refs[k].source = {} /\ g.nodes[i].kind = Direct(shot.id, shot.refs[k].id)
      BY <1>1 DEF Drawn
    <3>2. g.nodes[i].kind = kd[i]
      BY <1>6
    <3> QED BY <1>7, <3>1, <3>2 DEF FileOf
  <2> QED BY <2>1
<1>10. {kd[i] : i \in 1..m} = FileKinds(shot)
  <2>1. ASSUME NEW z PROVE z \in FileKinds(shot) <=> \E k \in 1..n : shot.refs[k].source = {} /\ z = F[k]
    BY <1>1, <1>7 DEF FileKinds, Filed
  <2>2. ASSUME NEW z PROVE (\E k \in 1..n : shot.refs[k].source = {} /\ z = F[k]) <=> \E i \in 1..m : z = kd[i]
    <3>1. ASSUME NEW k \in 1..n, shot.refs[k].source = {}, z = F[k] PROVE \E i \in 1..m : z = kd[i]
      BY <1>8, <3>1
    <3>2. ASSUME NEW i \in 1..m, z = kd[i] PROVE \E k \in 1..n : shot.refs[k].source = {} /\ z = F[k]
      BY <1>9, <3>2
    <3> QED BY <3>1, <3>2
  <2>3. ASSUME NEW z PROVE z \in {kd[i] : i \in 1..m} <=> \E i \in 1..m : z = kd[i]
    OBVIOUS
  <2>4. ASSUME NEW z PROVE z \in {kd[i] : i \in 1..m} <=> z \in FileKinds(shot)
    BY <2>1, <2>2, <2>3
  <2> QED BY <2>4
<1>11. \A k \in 1..n : shot.refs[k].source # {} => Rank(shot, k) \in Nat /\ Rank(shot, k) # 0
  <2>1. ASSUME NEW k \in 1..n, shot.refs[k].source # {} PROVE Rank(shot, k) \in Nat /\ Rank(shot, k) # 0
    <3>1. k - 1 \in 0..n
      OBVIOUS
    <3>2. Rank(shot, k) = Rank(shot, k - 1) + 1 /\ Rank(shot, k - 1) \in Nat
      BY <2>1, <3>1, RankIs
    <3> QED BY <3>2
  <2> QED BY <2>1
<1>12. {g.nodes[i].kind : i \in DOMAIN g.nodes} = ShotKinds(shot)
  <2>1. DOMAIN g.nodes = 1..(m + 5)
    BY LevelIs DEF Drawn
  <2>2. \A i : i \in 1..(m + 5) <=> i \in 1..m \/ i \in {m + 1, m + 2, m + 3, m + 4, m + 5}
    OBVIOUS
  <2>3. {g.nodes[i].kind : i \in DOMAIN g.nodes} = {kd[i] : i \in 1..(m + 5)}
    BY <1>6, <2>1
  <2>4. {kd[i] : i \in 1..(m + 5)} = {kd[i] : i \in 1..m} \cup {kc, kk, kh, kp, kv}
    <3>1. PICK R, S : R = 1..(m + 5) /\ S = 1..m
      OBVIOUS
    <3>2. R = S \cup {m + 1, m + 2, m + 3, m + 4, m + 5}
      BY <2>2, <3>1
    <3>3. {kd[i] : i \in R} = {kd[i] : i \in S} \cup {kd[m + 1], kd[m + 2], kd[m + 3], kd[m + 4], kd[m + 5]}
      BY <3>2
    <3> QED BY <1>6, <3>1, <3>3
  <2> QED BY <1>5, <1>10, <2>3, <2>4 DEF ShotKinds
<1>13. Entries(g, 1) = {<<x, 1>> : x \in FileKinds(shot)} \cup {<<kk, 1>>, <<kp, 1>>, <<kv, 1>>}
  <2>1. \A t, ts : Wired(shot, m, n, f, 0, 1, t, ts)
                     <=> (t \in 1..m \/ t = m + 2 \/ t = m + 4 \/ t = m + 5) /\ ts = 1
    <3>1. \A k \in 1..n : ~Comes(shot, f, k, 0, 1)
      BY <1>8, <1>11 DEF Comes
    <3>2. 0 # m + 1 /\ 0 # m + 2 /\ 0 # m + 3 /\ 0 # m + 4 /\ 0 # m + 5 /\ 1 \in {1, 2} /\ 1 # 2
      OBVIOUS
    <3> QED BY <3>1, <3>2 DEF Wired
  <2>2. ASSUME NEW z PROVE z \in Entries(g, 1) <=> (\E i \in 1..m : z = <<kd[i], 1>>) \/ z \in {<<kk, 1>>, <<kp, 1>>, <<kv, 1>>}
    <3>1. z \in Entries(g, 1) <=> EntryAt(g, 1, z)
      BY EntriesAre
    <3>2. EntryAt(g, 1, z) <=>
            \E t, ts : (t \in 1..m \/ t = m + 2 \/ t = m + 4 \/ t = m + 5) /\ ts = 1 /\ z = <<g.nodes[t].kind, ts>>
      BY <1>3, <2>1 DEF EntryAt
    <3>3. EntryAt(g, 1, z) <=> \/ \E t \in 1..m : z = <<g.nodes[t].kind, 1>>
                              \/ z = <<g.nodes[m + 2].kind, 1>> \/ z = <<g.nodes[m + 4].kind, 1>>
                              \/ z = <<g.nodes[m + 5].kind, 1>>
      BY <3>2
    <3>4. (\E t \in 1..m : z = <<g.nodes[t].kind, 1>>) <=> \E i \in 1..m : z = <<kd[i], 1>>
      BY <1>6
    <3>5. g.nodes[m + 2].kind = kk /\ g.nodes[m + 4].kind = kp /\ g.nodes[m + 5].kind = kv
      BY <1>6
    <3> QED BY <3>1, <3>3, <3>4, <3>5
  <2>3. ASSUME NEW z PROVE z \in {<<x, 1>> : x \in FileKinds(shot)} <=> \E i \in 1..m : z = <<kd[i], 1>>
    BY <1>10
  <2> QED BY <2>2, <2>3
<1>14. Entries(g, 2) = {<<x, 2>> : x \in FileKinds(shot)} \cup {<<kk, 2>>, <<kv, 4>>}
  <2>1. \A t, ts : Wired(shot, m, n, f, 0, 2, t, ts)
                     <=> ((t \in 1..m \/ t = m + 2) /\ ts = 2) \/ (t = m + 5 /\ ts = 4)
    <3>1. \A k \in 1..n : ~Comes(shot, f, k, 0, 2)
      BY <1>8, <1>11 DEF Comes
    <3>2. 0 # m + 1 /\ 0 # m + 2 /\ 0 # m + 3 /\ 0 # m + 4 /\ 0 # m + 5 /\ 2 \in {1, 2} /\ 1 # 2
      OBVIOUS
    <3> QED BY <3>1, <3>2 DEF Wired
  <2>2. ASSUME NEW z PROVE z \in Entries(g, 2) <=> (\E i \in 1..m : z = <<kd[i], 2>>) \/ z \in {<<kk, 2>>, <<kv, 4>>}
    <3>1. z \in Entries(g, 2) <=> EntryAt(g, 2, z)
      BY EntriesAre
    <3>2. EntryAt(g, 2, z) <=>
            \E t, ts : /\ ((t \in 1..m \/ t = m + 2) /\ ts = 2) \/ (t = m + 5 /\ ts = 4)
                       /\ z = <<g.nodes[t].kind, ts>>
      BY <1>3, <2>1 DEF EntryAt
    <3>3. EntryAt(g, 2, z) <=> \/ \E t \in 1..m : z = <<g.nodes[t].kind, 2>>
                              \/ z = <<g.nodes[m + 2].kind, 2>> \/ z = <<g.nodes[m + 5].kind, 4>>
      BY <3>2
    <3>4. (\E t \in 1..m : z = <<g.nodes[t].kind, 2>>) <=> \E i \in 1..m : z = <<kd[i], 2>>
      BY <1>6
    <3>5. g.nodes[m + 2].kind = kk /\ g.nodes[m + 5].kind = kv
      BY <1>6
    <3> QED BY <3>1, <3>3, <3>4, <3>5
  <2>3. ASSUME NEW z PROVE z \in {<<x, 2>> : x \in FileKinds(shot)} <=> \E i \in 1..m : z = <<kd[i], 2>>
    BY <1>10
  <2> QED BY <2>2, <2>3
<1>15. ASSUME NEW k \in Sourcing(shot)
       PROVE  Entries(g, 2 + Rank(shot, k)) = {<<kc, 1 + k>>, <<kh, 2 + k>>}
  <2>1. k \in 1..n /\ shot.refs[k].source # {}
    BY <1>1 DEF Sourcing
  <2>2. PICK s \in Nat : s = 2 + Rank(shot, k) /\ s > 2
    BY <1>11, <2>1
  <2>3. ASSUME NEW j \in 1..n PROVE Comes(shot, f, j, 0, s) <=> j = k
    <3>1. CASE shot.refs[j].source = {}
      BY <1>8, <2>1, <3>1 DEF Comes
    <3>2. CASE shot.refs[j].source # {}
      <4>1. Comes(shot, f, j, 0, s) <=> Rank(shot, j) = Rank(shot, k)
        BY <1>11, <2>1, <2>2, <3>2 DEF Comes
      <4> QED BY <2>1, <3>2, <4>1, RankTells
    <3> QED BY <3>1, <3>2
  <2>4. ASSUME NEW t, NEW ts
        PROVE  Wired(shot, m, n, f, 0, s, t, ts) <=> (t = m + 1 /\ ts = 1 + k) \/ (t = m + 3 /\ ts = 2 + k)
    BY <2>1, <2>2, <2>3 DEF Wired
  <2>5. ASSUME NEW z PROVE z \in Entries(g, s) <=> z \in {<<kc, 1 + k>>, <<kh, 2 + k>>}
    <3>1. z \in Entries(g, s) <=> EntryAt(g, s, z)
      BY EntriesAre
    <3>2. EntryAt(g, s, z) <=>
            \E t, ts : ((t = m + 1 /\ ts = 1 + k) \/ (t = m + 3 /\ ts = 2 + k)) /\ z = <<g.nodes[t].kind, ts>>
      BY <1>3, <2>4 DEF EntryAt
    <3> QED BY <1>6, <3>1, <3>2
  <2> QED BY <2>2, <2>5
<1>16. PICK A, B : A = {<<F[k], kc, 1 + k>> : k \in {j \in 1..n : shot.refs[j].source = {}}}
                   /\ B = {<<F[k], kh, 2 + k>> : k \in {j \in 1..n : shot.refs[j].source = {}}}
  OBVIOUS
<1>17. UNION {Referral(shot, k, FileOf(shot, k)) : k \in Filed(shot)} = A \cup B
  <2>1. \A k \in 1..n : Referral(shot, k, FileOf(shot, k)) = {<<F[k], kc, 1 + k>>, <<F[k], kh, 2 + k>>}
    BY <1>5, <1>7 DEF Referral
  <2>2. \A k : k \in Filed(shot) <=> k \in 1..n /\ shot.refs[k].source = {}
    BY <1>1 DEF Filed
  <2>3. ASSUME NEW z PROVE z \in UNION {Referral(shot, k, FileOf(shot, k)) : k \in Filed(shot)}
                           <=> \E k \in 1..n : shot.refs[k].source = {} /\ (z = <<F[k], kc, 1 + k>> \/ z = <<F[k], kh, 2 + k>>)
    <3>1. z \in UNION {Referral(shot, k, FileOf(shot, k)) : k \in Filed(shot)}
            <=> \E k \in Filed(shot) : z \in Referral(shot, k, FileOf(shot, k))
      OBVIOUS
    <3> QED BY <2>1, <2>2, <3>1
  <2>4. ASSUME NEW z PROVE z \in A \cup B
                           <=> \E k \in 1..n : shot.refs[k].source = {} /\ (z = <<F[k], kc, 1 + k>> \/ z = <<F[k], kh, 2 + k>>)
    BY <1>16
  <2> QED BY <2>3, <2>4
<1>18. Chain(shot) = {<<kk, kh, 2>>, <<kh, kp, 2>>, <<kp, kv, 2>>, <<kh, kv, 3>>} /\ Packed(shot) = <<kc, kk, 6>>
  BY <1>5 DEF Chain, Packed
<1>19. ASSUME NEW z
       PROVE  z \in Inner(g) <=> z \in A \/ z \in B \/ z \in Chain(shot) \/ (n # 0 /\ z = Packed(shot))
  <2>1. ASSUME NEW o, NEW os, NEW t, NEW ts
        PROVE  (o > 0 /\ t > 0 /\ Wired(shot, m, n, f, o, os, t, ts)) <=> WiredInside(shot, m, n, f, o, os, t, ts)
    <3>1. \A k \in 1..n : shot.refs[k].source = {} => f[k] > 0
      BY <1>8
    <3>2. \A k \in 1..n : (o > 0 /\ Comes(shot, f, k, o, os)) <=> (shot.refs[k].source = {} /\ o = f[k] /\ os = 1)
      BY <3>1 DEF Comes
    <3>3. (o > 0 /\ \E k \in 1..n : Comes(shot, f, k, o, os) /\ t = m + 1 /\ ts = 1 + k)
            <=> \E k \in 1..n : shot.refs[k].source = {} /\ o = f[k] /\ os = 1 /\ t = m + 1 /\ ts = 1 + k
      BY <3>2
    <3>4. (o > 0 /\ \E k \in 1..n : Comes(shot, f, k, o, os) /\ t = m + 3 /\ ts = 2 + k)
            <=> \E k \in 1..n : shot.refs[k].source = {} /\ o = f[k] /\ os = 1 /\ t = m + 3 /\ ts = 2 + k
      BY <3>2
    <3>5. ASSUME o > 0, t > 0, Wired(shot, m, n, f, o, os, t, ts) PROVE WiredInside(shot, m, n, f, o, os, t, ts)
      <4>1. o # 0 /\ t # -1
        BY <3>5
      <4>2. CASE \E k \in 1..n : Comes(shot, f, k, o, os) /\ t = m + 1 /\ ts = 1 + k
        BY <3>3, <3>5, <4>2 DEF WiredInside
      <4>3. CASE \E k \in 1..n : Comes(shot, f, k, o, os) /\ t = m + 3 /\ ts = 2 + k
        BY <3>4, <3>5, <4>3 DEF WiredInside
      <4>4. CASE \/ o = m + 1 /\ os = 1 /\ t = m + 2 /\ ts = 6 /\ n # 0
                 \/ o = m + 2 /\ os = 1 /\ t = m + 3 /\ ts = 2
                 \/ o = m + 3 /\ os = 1 /\ t = m + 4 /\ ts = 2
                 \/ o = m + 4 /\ os = 1 /\ t = m + 5 /\ ts = 2
                 \/ o = m + 3 /\ os = 1 /\ t = m + 5 /\ ts = 3
        BY <4>4 DEF WiredInside
      <4> QED BY <3>5, <4>1, <4>2, <4>3, <4>4, Zenon DEF Wired
    <3>6. ASSUME WiredInside(shot, m, n, f, o, os, t, ts) PROVE o > 0 /\ t > 0 /\ Wired(shot, m, n, f, o, os, t, ts)
      <4>1. o > 0 /\ t > 0
        BY <3>3, <3>4, <3>6 DEF WiredInside
      <4>2. Wired(shot, m, n, f, o, os, t, ts)
        BY <3>3, <3>4, <3>6, Zenon DEF Wired, WiredInside
      <4> QED BY <4>1, <4>2
    <3> QED BY <3>5, <3>6
  <2>2. z \in Inner(g) <=> \E o, os, t, ts : /\ o > 0 /\ t > 0 /\ Wired(shot, m, n, f, o, os, t, ts)
                                             /\ z = <<g.nodes[o].kind, g.nodes[t].kind, ts>>
    <3>1. z \in Inner(g) <=> InnerAt(g, z)
      BY InnerAre
    <3> QED BY <1>3, <3>1 DEF InnerAt
  <2>3. /\ g.nodes[m + 1].kind = kc /\ g.nodes[m + 2].kind = kk /\ g.nodes[m + 3].kind = kh
        /\ g.nodes[m + 4].kind = kp /\ g.nodes[m + 5].kind = kv
    BY <1>6
  <2>4. \A k \in 1..n : shot.refs[k].source = {} => g.nodes[f[k]].kind = F[k]
    <3>1. \A i \in 1..m : i \in 1..(m + 5)
      OBVIOUS
    <3> QED BY <1>6, <1>8, <3>1
  <2>5. z \in A <=> \E k \in 1..n : shot.refs[k].source = {} /\ z = <<F[k], kc, 1 + k>>
    BY <1>16
  <2>6. z \in B <=> \E k \in 1..n : shot.refs[k].source = {} /\ z = <<F[k], kh, 2 + k>>
    BY <1>16
  <2>7. ASSUME z \in Inner(g) PROVE z \in A \/ z \in B \/ z \in Chain(shot) \/ (n # 0 /\ z = Packed(shot))
    <3>1. PICK o, os, t, ts : /\ o > 0 /\ t > 0 /\ Wired(shot, m, n, f, o, os, t, ts)
                              /\ z = <<g.nodes[o].kind, g.nodes[t].kind, ts>>
      BY <2>2, <2>7
    <3>2. WiredInside(shot, m, n, f, o, os, t, ts)
      BY <2>1, <3>1
    <3> QED BY <1>18, <2>3, <2>4, <2>5, <2>6, <3>1, <3>2 DEF WiredInside
  <2>8. ASSUME NEW o, NEW os, NEW t, NEW ts, o > 0, t > 0, Wired(shot, m, n, f, o, os, t, ts)
        PROVE  <<g.nodes[o].kind, g.nodes[t].kind, ts>> \in Inner(g)
    <3>1. <<o, os, t, ts>> \in Edges(g)
      BY <1>3, <2>8
    <3> QED BY <2>8, <3>1, InnerAre DEF InnerAt
  <2>9. ASSUME z \in A PROVE z \in Inner(g)
    <3>1. PICK k \in 1..n : shot.refs[k].source = {} /\ z = <<F[k], kc, 1 + k>>
      BY <2>5, <2>9
    <3>2. f[k] > 0 /\ m + 1 > 0 /\ Wired(shot, m, n, f, f[k], 1, m + 1, 1 + k)
      BY <1>8, <3>1 DEF Wired, Comes
    <3> QED BY <2>3, <2>4, <2>8, <3>1, <3>2
  <2>10. ASSUME z \in B PROVE z \in Inner(g)
    <3>1. PICK k \in 1..n : shot.refs[k].source = {} /\ z = <<F[k], kh, 2 + k>>
      BY <2>6, <2>10
    <3>2. f[k] > 0 /\ m + 3 > 0 /\ Wired(shot, m, n, f, f[k], 1, m + 3, 2 + k)
      BY <1>8, <3>1 DEF Wired, Comes
    <3> QED BY <2>3, <2>4, <2>8, <3>1, <3>2
  <2>11. /\ Wired(shot, m, n, f, m + 2, 1, m + 3, 2) /\ Wired(shot, m, n, f, m + 3, 1, m + 4, 2)
         /\ Wired(shot, m, n, f, m + 4, 1, m + 5, 2) /\ Wired(shot, m, n, f, m + 3, 1, m + 5, 3)
         /\ n # 0 => Wired(shot, m, n, f, m + 1, 1, m + 2, 6)
    BY DEF Wired
  <2>12. m + 1 > 0 /\ m + 2 > 0 /\ m + 3 > 0 /\ m + 4 > 0 /\ m + 5 > 0
    OBVIOUS
  <2>13. /\ <<kk, kh, 2>> \in Inner(g) /\ <<kh, kp, 2>> \in Inner(g) /\ <<kp, kv, 2>> \in Inner(g)
         /\ <<kh, kv, 3>> \in Inner(g) /\ (n # 0 => <<kc, kk, 6>> \in Inner(g))
    BY <2>3, <2>8, <2>11, <2>12
  <2> QED BY <1>18, <2>7, <2>9, <2>10, <2>13
<1>20. Inner(g) = (UNION {Referral(shot, k, FileOf(shot, k)) : k \in Filed(shot)}) \cup Chain(shot)
                  \cup (IF shot.refs = << >> THEN {} ELSE {Packed(shot)})
  <2>1. shot.refs = << >> <=> n = 0
    BY <1>1
  <2> QED BY <1>17, <1>19, <2>1
<1>21. g.nodes[Exit(g, 1).origin].kind = kk
  <2>1. <<m + 2, 1, -1, 1>> \in Edges(g)
    BY <1>3 DEF Wired
  <2>2. PICK b : <<Exit(g, 1).origin, b, -1, 1>> \in Edges(g)
    BY <2>1, ExitIs
  <2>3. PICK o : o = Exit(g, 1).origin
    OBVIOUS
  <2>4. Wired(shot, m, n, f, o, b, -1, 1)
    BY <1>3, <2>2, <2>3
  <2>5. o = m + 2
    BY <2>4 DEF Wired
  <2> QED BY <1>6, <2>3, <2>5
<1>22. g.nodes[Exit(g, 2).origin].kind = kv
  <2>1. <<m + 5, 1, -1, 2>> \in Edges(g)
    BY <1>3 DEF Wired
  <2>2. PICK b : <<Exit(g, 2).origin, b, -1, 2>> \in Edges(g)
    BY <2>1, ExitIs
  <2>3. PICK o : o = Exit(g, 2).origin
    OBVIOUS
  <2>4. Wired(shot, m, n, f, o, b, -1, 2)
    BY <1>3, <2>2, <2>3
  <2>5. o = m + 5
    BY <2>4 DEF Wired
  <2> QED BY <1>6, <2>3, <2>5
<1> QED BY <1>5, <1>12, <1>13, <1>14, <1>15, <1>20, <1>21, <1>22 DEF Shaped

\* Every rank up to the last is that of a reference that the run makes.
LEMMA RankReached ==
  ASSUME NEW shot, NEW n \in Nat, NEW i \in 1..Rank(shot, n)
  PROVE  \E k \in 1..n : shot.refs[k].source # {} /\ Rank(shot, k) = i
<1>1. /\ \A k \in 0..n : Rank(shot, k) \in Nat
      /\ Rank(shot, 0) = 0
      /\ \A k \in 1..n : Rank(shot, k) = IF shot.refs[k].source # {} THEN Rank(shot, k - 1) + 1 ELSE Rank(shot, k - 1)
  BY RankIs
<1>2. PICK made, rk : made = [k \in 1..n |-> shot.refs[k].source # {}] /\ rk = [k \in 0..n |-> Rank(shot, k)]
  OBVIOUS
<1>3. /\ \A k \in 0..n : rk[k] \in Nat
      /\ rk[0] = 0
      /\ \A k \in 1..n : rk[k] = IF made[k] THEN rk[k - 1] + 1 ELSE rk[k - 1]
  <2>1. \A k \in 1..n : k \in 0..n /\ k - 1 \in 0..n
    OBVIOUS
  <2>2. 0 \in 0..n
    OBVIOUS
  <2> QED BY <1>1, <1>2, <2>1, <2>2
<1> DEFINE S == {m \in 0..n : \A j \in 1..rk[m] : \E k \in 1..m : made[k] /\ rk[k] = j}
<1>4. 0 \in S
  BY <1>3
<1>5. ASSUME NEW m \in 1..n, m - 1 \in S PROVE m \in S
  <2>1. PICK a \in Nat, b \in Nat : a = rk[m - 1] /\ b = rk[m]
    <3>1. m - 1 \in 0..n /\ m \in 0..n
      OBVIOUS
    <3> QED BY <1>3, <3>1
  <2>2. \A j \in 1..a : \E k \in 1..(m - 1) : made[k] /\ rk[k] = j
    BY <1>5, <2>1
  <2>3. b = IF made[m] THEN a + 1 ELSE a
    BY <1>3, <2>1
  <2>4. ASSUME NEW j \in 1..b PROVE \E k \in 1..m : made[k] /\ rk[k] = j
    <3>1. CASE j \in 1..a
      <4>1. PICK k \in 1..(m - 1) : made[k] /\ rk[k] = j
        BY <2>2, <3>1
      <4>2. k \in 1..m
        OBVIOUS
      <4> QED BY <4>1, <4>2
    <3>2. CASE j \notin 1..a
      <4>1. made[m] /\ j = b
        BY <2>1, <2>3, <3>2
      <4>2. m \in 1..m
        OBVIOUS
      <4> QED BY <2>1, <4>1, <4>2
    <3> QED BY <3>1, <3>2
  <2>5. m \in 0..n
    OBVIOUS
  <2> QED BY <2>1, <2>4, <2>5
<1>6. n \in S
  <2> HIDE DEF S
  <2>1. n \in 0..n
    OBVIOUS
  <2> QED BY <1>4, <1>5, <2>1, UpTo
<1>7. rk[n] = Rank(shot, n)
  BY <1>2
<1>8. PICK k \in 1..n : made[k] /\ rk[k] = i
  BY <1>6, <1>7
<1>9. k \in 0..n
  OBVIOUS
<1> QED BY <1>2, <1>8, <1>9

\* What the shot is fed with comes from where its images are made.
LEMMA MeetsAre ==
  ASSUME NEW p, NEW shot, OneEach(shot), NEW m, \A a \in ToSet(SourcesOf(shot)) : m[a] = Place(p, a), NEW t
  PROVE  Fetched(m, shot, t) = Meets(p, shot, t)
<1>1. PICK n \in Nat : n = Len(shot.refs) /\ DOMAIN shot.refs = 1..n
  <2>1. Len(shot.refs) \in Nat /\ DOMAIN shot.refs = 1..Len(shot.refs)
    BY DEF OneEach
  <2> QED BY <2>1
<1>2. PICK r \in Nat : r = Rank(shot, n)
  <2>1. n \in 0..n
    OBVIOUS
  <2> QED BY <2>1, RankIs
<1>3. PICK s : s = SourcesOf(shot)
  OBVIOUS
<1>4. /\ Len(s) = r /\ DOMAIN s = 1..r
      /\ \A k \in 1..n : shot.refs[k].source # {} => Rank(shot, k) \in 1..r /\ shot.refs[k].source = {s[Rank(shot, k)]}
  <2>1. /\ \E A : s \in Seq(A)
        /\ Len(s) = r
        /\ \A k \in 1..n : shot.refs[k].source # {} => Rank(shot, k) \in 1..r /\ shot.refs[k].source = {s[Rank(shot, k)]}
    BY <1>1, <1>2, <1>3, SourcesList
  <2> QED BY <2>1
<1>5. \A i \in 1..r : m[s[i]] = Place(p, s[i])
  BY <1>3, <1>4 DEF ToSet
<1>6. ASSUME NEW k \in 1..n, shot.refs[k].source # {}
      PROVE  Rank(shot, k) \in 1..r /\ m[s[Rank(shot, k)]] = Place(p, SourceOf(shot, k))
  <2>1. PICK i \in 1..r : i = Rank(shot, k) /\ shot.refs[k].source = {s[i]}
    BY <1>4, <1>6
  <2>2. SourceOf(shot, k) = s[i]
    BY <2>1 DEF SourceOf
  <2> QED BY <1>5, <2>1, <2>2
<1>7. ASSUME NEW z PROVE (\E i \in 1..r : z = <<m[s[i]], 1, t, 2 + i>>) <=> z \in Meets(p, shot, t)
  <2>1. z \in Meets(p, shot, t)
          <=> \E k \in 1..n : shot.refs[k].source # {} /\ z = <<Place(p, SourceOf(shot, k)), 1, t, 2 + Rank(shot, k)>>
    BY <1>1 DEF Meets, Sourcing
  <2>2. ASSUME NEW i \in 1..r, z = <<m[s[i]], 1, t, 2 + i>> PROVE z \in Meets(p, shot, t)
    <3>1. PICK k \in 1..n : shot.refs[k].source # {} /\ Rank(shot, k) = i
      BY <1>2, RankReached
    <3> QED BY <1>6, <2>1, <2>2, <3>1
  <2>3. ASSUME NEW k \in 1..n, shot.refs[k].source # {}, z = <<Place(p, SourceOf(shot, k)), 1, t, 2 + Rank(shot, k)>>
        PROVE  \E i \in 1..r : z = <<m[s[i]], 1, t, 2 + i>>
    <3>1. Rank(shot, k) \in 1..r /\ m[s[Rank(shot, k)]] = Place(p, SourceOf(shot, k))
      BY <1>6, <2>3
    <3> QED BY <2>3, <3>1
  <2> QED BY <2>1, <2>2, <2>3
<1> QED BY <1>1, <1>2, <1>3, <1>7 DEF Fetched

\* Where the image of a shot is.
LEMMA PlaceOfShot ==
  ASSUME NEW p, IsPlan(p), Problem(p) = "none", NEW j \in DOMAIN p.shots
  PROVE  p.shots[j].asset \notin SharedOf(p) /\ Place(p, p.shots[j].asset) = Base(p) + j
<1>1. /\ p.shots[j].asset \notin SharedOf(p)
      /\ \A i \in DOMAIN p.shots : p.shots[i].asset = p.shots[j].asset => i = j
  BY OneItemEach
<1>2. PICK i : i = CHOOSE x \in DOMAIN p.shots : p.shots[x].asset = p.shots[j].asset
  OBVIOUS
<1>3. i \in DOMAIN p.shots /\ p.shots[i].asset = p.shots[j].asset
  BY <1>2
<1>4. i = j
  BY <1>1, <1>3
<1> QED BY <1>1, <1>2, <1>4 DEF Place

LEMMA StartLaid ==
  ASSUME NEW p, NEW g, StartNodes(p, g)
  PROVE  Laid(p, g, 0)
<1>1. \A j : j \notin 1..0
  OBVIOUS
<1>2. UNION {Plugged(Base(p) + j) \cup Meets(p, p.shots[j], Base(p) + j) : j \in 1..0} = {}
  BY <1>1
<1>3. KindsLaid(p, g, 0)
  BY <1>1 DEF KindsLaid, StartNodes
<1>4. Edges(g) = LinksLaid(p, 0)
  BY <1>2 DEF LinksLaid, StartNodes
<1> QED BY <1>3, <1>4 DEF Laid

LEMMA BeginCompileDrawn ==
  ASSUME DraftInv, Handed, LinksInv, BeginCompile
  PROVE  UiDrawn'
<1>1. phase = "planned" /\ stage = "idle" /\ subgraphs = << >>
  BY DEF BeginCompile, DraftInv
<1>2. CASE ~Compilable /\ Fail
  BY <1>2 DEF Fail, UiDrawn
<1>3. CASE Compilable
  <2>1. /\ stage' = "ui" /\ plan' = plan /\ subgraphs' = << >>
        /\ uiMade' = [a \in {plan.shared[k].asset : k \in DOMAIN plan.shared} |->
                        3 + CHOOSE k \in DOMAIN plan.shared : plan.shared[k].asset = a]
    BY <1>1, <1>3 DEF BeginCompile, planVars
  <2>2. Laid(plan, ui', 0)
    BY <2>1, BeginCompileLinks, StartLaid
  <2>3. \A a \in DOMAIN uiMade' : uiMade'[a] = Place(plan, a)
    <3>1. {plan.shared[k].asset : k \in DOMAIN plan.shared} = SharedOf(plan)
      BY DEF SharedOf, ToSet
    <3> QED BY <2>1, <3>1 DEF Place
  <2>4. << >> \in Seq({}) /\ Len(<< >>) = 0 /\ \A j : j \notin 1..0
    OBVIOUS
  <2>5. IsSequence(<< >>)
    BY <2>4 DEF IsSequence
  <2> QED BY <2>1, <2>2, <2>3, <2>4, <2>5 DEF UiDrawn
<1> QED BY <1>2, <1>3 DEF BeginCompile

\* An instance of the next shot of the plan.
LEMMA NextLaid ==
  ASSUME NEW p, IsPlan(p), NEW g, NEW m, NEW c \in Nat, NEW shot, shot = p.shots[c + 1], OneEach(shot),
         Laid(p, g, c), Len(g.nodes) = Base(p) + c, NEW n, n = Len(g.nodes) + 1,
         \A a \in ToSet(SourcesOf(shot)) : m[a] = Place(p, a),
         NEW d, NEW h, InstanceNodes(g, m, shot, d, n, h)
  PROVE  Laid(p, h, c + 1) /\ Shaped(d, shot)
<1>1. PICK b \in Nat, l \in Nat : b = Base(p) /\ l = Len(p.shared) /\ b = 3 + l
  <2>1. Len(p.shared) \in Nat
    BY DEF IsPlan, IsSequence
  <2> QED BY <2>1 DEF Base
<1>2. n = b + (c + 1) /\ Len(g.nodes) = b + c
  <2>1. Len(g.nodes) = b + c
    BY <1>1, Zenon
  <2>2. n = (b + c) + 1
    BY <2>1, Zenon
  <2>3. (b + c) + 1 = b + (c + 1)
    OBVIOUS
  <2> QED BY <2>1, <2>2, <2>3, Zenon
<1>3. \A i \in 1..(b + c) : h.nodes[i].kind = g.nodes[i].kind
  BY <1>2 DEF InstanceNodes, Extends
<1>4. KindsLaid(p, h, c + 1)
  <2>1. /\ g.nodes[1].kind = Single("Input") /\ g.nodes[2].kind = Single("ExecutionPolicy")
        /\ g.nodes[3].kind = Single("Director")
        /\ \A k \in 1..l : g.nodes[3 + k].kind = Shared(p.shared[k].asset)
        /\ \A j \in 1..c : g.nodes[b + j].kind = ShotKind(p.shots[j])
    BY <1>1 DEF Laid, KindsLaid
  <2>2. /\ 1 \in 1..(b + c) /\ 2 \in 1..(b + c) /\ 3 \in 1..(b + c)
        /\ (\A k \in 1..l : 3 + k \in 1..(b + c)) /\ (\A j \in 1..c : b + j \in 1..(b + c))
    BY <1>1
  <2>3. h.nodes[b + (c + 1)].kind = ShotKind(p.shots[c + 1])
    BY <1>2 DEF InstanceNodes, ShotKind
  <2>4. \A j \in 1..(c + 1) : j \in 1..c \/ j = c + 1
    OBVIOUS
  <2>5. \A j \in 1..(c + 1) : h.nodes[b + j].kind = ShotKind(p.shots[j])
    BY <1>3, <2>1, <2>2, <2>3, <2>4
  <2> QED BY <1>1, <1>3, <2>1, <2>2, <2>5 DEF KindsLaid
<1>5. Edges(h) = Edges(g) \cup Plugged(n) \cup Meets(p, shot, n)
  <2>1. Fetched(m, shot, n) = Meets(p, shot, n)
    BY MeetsAre, Zenon
  <2> QED BY <2>1 DEF InstanceNodes
<1>6. PICK W : W = [j \in 1..(c + 1) |-> Plugged(b + j) \cup Meets(p, p.shots[j], b + j)]
  OBVIOUS
<1>7. LinksLaid(p, c + 1) = LinksLaid(p, c) \cup W[c + 1]
  <2>1. \A j : j \in 1..(c + 1) <=> j \in 1..c \/ j = c + 1
    OBVIOUS
  <2>2. /\ \A j \in 1..(c + 1) : Plugged(b + j) \cup Meets(p, p.shots[j], b + j) = W[j]
        /\ \A j \in 1..c : Plugged(b + j) \cup Meets(p, p.shots[j], b + j) = W[j]
    BY <1>6, <2>1
  <2>3. UNION {W[j] : j \in 1..(c + 1)} = (UNION {W[j] : j \in 1..c}) \cup W[c + 1]
    BY <2>1
  <2>4. {Plugged(b + j) \cup Meets(p, p.shots[j], b + j) : j \in 1..(c + 1)} = {W[j] : j \in 1..(c + 1)}
    BY <2>2
  <2>5. {Plugged(b + j) \cup Meets(p, p.shots[j], b + j) : j \in 1..c} = {W[j] : j \in 1..c}
    BY <2>2
  <2>6. PICK A : A = {<<1, 1, 3, 1>>, <<2, 1, 3, 2>>} \cup (UNION {Plugged(3 + k) : k \in 1..Len(p.shared)})
    OBVIOUS
  <2>7. LinksLaid(p, c + 1) = A \cup UNION {W[j] : j \in 1..(c + 1)}
    BY <1>1, <2>4, <2>6, Zenon DEF LinksLaid
  <2>8. LinksLaid(p, c) = A \cup UNION {W[j] : j \in 1..c}
    BY <1>1, <2>5, <2>6, Zenon DEF LinksLaid
  <2> QED BY <2>3, <2>7, <2>8
<1>8. W[c + 1] = Plugged(n) \cup Meets(p, shot, n)
  BY <1>2, <1>6
<1>9. Edges(h) = LinksLaid(p, c + 1)
  BY <1>5, <1>7, <1>8 DEF Laid
<1>10. Shaped(d, shot)
  <2>1. PICK mm \in Nat : \E s : Drawn(d, shot, mm, s)
    BY DEF InstanceNodes
  <2>2. PICK ss : Drawn(d, shot, mm, ss)
    BY <2>1
  <2>3. d \in Level(KindsOf(shot)) /\ shot.refs \in Seq(ToSet(shot.refs))
    BY DEF InstanceNodes, OneEach
  <2> QED BY <2>2, <2>3, DrawnShaped
<1> QED BY <1>4, <1>9, <1>10 DEF Laid

LEMMA UiShotDrawn ==
  ASSUME DraftInv, Handed, ShownInv, LinksInv, UiDrawn, UiShot
  PROVE  UiDrawn'
<1>1. stage = "ui" /\ Problem(plan) = "none"
  BY DEF UiShot, ShownInv
<1>2. CASE Fail
  BY <1>2 DEF Fail, UiDrawn
<1>3. CASE ~Fail
  <2>1. PICK c, d, n : /\ c \in Nat /\ c = Len(subgraphs) /\ c + 1 <= Len(plan.shots)
                       /\ Instantiates(plan, ui, uiMade, c, plan.shots[c + 1], d, n, ui')
                       /\ stage = "ui" /\ stage' = "ui" /\ plan' = plan /\ subgraphs' = Append(subgraphs, d)
                       /\ uiMade' = Put(uiMade, plan.shots[c + 1].asset, n)
    BY <1>3, UiShotAdds, Zenon
  <2>2. PICK p, g, m, h, shot : p = plan /\ g = ui /\ m = uiMade /\ h = ui' /\ shot = p.shots[c + 1]
    OBVIOUS
  <2>3. Instantiates(p, g, m, c, shot, d, n, h) /\ c \in Nat
    BY <2>1, <2>2
  <2>4. InstanceNodes(g, m, shot, d, n, h)
    BY <2>3, NextInstance
  <2>5. /\ IsPlan(p) /\ OneEach(shot) /\ Assembling(p, g, m, c) /\ ToSet(SourcesOf(shot)) \subseteq DOMAIN m
        /\ n = Len(g.nodes) + 1
    BY <2>3 DEF Instantiates
  <2>6. Len(g.nodes) = Base(p) + c
    BY <2>5 DEF Assembling, Base
  <2>7. Laid(p, g, c) /\ \A a \in DOMAIN m : m[a] = Place(p, a)
    BY <2>1, <2>2 DEF UiDrawn
  <2>8. \A a \in ToSet(SourcesOf(shot)) : m[a] = Place(p, a)
    BY <2>5, <2>7
  <2>9. Laid(p, h, c + 1) /\ Shaped(d, shot)
    <3>1. shot = p.shots[c + 1]
      BY <2>2
    <3> QED BY <2>3, <2>4, <2>5, <2>6, <2>7, <2>8, <3>1, NextLaid, Zenon
  <2>10. n = Place(p, shot.asset)
    <3>1. c + 1 \in DOMAIN p.shots
      <4>1. Len(p.shots) \in Nat /\ DOMAIN p.shots = 1..Len(p.shots)
        BY <2>5 DEF IsPlan, IsSequence
      <4>2. c + 1 \in 1..Len(p.shots)
        BY <2>1, <2>2, <4>1
      <4> QED BY <4>1, <4>2
    <3>2. PICK j \in DOMAIN p.shots : j = c + 1
      BY <3>1
    <3>3. Place(p, p.shots[j].asset) = Base(p) + j
      BY <1>1, <2>2, <2>5, PlaceOfShot
    <3>4. Base(p) \in Nat
      BY <2>5 DEF Base, IsPlan, IsSequence
    <3>5. n = (Base(p) + c) + 1
      BY <2>5, <2>6, Zenon
    <3>6. (Base(p) + c) + 1 = Base(p) + (c + 1)
      BY <2>1, <3>4
    <3> QED BY <2>2, <3>2, <3>3, <3>5, <3>6, Zenon
  <2>11. \A a \in DOMAIN uiMade' : uiMade'[a] = Place(p, a)
    <3>1. uiMade' = [y \in DOMAIN m \cup {shot.asset} |-> IF y = shot.asset THEN n ELSE m[y]]
      BY <2>1, <2>2 DEF Put
    <3> QED BY <2>7, <2>10, <3>1
  <2>12. PICK T : subgraphs \in Seq(T)
    BY <1>1 DEF UiDrawn, IsSequence
  <2>13. /\ IsSequence(subgraphs') /\ Len(subgraphs') = c + 1
         /\ \A j \in 1..(c + 1) : Shaped(subgraphs'[j], p.shots[j])
    <3>1. PICK s \in Seq(T) : s = subgraphs
      BY <2>12
    <3>2. PICK t : t = Append(s, d)
      OBVIOUS
    <3>3. /\ t \in Seq(T \cup {d}) /\ Len(t) = Len(s) + 1
          /\ \A i \in 1..Len(s) : t[i] = s[i]
          /\ t[Len(s) + 1] = d
      BY <3>2, AppendAt
    <3>4. Len(s) = c
      BY <2>1, <3>1
    <3>5. \A j \in 1..c : Shaped(s[j], p.shots[j])
      BY <1>1, <2>2, <3>1, <3>4 DEF UiDrawn
    <3>6. t[c + 1] = d /\ \A j \in 1..c : t[j] = s[j]
      BY <3>3, <3>4
    <3>7. \A j \in 1..(c + 1) : j \in 1..c \/ j = c + 1
      BY <2>1
    <3>8. \A j \in 1..(c + 1) : Shaped(t[j], p.shots[j])
      BY <2>2, <2>9, <3>5, <3>6, <3>7, Zenon
    <3>9. subgraphs' = t /\ Len(t) = c + 1 /\ IsSequence(t)
      BY <2>1, <3>1, <3>2, <3>3, <3>4 DEF IsSequence
    <3> QED BY <3>8, <3>9
  <2> QED BY <2>1, <2>2, <2>9, <2>11, <2>13 DEF UiDrawn
<1> QED BY <1>2, <1>3

LEMMA UiEndFinished ==
  ASSUME DraftInv, Handed, ShownInv, LinksInv, UiDrawn, UiEnd
  PROVE  UiDrawn'
<1>1. /\ stage = "ui" /\ stage' = "api" /\ phase = "planned" /\ Len(subgraphs) = Len(plan.shots)
      /\ plan' = plan /\ subgraphs' = subgraphs
  BY DEF UiEnd, DraftInv, planVars
<1>2. PICK p, g, m, h, a, n : /\ p = plan /\ g = ui /\ m = uiMade /\ h = ui' /\ a = Len(g.nodes) + 1
                              /\ n = Len(p.shots)
  OBVIOUS
<1>3. IsPlan(p)
  BY <1>1, <1>2, PlannedIsSingular
<1>4. FinishNodes(p, g, a, h)
  BY <1>2, UiEndLinks
<1>5. PICK b \in Nat, l \in Nat : b = Base(p) /\ l = Len(p.shared) /\ b = 3 + l /\ n \in Nat /\ DOMAIN p.shots = 1..n
  <2>1. Len(p.shared) \in Nat /\ Len(p.shots) \in Nat /\ DOMAIN p.shots = 1..Len(p.shots)
    BY <1>3 DEF IsPlan, IsSequence
  <2> QED BY <1>2, <2>1 DEF Base
<1>6. Laid(p, g, n)
  BY <1>1, <1>2 DEF UiDrawn
<1>7. Len(g.nodes) = b + n
  <2>1. Assembling(p, g, m, n)
    BY <1>1, <1>2 DEF LinksInv
  <2>2. Len(g.nodes) = 3 + Len(p.shared) + n
    BY <2>1 DEF Assembling
  <2> QED BY <1>5, <2>2
<1>8. PICK x : x = b + n + 1
  OBVIOUS
<1>9. a = x /\ Len(h.nodes) = x + 1
  <2>1. a = (b + n) + 1 /\ Len(h.nodes) = (b + n) + 2
    BY <1>2, <1>4, <1>7, Zenon DEF FinishNodes
  <2>2. (b + n) + 1 = x /\ (b + n) + 2 = x + 1
    BY <1>5, <1>8
  <2> QED BY <2>1, <2>2
<1>10. \A i \in 1..(b + n) : h.nodes[i].kind = g.nodes[i].kind
  BY <1>4, <1>7 DEF FinishNodes
<1>11. KindsLaid(p, h, n)
  <2>1. /\ g.nodes[1].kind = Single("Input") /\ g.nodes[2].kind = Single("ExecutionPolicy")
        /\ g.nodes[3].kind = Single("Director")
        /\ \A k \in 1..l : g.nodes[3 + k].kind = Shared(p.shared[k].asset)
        /\ \A j \in 1..n : g.nodes[b + j].kind = ShotKind(p.shots[j])
    BY <1>5, <1>6 DEF Laid, KindsLaid
  <2>2. /\ 1 \in 1..(b + n) /\ 2 \in 1..(b + n) /\ 3 \in 1..(b + n)
        /\ (\A k \in 1..l : 3 + k \in 1..(b + n)) /\ (\A j \in 1..n : b + j \in 1..(b + n))
    BY <1>5
  <2> QED BY <1>5, <1>10, <2>1, <2>2 DEF KindsLaid
<1>12. Edges(h) = LinksLaid(p, n) \cup Plugged(x) \cup Told(Base(p), n, x)
                  \cup Plugged(x + 1) \cup {<<x, 1, x + 1, 3>>}
  <2>1. Edges(g) = LinksLaid(p, n)
    BY <1>6 DEF Laid
  <2>2. 3 + Len(p.shared) = Base(p)
    BY DEF Base
  <2>3. Edges(h) = Edges(g) \cup Plugged(a) \cup Told(3 + Len(p.shared), Len(p.shots), a)
                   \cup Plugged(a + 1) \cup {<<a, 1, a + 1, 3>>}
    BY <1>4, Zenon DEF FinishNodes
  <2>4. Len(p.shots) = n /\ a = x
    BY <1>2, <1>9
  <2> QED BY <2>1, <2>2, <2>3, <2>4, Zenon
<1>13. Whole(p, h)
  <2>1. h.nodes[x].kind = Single("StoryAssemble") /\ h.nodes[x + 1].kind = Single("RunManifest")
    BY <1>4, <1>9 DEF FinishNodes
  <2>2. Base(p) + Len(p.shots) + 1 = x
    BY <1>2, <1>5, <1>8
  <2> QED BY <1>2, <1>9, <1>11, <1>12, <2>1, <2>2 DEF Whole
<1>14. \A j \in DOMAIN p.shots : Fed(p, j)
  BY <1>1, <1>2, <1>5 DEF ShownInv
<1>15. IsSequence(subgraphs) /\ \A j \in 1..Len(subgraphs) : Shaped(subgraphs[j], plan.shots[j])
  BY <1>1 DEF UiDrawn
<1> QED BY <1>1, <1>2, <1>13, <1>14, <1>15 DEF UiDrawn

LEMMA DrawnInit == Init => UiDrawn /\ ApiDrawn
BY DEF Init, CompileInit, UiDrawn, ApiDrawn

LEMMA UiDrawnKept ==
  ASSUME DraftInv, Handed, ShownInv, LinksInv, UiDrawn, [(PlanNext /\ UNCHANGED compileVars) \/ CompileNext]_vars
  PROVE  UiDrawn'
<1>1. CASE UNCHANGED vars
  BY <1>1 DEF vars, planVars, compileVars, UiDrawn
<1>2. CASE PlanNext /\ UNCHANGED compileVars
  <2>1. phase # "planned"
    BY <1>2 DEF PlanNext, BeginDraft, DraftShot, EndDraft, CheckGraph, ResolveLayer, Accept
  <2>2. stage' = "idle"
    BY <1>2, <2>1 DEF DraftInv, compileVars
  <2> QED BY <2>2 DEF UiDrawn
<1>3. CASE ApiShot \/ ApiEnd
  <2>1. /\ stage = "api" /\ stage' \in {"api", "done"} /\ plan' = plan /\ ui' = ui
        /\ subgraphs' = subgraphs
    BY <1>3, Zenon DEF ApiShot, ApiEnd, planVars
  <2> QED BY <2>1 DEF UiDrawn
<1> QED BY <1>1, <1>2, <1>3, BeginCompileDrawn, UiShotDrawn, UiEndFinished DEF CompileNext

-----------------------------------------------------------------------------
(* Both outputs are one graph                                                *)

\* The node behind output os of node o, and what the link x of the UI graph brings, when each
\* instance in it is replaced by its subgraph.
FedFrom(p, g, D, o, os) ==
  IF g.nodes[o].kind.class = "Shot"
  THEN D[o - 3 - Len(p.shared)].nodes[Exit(D[o - 3 - Len(p.shared)], os).origin].kind ELSE g.nodes[o].kind
Delivers(p, g, D, x) ==
  IF g.nodes[x[3]].kind.class = "Shot"
  THEN {<<FedFrom(p, g, D, x[1], x[2]), y[1], y[2]>> : y \in Entries(D[x[3] - 3 - Len(p.shared)], x[4])}
  ELSE {<<FedFrom(p, g, D, x[1], x[2]), g.nodes[x[3]].kind, x[4]>>}

LEMMA OriginKindIs ==
  ASSUME NEW k
  PROVE  OriginKind(k) = FedFrom(plan, ui, subgraphs, k.origin, k.oslot)
BY DEF OriginKind, FedFrom, IsShot, Inside, Exit, LinksOf

\* The links between nodes that are no instance, and those that go into one.
PlainEdges == {<<OriginKind(k), ui.nodes[k.target].kind, k.tslot>> : k \in {x \in LinksOf(ui) : ~IsShot(x.target)}}
EntryEdges(k) ==
  {<<OriginKind(k), Inside(k.target).nodes[e.target].kind, e.tslot>> :
     e \in {y \in LinksOf(Inside(k.target)) : y.origin = 0 /\ y.oslot = k.tslot}}

LEMMA EntryEdgesAre ==
  ASSUME NEW k, NEW z
  PROVE  z \in EntryEdges(k) <=> \E y \in Entries(Inside(k.target), k.tslot) : z = <<OriginKind(k), y[1], y[2]>>
<1>1. PICK d, o, s, E : d = Inside(k.target) /\ o = OriginKind(k) /\ s = k.tslot
                        /\ E = {y \in ToSet(d.links) : y.origin = 0 /\ y.oslot = s}
  OBVIOUS
<1>2. z \in EntryEdges(k) <=> \E e \in E : z = <<o, d.nodes[e.target].kind, e.tslot>>
  BY <1>1 DEF EntryEdges, LinksOf
<1>3. \A y : y \in Entries(d, s) <=> \E e \in E : y = <<d.nodes[e.target].kind, e.tslot>>
  BY <1>1 DEF Entries
<1>4. ASSUME NEW e \in E, z = <<o, d.nodes[e.target].kind, e.tslot>>
      PROVE  \E y \in Entries(d, s) : z = <<o, y[1], y[2]>>
  <2>1. PICK y : y = <<d.nodes[e.target].kind, e.tslot>>
    OBVIOUS
  <2>2. y \in Entries(d, s) /\ y[1] = d.nodes[e.target].kind /\ y[2] = e.tslot
    BY <1>3, <2>1
  <2> QED BY <1>4, <2>2
<1>5. ASSUME NEW y \in Entries(d, s), z = <<o, y[1], y[2]>>
      PROVE  \E e \in E : z = <<o, d.nodes[e.target].kind, e.tslot>>
  <2>1. PICK e \in E : y = <<d.nodes[e.target].kind, e.tslot>>
    BY <1>3
  <2> QED BY <1>5, <2>1
<1> QED BY <1>1, <1>2, <1>4, <1>5

\* The edges of the UI graph, by its links.
LEMMA UiEdgesAre ==
  ASSUME NEW K, ui \in Level(K), NEW z
  PROVE  z \in UiEdges <=> \/ \E x \in Edges(ui) : z \in Delivers(plan, ui, subgraphs, x)
                           \/ \E d \in ToSet(subgraphs) : z \in Inner(d)
<1>1. PICK W, S : W = ToSet(ui.links) /\ S = {k \in W : IsShot(k.target)}
  OBVIOUS
<1>2. z \in UiEdges <=> \/ z \in PlainEdges \/ (\E k \in S : z \in EntryEdges(k)) \/ \E d \in ToSet(subgraphs) : z \in Inner(d)
  <2>1. UiEdges = PlainEdges \cup UNION ({EntryEdges(k) : k \in S} \cup {Inner(d) : d \in ToSet(subgraphs)})
    BY <1>1 DEF UiEdges, PlainEdges, EntryEdges, Inner, LinksOf
  <2> QED BY <2>1
<1>3. z \in PlainEdges <=> \E k \in W : ~IsShot(k.target) /\ z = <<OriginKind(k), ui.nodes[k.target].kind, k.tslot>>
  BY <1>1 DEF PlainEdges, LinksOf
<1>4. ASSUME NEW k, NEW x, x = <<k.origin, k.oslot, k.target, k.tslot>>
      PROVE  z \in Delivers(plan, ui, subgraphs, x)
               <=> IF IsShot(k.target) THEN z \in EntryEdges(k)
                   ELSE z = <<OriginKind(k), ui.nodes[k.target].kind, k.tslot>>
  <2>1. x[1] = k.origin /\ x[2] = k.oslot /\ x[3] = k.target /\ x[4] = k.tslot
    BY <1>4
  <2>2. PICK o : o = OriginKind(k) /\ o = FedFrom(plan, ui, subgraphs, x[1], x[2])
    BY <2>1, OriginKindIs
  <2>3. PICK E : E = Entries(Inside(k.target), k.tslot)
    OBVIOUS
  <2>4. Delivers(plan, ui, subgraphs, x) = IF IsShot(k.target) THEN {<<o, y[1], y[2]>> : y \in E}
                                         ELSE {<<o, ui.nodes[k.target].kind, k.tslot>>}
    BY <2>1, <2>2, <2>3, Zenon DEF Delivers, IsShot, Inside
  <2>5. z \in EntryEdges(k) <=> \E y \in E : z = <<o, y[1], y[2]>>
    BY <2>2, <2>3, EntryEdgesAre
  <2> QED BY <2>2, <2>4, <2>5
<1>5. /\ \A k \in W : <<k.origin, k.oslot, k.target, k.tslot>> \in Edges(ui)
      /\ \A x \in Edges(ui) : \E k \in W : x = <<k.origin, k.oslot, k.target, k.tslot>>
  BY <1>1, WiresAre
<1>6. (\E x \in Edges(ui) : z \in Delivers(plan, ui, subgraphs, x)) <=> z \in PlainEdges \/ \E k \in S : z \in EntryEdges(k)
  <2>1. ASSUME NEW x \in Edges(ui), z \in Delivers(plan, ui, subgraphs, x)
        PROVE  z \in PlainEdges \/ \E k \in S : z \in EntryEdges(k)
    <3>1. PICK k \in W : x = <<k.origin, k.oslot, k.target, k.tslot>>
      BY <1>5
    <3>2. IF IsShot(k.target) THEN z \in EntryEdges(k) ELSE z = <<OriginKind(k), ui.nodes[k.target].kind, k.tslot>>
      BY <1>4, <2>1, <3>1
    <3> QED BY <1>1, <1>3, <3>2
  <2>2. ASSUME NEW k \in W, IF IsShot(k.target) THEN z \in EntryEdges(k)
                            ELSE z = <<OriginKind(k), ui.nodes[k.target].kind, k.tslot>>
        PROVE  \E x \in Edges(ui) : z \in Delivers(plan, ui, subgraphs, x)
    <3>1. PICK x : x = <<k.origin, k.oslot, k.target, k.tslot>>
      OBVIOUS
    <3>2. x \in Edges(ui)
      BY <1>5, <3>1
    <3>3. z \in Delivers(plan, ui, subgraphs, x)
      BY <1>4, <2>2, <3>1
    <3> QED BY <3>2, <3>3
  <2> QED BY <1>1, <1>3, <2>1, <2>2
<1> QED BY <1>2, <1>6

\* A plan whose UI graph g, with the subgraphs D, is complete.
Complete(p, g, D) ==
  /\ IsPlan(p) /\ Singular(p) /\ Problem(p) = "none" /\ \A j \in DOMAIN p.shots : Fed(p, j)
  /\ Whole(p, g) /\ Len(D) = Len(p.shots) /\ \A j \in 1..Len(D) : Shaped(D[j], p.shots[j])

\* Its nodes that are no instance, and its instances, behind node b: the story is a.
Placed(p, g, n, l, b, a) ==
  /\ n \in Nat /\ l \in Nat /\ b = 3 + l /\ DOMAIN p.shots = 1..n /\ DOMAIN p.shared = 1..l
  /\ g.nodes[1].kind = Single("Input") /\ g.nodes[2].kind = Single("ExecutionPolicy")
  /\ g.nodes[3].kind = Single("Director")
  /\ \A k \in 1..l : g.nodes[3 + k].kind = Shared(p.shared[k].asset)
  /\ \A j \in 1..n : g.nodes[b + j].kind = ShotKind(p.shots[j])
  /\ g.nodes[a].kind = Single("StoryAssemble") /\ g.nodes[a + 1].kind = Single("RunManifest")
  /\ Len(g.nodes) = a + 1

LEMMA CompleteKinds ==
  ASSUME NEW p, NEW g, NEW D, Complete(p, g, D), NEW n, n = Len(p.shots), NEW l, l = Len(p.shared),
         NEW b, b = Base(p), NEW a, a = b + n + 1
  PROVE  Placed(p, g, n, l, b, a)
<1>1. n \in Nat /\ l \in Nat /\ b = 3 + l /\ DOMAIN p.shots = 1..n /\ DOMAIN p.shared = 1..l
  BY DEF Complete, IsPlan, IsSequence, Base
<1>2. KindsLaid(p, g, n)
  BY DEF Complete, Whole
<1>3. /\ g.nodes[a].kind = Single("StoryAssemble") /\ g.nodes[a + 1].kind = Single("RunManifest")
      /\ Len(g.nodes) = a + 1
  BY Zenon DEF Complete, Whole
<1> QED BY <1>1, <1>2, <1>3, Zenon DEF KindsLaid, Placed

\* What is behind an output of a node that is no instance, and of an instance.
LEMMA FedFromPlain ==
  ASSUME NEW p, NEW g, NEW D, NEW o, NEW kd, g.nodes[o].kind = kd, kd.class # "Shot", NEW os
  PROVE  FedFrom(p, g, D, o, os) = kd
BY DEF FedFrom

LEMMA FedFromInstance ==
  ASSUME NEW p, NEW g, NEW D, Complete(p, g, D), NEW j \in 1..Len(p.shots)
  PROVE  /\ FedFrom(p, g, D, Base(p) + j, 1) = Keyframe(p.shots[j])
         /\ FedFrom(p, g, D, Base(p) + j, 2) = VideoNode(p.shots[j].id)
<1>1. PICK n, l, b, a : n = Len(p.shots) /\ l = Len(p.shared) /\ b = Base(p) /\ a = b + n + 1
  OBVIOUS
<1>2. /\ n \in Nat /\ l \in Nat /\ b = 3 + l /\ \A i \in 1..n : g.nodes[b + i].kind = ShotKind(p.shots[i])
  <2>1. Placed(p, g, n, l, b, a)
    BY <1>1, CompleteKinds, Zenon
  <2> QED BY <2>1 DEF Placed
<1>3. (b + j) - 3 - Len(p.shared) = j
  BY <1>1, <1>2
<1>4. g.nodes[b + j].kind.class = "Shot"
  <2>1. g.nodes[b + j].kind = ShotKind(p.shots[j])
    BY <1>1, <1>2
  <2> QED BY <2>1 DEF ShotKind, Kind
<1>5. \A s : FedFrom(p, g, D, b + j, s) = D[j].nodes[Exit(D[j], s).origin].kind
  BY <1>3, <1>4, Zenon DEF FedFrom
<1>6. Shaped(D[j], p.shots[j])
  BY DEF Complete
<1> QED BY <1>1, <1>5, <1>6 DEF Shaped

\* What shows an image is its maker.
LEMMA FedFromMaker ==
  ASSUME NEW p, NEW g, NEW D, Complete(p, g, D), NEW j \in 1..Len(p.shots), NEW k \in Sourcing(p.shots[j])
  PROVE  FedFrom(p, g, D, Place(p, SourceOf(p.shots[j], k)), 1) = MakerIn(p, p.shots[j], p.shots[j].refs[k])
<1>1. PICK n, l, b, c : n = Len(p.shots) /\ l = Len(p.shared) /\ b = Base(p) /\ c = b + n + 1
  OBVIOUS
<1>2. /\ n \in Nat /\ l \in Nat /\ b = 3 + l /\ DOMAIN p.shots = 1..n /\ DOMAIN p.shared = 1..l
      /\ \A i \in 1..l : g.nodes[3 + i].kind = Shared(p.shared[i].asset)
  <2>1. Placed(p, g, n, l, b, c)
    BY <1>1, CompleteKinds, Zenon
  <2> QED BY <2>1 DEF Placed
<1>3. PICK shot, r : shot = p.shots[j] /\ r = shot.refs[k]
  OBVIOUS
<1>4. IsPlan(p) /\ Problem(p) = "none" /\ Fed(p, j)
  BY <1>1, <1>2 DEF Complete
<1>5. k \in DOMAIN shot.refs /\ r.source # {}
  BY <1>3 DEF Sourcing
<1>6. PICK a : r.source = {a} /\ a = SourceOf(shot, k)
  <2>1. shot \in ToSet(p.shots)
    BY <1>1, <1>2, <1>3 DEF ToSet
  <2>2. r \in ToSet(shot.refs)
    BY <1>3, <1>5 DEF ToSet
  <2>3. \E x \in r.source : r.source = {x}
    BY <1>5, <2>1, <2>2 DEF Complete, Singular
  <2> QED BY <1>3, <2>3 DEF SourceOf
<1>7. a \in SharedOf(p) \cup {p.shots[i].asset : i \in 1..(j - 1)}
  BY <1>3, <1>4, <1>5, <1>6 DEF Fed
<1>8. CASE a \in SharedOf(p)
  <2>1. MakerIn(p, shot, r) = Shared(a)
    BY <1>4, <1>6, <1>8, MakerIs
  <2>2. PICK i : i = CHOOSE x \in DOMAIN p.shared : p.shared[x].asset = a
    OBVIOUS
  <2>3. \E x \in DOMAIN p.shared : p.shared[x].asset = a
    BY <1>8 DEF SharedOf, ToSet
  <2>4. i \in 1..l /\ p.shared[i].asset = a
    BY <1>2, <2>2, <2>3
  <2>5. Place(p, a) = 3 + i
    BY <1>8, <2>2 DEF Place
  <2>6. g.nodes[3 + i].kind = Shared(a) /\ Shared(a).class # "Shot"
    BY <1>2, <2>4 DEF Shared, Kind
  <2>7. FedFrom(p, g, D, 3 + i, 1) = Shared(a)
    BY <2>6, FedFromPlain
  <2> QED BY <1>3, <1>6, <2>1, <2>5, <2>7
<1>9. CASE a \notin SharedOf(p)
  <2>1. PICK i \in 1..(j - 1) : a = p.shots[i].asset
    BY <1>7, <1>9
  <2>2. i \in 1..n /\ i \in DOMAIN p.shots
    BY <1>1, <1>2
  <2>3. PICK s : s = p.shots[i]
    OBVIOUS
  <2>4. s \in ToSet(p.shots) /\ a = s.asset
    BY <2>1, <2>2, <2>3 DEF ToSet
  <2>5. MakerIn(p, shot, r) = Keyframe(s)
    BY <1>4, <1>6, <2>4, MakerIsShot
  <2>6. Place(p, a) = b + i
    BY <1>1, <1>4, <2>1, <2>2, PlaceOfShot
  <2>7. FedFrom(p, g, D, b + i, 1) = Keyframe(s)
    BY <1>1, <2>2, <2>3, FedFromInstance
  <2> QED BY <1>3, <1>6, <2>5, <2>6, <2>7
<1> QED BY <1>8, <1>9

\* What a link brings to a node that is no instance, and to an instance.
LEMMA PlainDelivers ==
  ASSUME NEW p, NEW g, NEW D, NEW x, NEW kd, g.nodes[x[3]].kind = kd, kd.class # "Shot"
  PROVE  Delivers(p, g, D, x) = {<<FedFrom(p, g, D, x[1], x[2]), kd, x[4]>>}
BY DEF Delivers

LEMMA InsideDelivers ==
  ASSUME NEW p, NEW g, NEW D, Complete(p, g, D), NEW j \in 1..Len(p.shots), NEW o, NEW os, NEW ts, NEW z
  PROVE  z \in Delivers(p, g, D, <<o, os, Base(p) + j, ts>>)
           <=> \E y \in Entries(D[j], ts) : z = <<FedFrom(p, g, D, o, os), y[1], y[2]>>
<1>1. PICK n, l, b, a : n = Len(p.shots) /\ l = Len(p.shared) /\ b = Base(p) /\ a = b + n + 1
  OBVIOUS
<1>2. /\ n \in Nat /\ l \in Nat /\ b = 3 + l /\ \A i \in 1..n : g.nodes[b + i].kind = ShotKind(p.shots[i])
  <2>1. Placed(p, g, n, l, b, a)
    BY <1>1, CompleteKinds, Zenon
  <2> QED BY <2>1 DEF Placed
<1>3. (b + j) - 3 - Len(p.shared) = j
  BY <1>1, <1>2
<1>4. g.nodes[b + j].kind.class = "Shot"
  <2>1. g.nodes[b + j].kind = ShotKind(p.shots[j])
    BY <1>1, <1>2
  <2> QED BY <2>1 DEF ShotKind, Kind
<1>5. PICK x : x = <<o, os, b + j, ts>>
  OBVIOUS
<1>6. x[1] = o /\ x[2] = os /\ x[3] = b + j /\ x[4] = ts
  BY <1>5
<1>7. Delivers(p, g, D, x) = {<<FedFrom(p, g, D, o, os), y[1], y[2]>> : y \in Entries(D[j], ts)}
  BY <1>3, <1>4, <1>6, Zenon DEF Delivers
<1> QED BY <1>1, <1>5, <1>7

\* One of the links E brings z.
Via(p, g, D, E, z) == \E x \in E : z \in Delivers(p, g, D, x)

LEMMA HeadsBehind ==
  ASSUME NEW p, NEW g, NEW D, Complete(p, g, D)
  PROVE  /\ FedFrom(p, g, D, 1, 1) = Single("Input") /\ FedFrom(p, g, D, 2, 1) = Single("ExecutionPolicy")
         /\ FedFrom(p, g, D, 3, 1) = Single("Director")
<1>1. PICK n, l, b, a : n = Len(p.shots) /\ l = Len(p.shared) /\ b = Base(p) /\ a = b + n + 1
  OBVIOUS
<1>2. Placed(p, g, n, l, b, a)
  BY <1>1, CompleteKinds, Zenon
<1>3. PICK x, y, w : x = Single("Input") /\ y = Single("ExecutionPolicy") /\ w = Single("Director")
  OBVIOUS
<1>4. g.nodes[1].kind = x /\ g.nodes[2].kind = y /\ g.nodes[3].kind = w
  BY <1>2, <1>3 DEF Placed
<1>5. x.class # "Shot" /\ y.class # "Shot" /\ w.class # "Shot"
  BY <1>3 DEF Single, Kind
<1> QED BY <1>3, <1>4, <1>5, FedFromPlain

\* Plan and policy are brought to the node t.
LEMMA PluggedDelivers ==
  ASSUME NEW p, NEW g, NEW D, Complete(p, g, D), NEW t, NEW kd, g.nodes[t].kind = kd, kd.class # "Shot", NEW z
  PROVE  Via(p, g, D, Plugged(t), z) <=> z \in FromHead(kd)
<1>1. PICK x, y : x = <<3, 1, t, 1>> /\ y = <<2, 1, t, 2>>
  OBVIOUS
<1>2. Plugged(t) = {x, y}
  BY <1>1 DEF Plugged
<1>3. Via(p, g, D, Plugged(t), z) <=> z \in Delivers(p, g, D, x) \/ z \in Delivers(p, g, D, y)
  BY <1>2 DEF Via
<1>4. /\ x[1] = 3 /\ x[2] = 1 /\ x[3] = t /\ x[4] = 1
      /\ y[1] = 2 /\ y[2] = 1 /\ y[3] = t /\ y[4] = 2
  BY <1>1
<1>5. Delivers(p, g, D, x) = {<<Single("Director"), kd, 1>>}
  <2>1. Delivers(p, g, D, x) = {<<FedFrom(p, g, D, x[1], x[2]), kd, x[4]>>}
    BY <1>4, PlainDelivers
  <2> QED BY <1>4, <2>1, HeadsBehind
<1>6. Delivers(p, g, D, y) = {<<Single("ExecutionPolicy"), kd, 2>>}
  <2>1. Delivers(p, g, D, y) = {<<FedFrom(p, g, D, y[1], y[2]), kd, y[4]>>}
    BY <1>4, PlainDelivers
  <2> QED BY <1>4, <2>1, HeadsBehind
<1> QED BY <1>3, <1>5, <1>6 DEF FromHead

\* The links of the UI graph, by where they lead.
HeadLinks(p) == {<<1, 1, 3, 1>>, <<2, 1, 3, 2>>} \cup UNION {Plugged(3 + k) : k \in 1..Len(p.shared)}
ShotLinks(p, j) == Plugged(Base(p) + j) \cup Meets(p, p.shots[j], Base(p) + j)
EndLinks(b, n, a) == Plugged(a) \cup Told(b, n, a) \cup Plugged(a + 1) \cup {<<a, 1, a + 1, 3>>}

\* Of the director and the shared images.
LEMMA HeadBrought ==
  ASSUME NEW p, NEW g, NEW D, Complete(p, g, D), NEW z
  PROVE  Via(p, g, D, HeadLinks(p), z) <=> z \in HeadEdges(p)
<1>1. PICK n, l, b, a : n = Len(p.shots) /\ l = Len(p.shared) /\ b = Base(p) /\ a = b + n + 1
  OBVIOUS
<1>2. Placed(p, g, n, l, b, a)
  BY <1>1, CompleteKinds, Zenon
<1>3. DOMAIN p.shared = 1..l /\ g.nodes[3].kind = Single("Director")
      /\ \A k \in 1..l : g.nodes[3 + k].kind = Shared(p.shared[k].asset)
  BY <1>2 DEF Placed
<1>4. PICK x, y, inp, pol, dir : /\ x = <<1, 1, 3, 1>> /\ y = <<2, 1, 3, 2>>
                                 /\ inp = Single("Input") /\ pol = Single("ExecutionPolicy") /\ dir = Single("Director")
  OBVIOUS
<1>5. dir.class # "Shot"
  BY <1>4 DEF Single, Kind
<1>6. Delivers(p, g, D, x) = {<<inp, dir, 1>>}
  <2>1. g.nodes[3].kind = dir /\ FedFrom(p, g, D, 1, 1) = inp
    BY <1>3, <1>4, HeadsBehind
  <2>2. x[1] = 1 /\ x[2] = 1 /\ x[3] = 3 /\ x[4] = 1
    BY <1>4
  <2>3. Delivers(p, g, D, x) = {<<FedFrom(p, g, D, x[1], x[2]), dir, x[4]>>}
    BY <1>5, <2>1, <2>2, PlainDelivers
  <2> QED BY <2>1, <2>2, <2>3
<1>7. Delivers(p, g, D, y) = {<<pol, dir, 2>>}
  <2>1. g.nodes[3].kind = dir /\ FedFrom(p, g, D, 2, 1) = pol
    BY <1>3, <1>4, HeadsBehind
  <2>2. y[1] = 2 /\ y[2] = 1 /\ y[3] = 3 /\ y[4] = 2
    BY <1>4
  <2>3. Delivers(p, g, D, y) = {<<FedFrom(p, g, D, y[1], y[2]), dir, y[4]>>}
    BY <1>5, <2>1, <2>2, PlainDelivers
  <2> QED BY <2>1, <2>2, <2>3
<1>8. ASSUME NEW k \in 1..l
      PROVE  Via(p, g, D, Plugged(3 + k), z) <=> z \in FromHead(Shared(p.shared[k].asset))
  <2>1. PICK kd, t : kd = Shared(p.shared[k].asset) /\ t = 3 + k
    OBVIOUS
  <2>2. kd.class # "Shot" /\ g.nodes[t].kind = kd
    BY <1>3, <2>1 DEF Shared, Kind
  <2>3. Via(p, g, D, Plugged(t), z) <=> z \in FromHead(kd)
    BY <2>2, PluggedDelivers
  <2> QED BY <2>1, <2>3
<1>9. Via(p, g, D, {x, y} \cup UNION {Plugged(3 + k) : k \in 1..l}, z)
        <=> z \in Delivers(p, g, D, x) \/ z \in Delivers(p, g, D, y) \/ \E k \in 1..l : Via(p, g, D, Plugged(3 + k), z)
  BY DEF Via
<1>10. z \in HeadEdges(p) <=> z = <<inp, dir, 1>> \/ z = <<pol, dir, 2>> \/ \E k \in 1..l : z \in FromHead(Shared(p.shared[k].asset))
  BY <1>3, <1>4 DEF HeadEdges
<1>11. HeadLinks(p) = {x, y} \cup UNION {Plugged(3 + k) : k \in 1..l}
  BY <1>1, <1>4 DEF HeadLinks
<1> QED BY <1>6, <1>7, <1>8, <1>9, <1>10, <1>11

\* Of the story and the manifest.
LEMMA EndBrought ==
  ASSUME NEW p, NEW g, NEW D, Complete(p, g, D), NEW n, n = Len(p.shots), NEW b, b = Base(p), NEW a, a = b + n + 1, NEW z
  PROVE  Via(p, g, D, EndLinks(b, n, a), z) <=> z \in EndEdges(p)
<1>1. PICK l : l = Len(p.shared)
  OBVIOUS
<1>2. Placed(p, g, n, l, b, a)
  BY <1>1, CompleteKinds, Zenon
<1>3. PICK sa, rm : sa = Single("StoryAssemble") /\ rm = Single("RunManifest")
  OBVIOUS
<1>4. /\ DOMAIN p.shots = 1..n /\ g.nodes[a].kind = sa /\ g.nodes[a + 1].kind = rm
      /\ sa.class # "Shot" /\ rm.class # "Shot"
  BY <1>2, <1>3 DEF Placed, Single, Kind
<1>5. Via(p, g, D, Plugged(a), z) <=> z \in FromHead(sa)
  BY <1>4, PluggedDelivers
<1>6. Via(p, g, D, Plugged(a + 1), z) <=> z \in FromHead(rm)
  BY <1>4, PluggedDelivers
<1>7. PICK e : e = <<a, 1, a + 1, 3>>
  OBVIOUS
<1>8. Delivers(p, g, D, e) = {<<sa, rm, 3>>}
  <2>1. FedFrom(p, g, D, a, 1) = sa
    BY <1>4, FedFromPlain
  <2>2. e[1] = a /\ e[2] = 1 /\ e[3] = a + 1 /\ e[4] = 3
    BY <1>7
  <2>3. Delivers(p, g, D, e) = {<<FedFrom(p, g, D, e[1], e[2]), rm, e[4]>>}
    <3>1. g.nodes[e[3]].kind = rm /\ rm.class # "Shot"
      BY <1>4, <2>2
    <3> QED BY <3>1, PlainDelivers
  <2> QED BY <2>1, <2>2, <2>3
<1>9. Via(p, g, D, Told(b, n, a), z) <=> \E i \in 1..n : z = <<VideoNode(p.shots[i].id), sa, 3 + i>>
  <2>1. Via(p, g, D, Told(b, n, a), z) <=> \E i \in 1..n : z \in Delivers(p, g, D, <<b + i, 2, a, 3 + i>>)
    BY DEF Via, Told
  <2>2. ASSUME NEW i \in 1..n
        PROVE  z \in Delivers(p, g, D, <<b + i, 2, a, 3 + i>>) <=> z = <<VideoNode(p.shots[i].id), sa, 3 + i>>
    <3>1. PICK o, s, v : o = b + i /\ s = 3 + i /\ v = VideoNode(p.shots[i].id)
      OBVIOUS
    <3>2. FedFrom(p, g, D, o, 2) = v
      BY <3>1, FedFromInstance
    <3>3. PICK x : x = <<o, 2, a, s>>
      OBVIOUS
    <3>4. x[1] = o /\ x[2] = 2 /\ x[3] = a /\ x[4] = s
      BY <3>3
    <3>5. Delivers(p, g, D, x) = {<<FedFrom(p, g, D, x[1], x[2]), sa, x[4]>>}
      <4>1. g.nodes[x[3]].kind = sa /\ sa.class # "Shot"
        BY <1>4, <3>4
      <4> QED BY <4>1, PlainDelivers
    <3>6. Delivers(p, g, D, x) = {<<v, sa, s>>}
      BY <3>2, <3>4, <3>5
    <3> QED BY <3>1, <3>3, <3>6
  <2> QED BY <2>1, <2>2
<1>10. Via(p, g, D, EndLinks(b, n, a), z)
         <=> \/ Via(p, g, D, Plugged(a), z) \/ Via(p, g, D, Told(b, n, a), z) \/ Via(p, g, D, Plugged(a + 1), z)
             \/ z \in Delivers(p, g, D, e)
  <2>1. PICK A, B, C : A = Plugged(a) /\ B = Told(b, n, a) /\ C = Plugged(a + 1)
    OBVIOUS
  <2>2. Via(p, g, D, A \cup B \cup C \cup {e}, z)
         <=> Via(p, g, D, A, z) \/ Via(p, g, D, B, z) \/ Via(p, g, D, C, z) \/ z \in Delivers(p, g, D, e)
    BY DEF Via
  <2>3. EndLinks(b, n, a) = A \cup B \cup C \cup {e}
    BY <1>7, <2>1, Zenon DEF EndLinks
  <2> QED BY <2>1, <2>2, <2>3
<1>11. z \in EndEdges(p) <=> \/ z \in FromHead(sa) \/ z \in FromHead(rm)
                             \/ \E i \in 1..n : z = <<VideoNode(p.shots[i].id), sa, 3 + i>>
                             \/ z = <<sa, rm, 3>>
  BY <1>3, <1>4 DEF EndEdges
<1> QED BY <1>5, <1>6, <1>8, <1>9, <1>10, <1>11

\* What w gives to the entries A gives z; the entry s of each node of F.
Gives(A, w, z) == \E e \in A : z = <<w, e[1], e[2]>>
Slotted(F, s) == {<<f, s>> : f \in F}

LEMMA SlottedGives ==
  ASSUME NEW F, NEW s, NEW w, NEW z
  PROVE  Gives(Slotted(F, s), w, z) <=> \E f \in F : z = <<w, f, s>>
<1>1. ASSUME NEW f \in F, z = <<w, f, s>> PROVE Gives(Slotted(F, s), w, z)
  <2>1. PICK e : e = <<f, s>>
    OBVIOUS
  <2>2. e \in Slotted(F, s) /\ e[1] = f /\ e[2] = s
    BY <2>1 DEF Slotted
  <2> QED BY <1>1, <2>2 DEF Gives
<1>2. ASSUME Gives(Slotted(F, s), w, z) PROVE \E f \in F : z = <<w, f, s>>
  <2>1. PICK e \in Slotted(F, s) : z = <<w, e[1], e[2]>>
    BY <1>2 DEF Gives
  <2> QED BY <2>1 DEF Slotted
<1> QED BY <1>1, <1>2

\* Plan and policy are brought to the nodes of an instance.
LEMMA PluggedInside ==
  ASSUME NEW p, NEW g, NEW D, Complete(p, g, D), NEW j \in 1..Len(p.shots), NEW shot, shot = p.shots[j], NEW z
  PROVE  Via(p, g, D, Plugged(Base(p) + j), z)
           <=> (\E f \in FileKinds(shot) : z \in FromHead(f)) \/ z \in FromHead(Keyframe(shot)) \/ z \in Given(shot)
<1>1. PICK t, d, F, key, pr, vid, dir, pol :
        /\ t = Base(p) + j /\ d = D[j] /\ F = FileKinds(shot) /\ key = Keyframe(shot) /\ pr = PromptOf(shot.id)
        /\ vid = VideoNode(shot.id) /\ dir = Single("Director") /\ pol = Single("ExecutionPolicy")
  OBVIOUS
<1>2. PICK x, y : x = <<3, 1, t, 1>> /\ y = <<2, 1, t, 2>>
  OBVIOUS
<1>3. Via(p, g, D, Plugged(t), z) <=> z \in Delivers(p, g, D, x) \/ z \in Delivers(p, g, D, y)
  <2>1. Plugged(t) = {x, y}
    BY <1>2 DEF Plugged
  <2> QED BY <2>1 DEF Via
<1>4. PICK A, B : A = Entries(d, 1) /\ B = Entries(d, 2)
  OBVIOUS
<1>5. /\ A = {<<f, 1>> : f \in F} \cup {<<key, 1>>, <<pr, 1>>, <<vid, 1>>}
      /\ B = {<<f, 2>> : f \in F} \cup {<<key, 2>>, <<vid, 4>>}
  <2>1. Shaped(d, shot)
    BY <1>1 DEF Complete
  <2> QED BY <1>1, <1>4, <2>1 DEF Shaped
<1>6. z \in Delivers(p, g, D, x) <=> \E e \in A : z = <<dir, e[1], e[2]>>
  <2>1. \A o, os, ts : z \in Delivers(p, g, D, <<o, os, t, ts>>) <=> \E e \in Entries(d, ts) : z = <<FedFrom(p, g, D, o, os), e[1], e[2]>>
    BY <1>1, InsideDelivers
  <2>2. z \in Delivers(p, g, D, <<3, 1, t, 1>>) <=> \E e \in Entries(d, 1) : z = <<FedFrom(p, g, D, 3, 1), e[1], e[2]>>
    BY <2>1
  <2> QED BY <1>1, <1>2, <1>4, <2>2, HeadsBehind
<1>7. z \in Delivers(p, g, D, y) <=> \E e \in B : z = <<pol, e[1], e[2]>>
  <2>1. \A o, os, ts : z \in Delivers(p, g, D, <<o, os, t, ts>>) <=> \E e \in Entries(d, ts) : z = <<FedFrom(p, g, D, o, os), e[1], e[2]>>
    BY <1>1, InsideDelivers
  <2>2. z \in Delivers(p, g, D, <<2, 1, t, 2>>) <=> \E e \in Entries(d, 2) : z = <<FedFrom(p, g, D, 2, 1), e[1], e[2]>>
    BY <2>1
  <2> QED BY <1>1, <1>2, <1>4, <2>2, HeadsBehind
<1>8. (\E e \in A : z = <<dir, e[1], e[2]>>)
        <=> (\E f \in F : z = <<dir, f, 1>>) \/ z = <<dir, key, 1>> \/ z = <<dir, pr, 1>> \/ z = <<dir, vid, 1>>
  <2>1. PICK R : R = {<<key, 1>>, <<pr, 1>>, <<vid, 1>>}
    OBVIOUS
  <2>2. A = Slotted(F, 1) \cup R
    BY <1>5, <2>1 DEF Slotted
  <2>3. (\E e \in A : z = <<dir, e[1], e[2]>>) <=> Gives(Slotted(F, 1), dir, z) \/ \E e \in R : z = <<dir, e[1], e[2]>>
    BY <2>2 DEF Gives
  <2>4. (\E e \in R : z = <<dir, e[1], e[2]>>) <=> z = <<dir, key, 1>> \/ z = <<dir, pr, 1>> \/ z = <<dir, vid, 1>>
    BY <2>1
  <2> QED BY <2>3, <2>4, SlottedGives
<1>9. (\E e \in B : z = <<pol, e[1], e[2]>>) <=> (\E f \in F : z = <<pol, f, 2>>) \/ z = <<pol, key, 2>> \/ z = <<pol, vid, 4>>
  <2>1. PICK R : R = {<<key, 2>>, <<vid, 4>>}
    OBVIOUS
  <2>2. B = Slotted(F, 2) \cup R
    BY <1>5, <2>1 DEF Slotted
  <2>3. (\E e \in B : z = <<pol, e[1], e[2]>>) <=> Gives(Slotted(F, 2), pol, z) \/ \E e \in R : z = <<pol, e[1], e[2]>>
    BY <2>2 DEF Gives
  <2>4. (\E e \in R : z = <<pol, e[1], e[2]>>) <=> z = <<pol, key, 2>> \/ z = <<pol, vid, 4>>
    BY <2>1
  <2> QED BY <2>3, <2>4, SlottedGives
<1>10. \A f : z \in FromHead(f) <=> z = <<dir, f, 1>> \/ z = <<pol, f, 2>>
  BY <1>1 DEF FromHead
<1>11. z \in Given(shot) <=> z = <<dir, pr, 1>> \/ z = <<dir, vid, 1>> \/ z = <<pol, vid, 4>>
  BY <1>1 DEF Given
<1> QED BY <1>1, <1>3, <1>6, <1>7, <1>8, <1>9, <1>10, <1>11

\* The makers of a shot's references are brought to the packs of its instance.
LEMMA MeetsInside ==
  ASSUME NEW p, NEW g, NEW D, Complete(p, g, D), NEW j \in 1..Len(p.shots), NEW shot, shot = p.shots[j], NEW z
  PROVE  Via(p, g, D, Meets(p, shot, Base(p) + j), z)
           <=> \E k \in Sourcing(shot) : z \in Referral(shot, k, MakerIn(p, shot, shot.refs[k]))
<1>1. PICK t, d : t = Base(p) + j /\ d = D[j]
  OBVIOUS
<1>2. Via(p, g, D, Meets(p, shot, t), z)
        <=> \E k \in Sourcing(shot) : z \in Delivers(p, g, D, <<Place(p, SourceOf(shot, k)), 1, t, 2 + Rank(shot, k)>>)
  BY DEF Via, Meets
<1>3. ASSUME NEW k \in Sourcing(shot)
      PROVE  z \in Delivers(p, g, D, <<Place(p, SourceOf(shot, k)), 1, t, 2 + Rank(shot, k)>>)
               <=> z \in Referral(shot, k, MakerIn(p, shot, shot.refs[k]))
  <2>1. PICK o, s, m, can, h3 : /\ o = Place(p, SourceOf(shot, k)) /\ s = 2 + Rank(shot, k)
                                /\ m = MakerIn(p, shot, shot.refs[k]) /\ can = Canvas(shot) /\ h3 = H3Pack(shot)
    OBVIOUS
  <2>2. FedFrom(p, g, D, o, 1) = m
    BY <2>1, FedFromMaker
  <2>3. PICK A : A = Entries(d, s)
    OBVIOUS
  <2>4. z \in Delivers(p, g, D, <<o, 1, t, s>>) <=> \E e \in A : z = <<m, e[1], e[2]>>
    <3>1. \A q, os, ts : z \in Delivers(p, g, D, <<q, os, t, ts>>) <=> \E e \in Entries(d, ts) : z = <<FedFrom(p, g, D, q, os), e[1], e[2]>>
      BY <1>1, InsideDelivers
    <3>2. z \in Delivers(p, g, D, <<o, 1, t, s>>) <=> \E e \in Entries(d, s) : z = <<FedFrom(p, g, D, o, 1), e[1], e[2]>>
      BY <3>1
    <3> QED BY <2>2, <2>3, <3>2
  <2>5. A = {<<can, 1 + k>>, <<h3, 2 + k>>}
    <3>1. Shaped(d, shot)
      BY <1>1 DEF Complete
    <3> QED BY <2>1, <2>3, <3>1 DEF Shaped
  <2>6. (\E e \in A : z = <<m, e[1], e[2]>>) <=> z = <<m, can, 1 + k>> \/ z = <<m, h3, 2 + k>>
    BY <2>5
  <2>7. z \in Referral(shot, k, m) <=> z = <<m, can, 1 + k>> \/ z = <<m, h3, 2 + k>>
    BY <2>1 DEF Referral
  <2> QED BY <2>1, <2>4, <2>6, <2>7
<1> QED BY <1>1, <1>2, <1>3

\* What is no empty pack.
LEMMA MakersFull ==
  /\ \A c : c # "ReferencePack" => \A i, a, n, x, y : ~EmptyPack(<<Kind(c, i, a, n), x, y>>)
  /\ \A f, z : z \in FromHead(f) => ~EmptyPack(z)
  /\ \A p, shot, r, x, y : ~EmptyPack(<<MakerIn(p, shot, r), x, y>>)
<1>1. ASSUME NEW c, c # "ReferencePack", NEW i, NEW a, NEW n, NEW x, NEW y
      PROVE  ~EmptyPack(<<Kind(c, i, a, n), x, y>>)
  BY <1>1 DEF EmptyPack, Kind
<1>2. ASSUME NEW f, NEW z, z \in FromHead(f) PROVE ~EmptyPack(z)
  BY <1>2 DEF FromHead, EmptyPack, Single, Kind
<1>3. ASSUME NEW p, NEW shot, NEW r, NEW x, NEW y PROVE ~EmptyPack(<<MakerIn(p, shot, r), x, y>>)
  <2>1. MakerIn(p, shot, r).class # "ReferencePack"
    BY DEF MakerIn, Direct, Keyframe, Shared, Kind
  <2> QED BY <2>1 DEF EmptyPack
<1> QED BY <1>1, <1>2, <1>3

\* The links into an instance and the links in it bring what the plan's graph has for the shot, but
\* for an empty pack.
LEMMA ShotBrought ==
  ASSUME NEW p, NEW g, NEW D, Complete(p, g, D), NEW j \in 1..Len(p.shots), NEW shot, shot = p.shots[j], NEW z
  PROVE  (Via(p, g, D, ShotLinks(p, j), z) \/ z \in Inner(D[j]))
           <=> z \in ShotEdges(p, shot) /\ ~EmptyPack(z)
<1>1. PICK F, S, R, key, n :
        /\ F = Filed(shot) /\ S = Sourcing(shot) /\ R = DOMAIN shot.refs /\ key = Keyframe(shot) /\ n = Len(shot.refs)
  OBVIOUS
<1>2. n \in Nat /\ (shot.refs = << >> <=> n = 0)
  <2>1. shot \in ToSet(p.shots)
    BY DEF Complete, IsPlan, IsSequence, ToSet
  <2>2. shot.refs \in Seq(ToSet(shot.refs))
    BY <2>1 DEF Complete, Singular
  <2> QED BY <1>1, <2>2
<1>3. Via(p, g, D, ShotLinks(p, j), z)
        <=> \/ \E f \in FileKinds(shot) : z \in FromHead(f)
            \/ z \in FromHead(key) \/ z \in Given(shot)
            \/ \E k \in S : z \in Referral(shot, k, MakerIn(p, shot, shot.refs[k]))
  <2>1. PICK A, B : A = Plugged(Base(p) + j) /\ B = Meets(p, shot, Base(p) + j)
    OBVIOUS
  <2>2. Via(p, g, D, A \cup B, z) <=> Via(p, g, D, A, z) \/ Via(p, g, D, B, z)
    BY DEF Via
  <2>3. Via(p, g, D, A, z) <=> (\E f \in FileKinds(shot) : z \in FromHead(f)) \/ z \in FromHead(key) \/ z \in Given(shot)
    BY <1>1, <2>1, PluggedInside
  <2>4. Via(p, g, D, B, z) <=> \E k \in S : z \in Referral(shot, k, MakerIn(p, shot, shot.refs[k]))
    BY <1>1, <2>1, MeetsInside
  <2>5. ShotLinks(p, j) = A \cup B
    BY <2>1, Zenon DEF ShotLinks
  <2> QED BY <2>2, <2>3, <2>4, <2>5
<1>4. z \in Inner(D[j]) <=> \/ \E k \in F : z \in Referral(shot, k, MakerIn(p, shot, shot.refs[k]))
                            \/ z \in Chain(shot) \/ (n # 0 /\ z = Packed(shot))
  <2>1. Shaped(D[j], shot)
    BY DEF Complete
  <2>2. Inner(D[j]) = (UNION {Referral(shot, k, FileOf(shot, k)) : k \in F}) \cup Chain(shot)
                      \cup (IF shot.refs = << >> THEN {} ELSE {Packed(shot)})
    BY <1>1, <2>1 DEF Shaped
  <2>3. \A k \in F : MakerIn(p, shot, shot.refs[k]) = FileOf(shot, k)
    BY <1>1 DEF Filed, MakerIn, FileOf
  <2>4. z \in UNION {Referral(shot, k, FileOf(shot, k)) : k \in F} <=> \E k \in F : z \in Referral(shot, k, FileOf(shot, k))
    OBVIOUS
  <2> QED BY <1>2, <2>2, <2>3, <2>4
<1>5. z \in ShotEdges(p, shot)
        <=> \/ \E f \in FileKinds(shot) : z \in FromHead(f)
            \/ \E k \in R : z \in Referral(shot, k, MakerIn(p, shot, shot.refs[k]))
            \/ z \in FromHead(key) \/ z = Packed(shot) \/ z \in Chain(shot) \/ z \in Given(shot)
  BY <1>1 DEF ShotEdges
<1>6. \A k : k \in R <=> k \in F \/ k \in S
  BY <1>1 DEF Filed, Sourcing
<1>7. z = Packed(shot) => (EmptyPack(z) <=> n = 0)
  BY <1>1 DEF Packed, Canvas, CanvasPack, Kind, EmptyPack
<1>8. \A k, x : z \in Referral(shot, k, MakerIn(p, shot, x)) => ~EmptyPack(z)
  BY MakersFull DEF Referral
<1>9. z \in Chain(shot) => ~EmptyPack(z)
  BY <1>1, <1>2 DEF Chain, Keyframe, H3Pack, VideoPack, PromptOf, Kind, EmptyPack
<1>10. z \in Given(shot) => ~EmptyPack(z)
  BY DEF Given, Single, Kind, EmptyPack
<1>11. \A f : z \in FromHead(f) => ~EmptyPack(z)
  BY MakersFull
<1> QED BY <1>3, <1>4, <1>5, <1>6, <1>7, <1>8, <1>9, <1>10, <1>11

\* No empty pack feeds the rest of the graph.
LEMMA RestFull ==
  ASSUME NEW p, NEW z, z \in HeadEdges(p) \cup EndEdges(p)
  PROVE  ~EmptyPack(z)
<1>1. CASE z \in HeadEdges(p)
  <2>1. \/ z = <<Single("Input"), Single("Director"), 1>> \/ z = <<Single("ExecutionPolicy"), Single("Director"), 2>>
        \/ \E k \in DOMAIN p.shared : z \in FromHead(Shared(p.shared[k].asset))
    BY <1>1 DEF HeadEdges
  <2> QED BY <2>1, MakersFull DEF Single
<1>2. CASE z \in EndEdges(p)
  <2>1. \/ z \in FromHead(Single("StoryAssemble")) \/ z \in FromHead(Single("RunManifest"))
        \/ \E i \in DOMAIN p.shots : z = <<VideoNode(p.shots[i].id), Single("StoryAssemble"), 3 + i>>
        \/ z = <<Single("StoryAssemble"), Single("RunManifest"), 3>>
    BY <1>2 DEF EndEdges
  <2>2. \A c, x, y : c # "ReferencePack" => ~EmptyPack(<<Single(c), x, y>>)
    BY MakersFull DEF Single
  <2>3. \A s, x, y : ~EmptyPack(<<VideoNode(s), x, y>>)
    BY MakersFull DEF VideoNode
  <2>4. \A f : z \in FromHead(f) => ~EmptyPack(z)
    BY MakersFull
  <2> QED BY <2>1, <2>2, <2>3, <2>4
<1> QED BY <1>1, <1>2

\* The links of the UI graph, by where they lead.
LEMMA LinksSplit ==
  ASSUME NEW p, NEW g, NEW D, Complete(p, g, D), NEW n, n = Len(p.shots), NEW b, b = Base(p), NEW a, a = b + n + 1, NEW z
  PROVE  Via(p, g, D, Edges(g), z) <=> \/ Via(p, g, D, HeadLinks(p), z) \/ Via(p, g, D, EndLinks(b, n, a), z)
                                       \/ \E j \in 1..n : Via(p, g, D, ShotLinks(p, j), z)
<1>1. PICK H, T, W : H = HeadLinks(p) /\ T = EndLinks(b, n, a) /\ W = UNION {ShotLinks(p, j) : j \in 1..n}
  OBVIOUS
<1>2. Edges(g) = H \cup W \cup T
  <2>1. PICK A, B, C, E : A = Plugged(a) /\ B = Told(b, n, a) /\ C = Plugged(a + 1) /\ E = {<<a, 1, a + 1, 3>>}
    OBVIOUS
  <2>2. Edges(g) = LinksLaid(p, n) \cup A \cup B \cup C \cup E
    BY <2>1, Zenon DEF Complete, Whole
  <2>3. LinksLaid(p, n) = H \cup W
    BY <1>1, Zenon DEF LinksLaid, HeadLinks, ShotLinks
  <2>4. T = A \cup B \cup C \cup E
    BY <1>1, <2>1, Zenon DEF EndLinks
  <2> QED BY <2>2, <2>3, <2>4
<1>3. Via(p, g, D, H \cup W \cup T, z) <=> Via(p, g, D, H, z) \/ Via(p, g, D, W, z) \/ Via(p, g, D, T, z)
  BY DEF Via
<1>4. Via(p, g, D, W, z) <=> \E j \in 1..n : Via(p, g, D, ShotLinks(p, j), z)
  BY <1>1 DEF Via
<1> QED BY <1>1, <1>2, <1>3, <1>4

\* The UI graph, flattened, has the links of the plan's graph, but for the empty packs.
LEMMA UiFlattens ==
  ASSUME Complete(plan, ui, subgraphs), DOMAIN subgraphs = 1..Len(subgraphs), NEW K, ui \in Level(K)
  PROVE  UiEdges = {e \in PlanEdges(plan) : ~EmptyPack(e)}
<1>1. PICK p, g, D, n, b, a : /\ p = plan /\ g = ui /\ D = subgraphs /\ n = Len(p.shots) /\ b = Base(p) /\ a = b + n + 1
  OBVIOUS
<1>2. Complete(p, g, D) /\ ToSet(D) = {D[j] : j \in 1..n}
  <2>1. Len(D) = n
    BY <1>1 DEF Complete
  <2> QED BY <1>1, <2>1 DEF ToSet
<1>3. ASSUME NEW z
      PROVE  z \in UiEdges <=> z \in PlanEdges(plan) /\ ~EmptyPack(z)
  <2>1. z \in UiEdges <=> Via(p, g, D, Edges(g), z) \/ \E d \in ToSet(D) : z \in Inner(d)
    BY <1>1, UiEdgesAre DEF Via
  <2>2. Via(p, g, D, Edges(g), z) <=> \/ Via(p, g, D, HeadLinks(p), z) \/ Via(p, g, D, EndLinks(b, n, a), z)
                                      \/ \E j \in 1..n : Via(p, g, D, ShotLinks(p, j), z)
    BY <1>1, <1>2, LinksSplit
  <2>3. Via(p, g, D, HeadLinks(p), z) <=> z \in HeadEdges(p)
    BY <1>2, HeadBrought
  <2>4. Via(p, g, D, EndLinks(b, n, a), z) <=> z \in EndEdges(p)
    BY <1>1, <1>2, EndBrought
  <2>5. \A j \in 1..n : Via(p, g, D, ShotLinks(p, j), z) \/ z \in Inner(D[j])
                          <=> z \in ShotEdges(p, p.shots[j]) /\ ~EmptyPack(z)
    <3>1. ASSUME NEW j \in 1..n
          PROVE  (Via(p, g, D, ShotLinks(p, j), z) \/ z \in Inner(D[j])) <=> z \in ShotEdges(p, p.shots[j]) /\ ~EmptyPack(z)
      BY <1>1, <1>2, ShotBrought
    <3> QED BY <3>1
  <2>6. (\E d \in ToSet(D) : z \in Inner(d)) <=> \E j \in 1..n : z \in Inner(D[j])
    BY <1>2
  <2>7. z \in PlanEdges(plan) <=> z \in HeadEdges(p) \/ z \in EndEdges(p) \/ \E j \in 1..n : z \in ShotEdges(p, p.shots[j])
    BY <1>1 DEF PlanEdges, EdgesTo
  <2>8. z \in HeadEdges(p) \/ z \in EndEdges(p) => ~EmptyPack(z)
    BY RestFull
  <2> QED BY <2>1, <2>2, <2>3, <2>4, <2>5, <2>6, <2>7, <2>8
<1> QED BY <1>3

\* And its nodes.
LEMMA UiHasKinds ==
  ASSUME NEW p, NEW g, NEW D, Complete(p, g, D), DOMAIN D = 1..Len(D), DOMAIN g.nodes = 1..Len(g.nodes)
  PROVE  {g.nodes[m].kind : m \in {i \in DOMAIN g.nodes : g.nodes[i].kind.class # "Shot"}}
           \cup UNION {{d.nodes[m].kind : m \in DOMAIN d.nodes} : d \in ToSet(D)} = PlanKinds(p)
<1>1. PICK n, l, b, a : n = Len(p.shots) /\ l = Len(p.shared) /\ b = Base(p) /\ a = b + n + 1
  OBVIOUS
<1>2. Placed(p, g, n, l, b, a)
  BY <1>1, CompleteKinds, Zenon
<1>3. PICK inp, pol, dir, sa, rm : /\ inp = Single("Input") /\ pol = Single("ExecutionPolicy") /\ dir = Single("Director")
                                   /\ sa = Single("StoryAssemble") /\ rm = Single("RunManifest")
  OBVIOUS
<1>4. /\ n \in Nat /\ l \in Nat /\ b = 3 + l /\ DOMAIN p.shared = 1..l
      /\ g.nodes[1].kind = inp /\ g.nodes[2].kind = pol /\ g.nodes[3].kind = dir
      /\ \A k \in 1..l : g.nodes[3 + k].kind = Shared(p.shared[k].asset)
      /\ \A j \in 1..n : g.nodes[b + j].kind = ShotKind(p.shots[j])
      /\ g.nodes[a].kind = sa /\ g.nodes[a + 1].kind = rm /\ DOMAIN g.nodes = 1..(a + 1)
  BY <1>2, <1>3 DEF Placed
<1>5. /\ inp.class # "Shot" /\ pol.class # "Shot" /\ dir.class # "Shot" /\ sa.class # "Shot" /\ rm.class # "Shot"
      /\ \A x : Shared(x).class # "Shot" /\ ShotKind(x).class = "Shot"
  BY <1>3 DEF Single, Shared, ShotKind, Kind
<1>6. ASSUME NEW z
      PROVE  (\E m \in DOMAIN g.nodes : g.nodes[m].kind.class # "Shot" /\ z = g.nodes[m].kind)
               <=> z \in HeadKinds(p) \/ z = sa \/ z = rm
  <2>1. z \in HeadKinds(p) <=> z = inp \/ z = pol \/ z = dir \/ \E k \in 1..l : z = Shared(p.shared[k].asset)
    BY <1>3, <1>4 DEF HeadKinds
  <2>2. ASSUME NEW m \in DOMAIN g.nodes, g.nodes[m].kind.class # "Shot", z = g.nodes[m].kind
        PROVE  z \in HeadKinds(p) \/ z = sa \/ z = rm
    <3>1. m \in 1..(a + 1)
      BY <1>4
    <3>2. \/ m = 1 \/ m = 2 \/ m = 3 \/ (\E k \in 1..l : m = 3 + k) \/ (\E j \in 1..n : m = b + j) \/ m = a \/ m = a + 1
      <4>0. l \in Nat /\ n \in Nat /\ b = 3 + l /\ a = b + n + 1
        BY <1>1, <1>4
      <4>1. m \in 4..(3 + l) => m - 3 \in 1..l /\ m = 3 + (m - 3)
        BY <4>0
      <4>2. m \in (b + 1)..(b + n) => m - b \in 1..n /\ m = b + (m - b)
        BY <4>0
      <4>3. m = 1 \/ m = 2 \/ m = 3 \/ m \in 4..(3 + l) \/ m \in (b + 1)..(b + n) \/ m = a \/ m = a + 1
        BY <3>1, <4>0
      <4> QED BY <4>1, <4>2, <4>3
    <3>3. \A j \in 1..n : m # b + j
      BY <1>4, <1>5, <2>2
    <3> QED BY <1>4, <2>1, <2>2, <3>2, <3>3
  <2>3. ASSUME z \in HeadKinds(p) \/ z = sa \/ z = rm
        PROVE  \E m \in DOMAIN g.nodes : g.nodes[m].kind.class # "Shot" /\ z = g.nodes[m].kind
    <3>0. l \in Nat /\ n \in Nat /\ b = 3 + l /\ a = b + n + 1
      BY <1>1, <1>4
    <3>1. 1 \in DOMAIN g.nodes /\ 2 \in DOMAIN g.nodes /\ 3 \in DOMAIN g.nodes /\ a \in DOMAIN g.nodes /\ a + 1 \in DOMAIN g.nodes
      <4>1. 1 \in 1..(a + 1) /\ 2 \in 1..(a + 1) /\ 3 \in 1..(a + 1) /\ a \in 1..(a + 1) /\ a + 1 \in 1..(a + 1)
        BY <3>0
      <4> QED BY <1>4, <4>1
    <3>2. \A k \in 1..l : 3 + k \in DOMAIN g.nodes
      <4>1. \A k \in 1..l : 3 + k \in 1..(a + 1)
        BY <3>0
      <4> QED BY <1>4, <4>1
    <3> QED BY <1>4, <1>5, <2>1, <2>3, <3>1, <3>2
  <2> QED BY <2>2, <2>3
<1>7. UNION {{d.nodes[m].kind : m \in DOMAIN d.nodes} : d \in ToSet(D)} = UNION {ShotKinds(p.shots[j]) : j \in 1..n}
  <2>1. ToSet(D) = {D[j] : j \in 1..n}
    <3>1. Len(D) = n
      BY <1>1 DEF Complete
    <3> QED BY <3>1 DEF ToSet
  <2>2. \A j \in 1..n : KindsIn(D[j].nodes) = ShotKinds(p.shots[j])
    <3>1. \A j \in 1..n : Shaped(D[j], p.shots[j])
      BY <1>1 DEF Complete
    <3> QED BY <3>1 DEF Shaped, KindsIn
  <2>3. {{d.nodes[m].kind : m \in DOMAIN d.nodes} : d \in ToSet(D)}
          = {KindsIn(D[j].nodes) : j \in 1..n}
    BY <2>1 DEF KindsIn
  <2>4. {KindsIn(D[j].nodes) : j \in 1..n} = {ShotKinds(p.shots[j]) : j \in 1..n}
    BY <2>2
  <2> QED BY <2>3, <2>4
<1>8. PICK S : S = UNION {ShotKinds(p.shots[j]) : j \in 1..n}
  OBVIOUS
<1>9. PlanKinds(p) = HeadKinds(p) \cup S \cup {sa, rm}
  BY <1>1, <1>3, <1>8 DEF PlanKinds, KindsTo
<1>10. PICK U : U = {g.nodes[m].kind : m \in {i \in DOMAIN g.nodes : g.nodes[i].kind.class # "Shot"}}
  OBVIOUS
<1>11. \A z : z \in U <=> \E m \in DOMAIN g.nodes : g.nodes[m].kind.class # "Shot" /\ z = g.nodes[m].kind
  BY <1>10
<1>12. U \cup S = PlanKinds(p)
  BY <1>6, <1>9, <1>11
<1> QED BY <1>7, <1>8, <1>10, <1>12

\* A finished compilation: both outputs are the plan's graph.
LEMMA DoneIsSame ==
  ASSUME DraftInv, Handed, ShownInv, LinksInv, UiDrawn, ApiDrawn
  PROVE  SameGraph
<1> SUFFICES ASSUME stage = "done"
             PROVE  /\ {api[n].kind : n \in DOMAIN api}
                         = {ui.nodes[n].kind : n \in {m \in DOMAIN ui.nodes : ~IsShot(m)}}
                           \cup UNION {{g.nodes[n].kind : n \in DOMAIN g.nodes} : g \in ToSet(subgraphs)}
                    /\ UiEdges = {e \in ApiEdges : ~EmptyPack(e)}
  BY DEF SameGraph
<1>1. IsPlan(plan) /\ Singular(plan)
  <2>1. phase = "planned"
    BY DEF DraftInv
  <2> QED BY <2>1, PlannedIsSingular
<1>2. Problem(plan) = "none"
  BY DEF ShownInv
<1>3. PICK K : ui \in Level(K)
  BY DEF LinksInv, Sound
<1>4. DOMAIN ui.nodes = 1..Len(ui.nodes)
  BY <1>3, LevelIs
<1>5. DOMAIN subgraphs = 1..Len(subgraphs)
  BY DEF UiDrawn, IsSequence
<1>6. Complete(plan, ui, subgraphs)
  BY <1>1, <1>2 DEF UiDrawn, Complete
<1>7. KindsIn(api) = PlanKinds(plan) /\ EdgesIn(api) = PlanEdges(plan)
  BY DEF ApiDrawn
<1>8. UiEdges = {e \in EdgesIn(api) : ~EmptyPack(e)}
  BY <1>3, <1>5, <1>6, <1>7, UiFlattens
<1>9. ApiEdges = EdgesIn(api)
  BY Zenon DEF ApiEdges, EdgesIn, Feeding
<1>10. {ui.nodes[n].kind : n \in {m \in DOMAIN ui.nodes : ~IsShot(m)}}
         \cup UNION {{g.nodes[n].kind : n \in DOMAIN g.nodes} : g \in ToSet(subgraphs)} = KindsIn(api)
  <2>1. {m \in DOMAIN ui.nodes : ~IsShot(m)} = {m \in DOMAIN ui.nodes : ui.nodes[m].kind.class # "Shot"}
    BY DEF IsShot
  <2>2. {ui.nodes[n].kind : n \in {m \in DOMAIN ui.nodes : ui.nodes[m].kind.class # "Shot"}}
          \cup UNION {{g.nodes[n].kind : n \in DOMAIN g.nodes} : g \in ToSet(subgraphs)} = PlanKinds(plan)
    BY <1>4, <1>5, <1>6, UiHasKinds, Zenon
  <2> QED BY <1>7, <2>1, <2>2, Zenon
<1> QED BY <1>8, <1>9, <1>10 DEF KindsIn

\* Both outputs are one graph: the API workflow and the UI graph, each instance in it replaced by its
\* subgraph, have the same nodes, and each input in them is fed by the same node.
THEOREM BothOutputsAreOneGraph == Spec => []SameGraph
<1>1. Init => Handed /\ ShownInv /\ LinksInv /\ UiDrawn /\ ApiDrawn
  BY HandedInit, ShownInit, LinksInit, DrawnInit
<1>2. IInv /\ DraftInv /\ (Handed /\ ShownInv /\ LinksInv /\ UiDrawn /\ ApiDrawn)
      /\ [(PlanNext /\ UNCHANGED compileVars) \/ CompileNext]_vars
        => (Handed /\ ShownInv /\ LinksInv /\ UiDrawn /\ ApiDrawn)'
  BY HandedKept, ShownKept, LinksKept, UiDrawnKept, ApiDrawnKept
<1>3. DraftInv /\ (Handed /\ ShownInv /\ LinksInv /\ UiDrawn /\ ApiDrawn) => SameGraph
  BY DoneIsSame
<1> QED BY <1>1, <1>2, <1>3, AlwaysIInv, AlwaysDraftInv, PTL DEF Spec
=============================================================================
