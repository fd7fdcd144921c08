--------------------------- MODULE RunFilesProofs ---------------------------
(***************************************************************************)
(* Proofs about what a Run keeps in files: its journals for every set of   *)
(* appenders and rows, its media for every order of staging and number of  *)
(* contents, and the state file of a video task for any number of clients, *)
(* requests and remote task ids.                                           *)
(***************************************************************************)
EXTENDS RunFiles, VideoTask, TLAPS

-----------------------------------------------------------------------------
(* Journals and media                                                        *)

JournalSteps == {"idle", "torn", "moved", "clean", "written"}

JournalTypes ==
  /\ rows \in Seq(Rows)
  /\ append \in [Appenders -> [step : JournalSteps, row : SUBSET Rows, end : Nat]]

\* The lock excludes, and what its holder knows about the end of the journal.
JournalInv ==
  /\ JournalTypes
  /\ \A a, b \in Appenders : append[a].step # "idle" /\ append[b].step # "idle" => a = b
  /\ \A a \in Appenders :
       /\ \A r, q \in append[a].row : r = q
       /\ append[a].step \in {"torn", "moved"} => append[a].end = Len(rows)
       /\ append[a].step = "moved" => tail \subseteq moved
       /\ append[a].step = "clean" => tail = {}
       /\ append[a].step = "written" => append[a].row \subseteq ToSet(rows)
  /\ NothingLost

LEMMA ToSetAppend ==
  ASSUME NEW S, NEW s \in Seq(S), NEW e \in S
  PROVE  /\ Append(s, e) \in Seq(S)
         /\ ToSet(s) \subseteq ToSet(Append(s, e)) /\ e \in ToSet(Append(s, e))
<1> DEFINE t == Append(s, e)
<1>1. t \in Seq(S) /\ Len(t) = Len(s) + 1 /\ \A i \in 1..Len(s) : t[i] = s[i]
  OBVIOUS
<1>2. t[Len(s) + 1] = e /\ DOMAIN t = 1..(Len(s) + 1) /\ DOMAIN s = 1..Len(s)
  OBVIOUS
<1> HIDE DEF t
<1>3. ToSet(s) \subseteq ToSet(t)
  BY <1>1, <1>2 DEF ToSet
<1>4. e \in ToSet(t)
  BY <1>1, <1>2 DEF ToSet
<1> QED BY <1>1, <1>3, <1>4 DEF t

LEMMA StayStep ==
  ASSUME JournalTypes, NEW a \in Appenders, NEW step \in JournalSteps, Stay(a, step)
  PROVE  append' = [append EXCEPT ![a] = [step |-> step, row |-> append[a].row, end |-> append[a].end]]
<1>1. append[a] \in [step : JournalSteps, row : SUBSET Rows, end : Nat]
  BY DEF JournalTypes
<1>2. [append[a] EXCEPT !.step = step] = [step |-> step, row |-> append[a].row, end |-> append[a].end]
  BY <1>1
<1> QED BY <1>2 DEF Stay

LEMMA JournalInitInv == JournalInit => JournalInv
BY DEF JournalInit, JournalInv, JournalTypes, JournalSteps, NoAppend, NothingLost, ToSet, ReadJsonl

LEMMA JournalStep ==
  ASSUME JournalInv, NEW a \in Appenders,
         Open(a) \/ Recover(a) \/ Cut(a) \/ Write(a) \/ Return(a) \/ Tear(a) \/ Stop(a)
  PROVE  JournalInv'
<1> USE DEF JournalInv, JournalTypes, JournalSteps, NothingLost, ReadJsonl, NoAppend
<1>1. CASE Open(a)
  BY <1>1 DEF Open, Held
<1>2. CASE Recover(a)
  BY <1>2 DEF Recover, Stay
<1>3. CASE Cut(a)
  <2>1. append[a].end = Len(rows) /\ tail \subseteq moved
    BY <1>3 DEF Cut
  <2>2. rows' = rows
    BY <1>3, <2>1 DEF Cut
  <2>3. append' = [append EXCEPT ![a] = [step |-> "clean", row |-> append[a].row, end |-> append[a].end]]
    BY <1>3, StayStep DEF Cut
  <2>4. append[a].step = "moved" /\ UNCHANGED <<moved, acked, torn>> /\ tail' = {}
    BY <1>3 DEF Cut
  <2> QED BY <2>1, <2>2, <2>3, <2>4
<1>4. CASE Write(a)
  <2>1. PICK row \in append[a].row : rows' = Append(rows, row)
    BY <1>4 DEF Write
  <2>2. rows' \in Seq(Rows) /\ ToSet(rows) \subseteq ToSet(rows')
    BY <2>1, ToSetAppend
  <2>3. append' = [append EXCEPT ![a] = [step |-> "written", row |-> append[a].row, end |-> append[a].end]]
    BY <1>4, StayStep DEF Write
  <2>4. append[a].step = "clean" /\ UNCHANGED <<tail, moved, acked, torn>>
    BY <1>4 DEF Write
  <2>5. append[a].row \subseteq ToSet(rows')
    BY <2>1, ToSetAppend
  <2>6. \A b \in Appenders : append'[b].step \in {"torn", "moved"} => append'[b].end = Len(rows')
    BY <2>3, <2>4
  <2> QED BY <2>2, <2>3, <2>4, <2>5, <2>6
<1>5. CASE Return(a)
  BY <1>5 DEF Return, Leave
<1>6. CASE Tear(a)
  BY <1>6 DEF Tear, Leave
<1>7. CASE Stop(a)
  BY <1>7 DEF Stop, Leave
<1> QED BY <1>1, <1>2, <1>3, <1>4, <1>5, <1>6, <1>7

\* However appends interleave, die and fail, no row whose append returned is lost to a reader, and
\* no torn row is lost to diagnosis.
THEOREM JournalKeepsRows == FilesSpec => []NothingLost
<1>1. FilesInit => JournalInv
  BY JournalInitInv DEF FilesInit
<1>2. JournalInv /\ UNCHANGED journalVars => JournalInv'
  BY DEF JournalInv, JournalTypes, NothingLost, ReadJsonl, journalVars
<1>3. JournalInv /\ JournalNext => JournalInv'
  BY JournalStep DEF JournalNext
<1>4. JournalInv /\ [FilesNext]_filesVars => JournalInv'
  BY <1>2, <1>3 DEF FilesNext, filesVars
<1>5. JournalInv => NothingLost
  BY DEF JournalInv
<1> QED BY <1>1, <1>4, <1>5, PTL DEF FilesSpec

-----------------------------------------------------------------------------

StageSteps == {"idle", "file", "place", "copy", "rehash", "report"}

\* The contents that a file has had: a listing names only these.
Past(f) == 1..(IF content[f] = 0 THEN made[f] - 1 ELSE made[f])
Listing(m) == DOMAIN m \subseteq Files /\ \A f \in DOMAIN m : m[f] \in Past(f)

\* What may be said of a file that is shown with content d.
Good(f, d) ==
  /\ Name(f, d) \in DOMAIN targets
  /\ \/ targets[Name(f, d)].content = d
     \/ content[f] # d /\ (kind = "review" => targets[Name(f, d)].link /\ f \in InPlace)

\* A file is whole or being written, and a hard link has the content of its file.
Entry == [content : Nat, link : BOOLEAN]
WorldInv ==
  /\ kind \in {"export", "review"}
  /\ content \in [Files -> Nat] /\ made \in [Files -> Nat \ {0}]
  /\ \A f \in Files : content[f] \in {0, made[f]} /\ (f \in Replaced => content[f] # 0)
  /\ Listing(manifest)
  /\ \A n \in DOMAIN targets :
       /\ targets[n] \in Entry /\ n[1] \in Files
       /\ targets[n].link => targets[n].content = content[n[1]]

\* What the staging knows of the files before it and of the one it stages.
CursorInv ==
  /\ stage \in [step : StageSteps, i : Nat \ {0}, listed : {stage.listed}, digest : Nat]
  /\ \A l \in {stage.listed} :
       /\ Listing(l)
       /\ stage.step # "idle" =>
            \A j \in DOMAIN Order :
              j < stage.i /\ Order[j] \in DOMAIN l => Good(Order[j], l[Order[j]])
  /\ stage.step \in {"place", "copy", "rehash"} =>
       /\ stage.i \in DOMAIN Order /\ stage.digest \in Past(File)
       /\ File \in DOMAIN stage.listed => stage.digest = stage.listed[File]
  /\ stage.step = "copy" =>
       /\ kind = "export" /\ Name(File, stage.digest) \in DOMAIN targets
       /\ ~targets[Name(File, stage.digest)].link
  /\ stage.step = "rehash" => Name(File, stage.digest) \notin DOMAIN targets
  /\ \A t \in temporary :
       t \in Entry /\ stage.step = "rehash" /\ (t.link => t.content = content[File])

ShownInv == \A shown \in graph : Listing(shown) /\ \A f \in DOMAIN shown : Good(f, shown[f])

StageInv == WorldInv /\ CursorInv /\ ShownInv

LEMMA OrderFiles == \A j \in DOMAIN Order : Order[j] \in Files /\ j \in Nat \ {0}
<1>1. Order \in Seq(Files)
  BY StageAssumption
<1> QED BY <1>1

LEMMA StageInitInv == StageInit => StageInv
<1> SUFFICES ASSUME StageInit PROVE StageInv
  OBVIOUS
<1>1. content = [f \in Files |-> 1] /\ made = content /\ manifest = [f \in Declared |-> 1]
  BY DEF StageInit
<1>2. Declared \subseteq Files
  BY DEF Files
<1>3. targets = << >> /\ temporary = {} /\ graph = {} /\ stage = NoStage /\ kind \in {"export", "review"}
  BY DEF StageInit
<1>4. DOMAIN targets = {} /\ DOMAIN stage.listed = {}
  BY <1>3 DEF NoStage
<1>5. WorldInv
  BY <1>1, <1>2, <1>3, <1>4 DEF WorldInv, Listing, Past
<1>6. CursorInv
  BY <1>3, <1>4 DEF CursorInv, NoStage, StageSteps, Listing
<1> QED BY <1>3, <1>5, <1>6 DEF StageInv, ShownInv

\* A step of the staging leaves the Run, and what it stages adds to the targets.
LEMMA GoodStays ==
  ASSUME UNCHANGED <<kind, content>>, NEW f, NEW d,
         \A n \in DOMAIN targets : n \in DOMAIN targets' /\ targets'[n] = targets[n],
         Good(f, d)
  PROVE  Good(f, d)'
BY DEF Good, Name

LEMMA ListingStays ==
  ASSUME UNCHANGED <<content, made>>, NEW m, Listing(m)
  PROVE  Listing(m)'
BY DEF Listing, Past

\* Steps that change neither the Run nor the targets.
LEMMA WorldStays ==
  ASSUME StageInv, UNCHANGED <<kind, runVars, targets, graph>>
  PROVE  WorldInv' /\ ShownInv'
<1>1. WorldInv'
  BY DEF StageInv, WorldInv, runVars, Listing, Past
<1>2. ShownInv'
  BY GoodStays, ListingStays DEF StageInv, ShownInv, runVars
<1> QED BY <1>1, <1>2

\* The staging goes on to the next file when what it has passed is good.
LEMMA NextStage ==
  ASSUME CursorInv, NextFile
  PROVE  stage' = [step |-> "file", i |-> stage.i + 1, listed |-> stage.listed, digest |-> 0]
BY DEF CursorInv, NextFile

LEMMA NextInv ==
  ASSUME StageInv, UNCHANGED <<kind, runVars>>, stage.step # "idle", stage.i \in DOMAIN Order,
         stage' = [step |-> "file", i |-> stage.i + 1, listed |-> stage.listed, digest |-> 0],
         \A g, e : Good(g, e) => Good(g, e)',
         NEW f, f = File, NEW d, f \in DOMAIN stage.listed => d = stage.listed[f] /\ Good(f, d)',
         temporary' = {}
  PROVE  CursorInv'
<1> USE DEF StageInv, runVars
<1>1. stage' \in [step : StageSteps, i : Nat \ {0}, listed : {stage'.listed}, digest : Nat]
  BY DEF CursorInv, StageSteps
<1>2. ASSUME NEW l \in {stage.listed} PROVE Listing(l)'
  BY ListingStays DEF CursorInv
<1>3. ASSUME NEW l \in {stage.listed}, NEW j \in DOMAIN Order, j < stage.i + 1, Order[j] \in DOMAIN l
      PROVE  Good(Order[j], l[Order[j]])'
  <2>1. CASE j = stage.i
    <3>1. f = Order[j] /\ d = l[Order[j]]
      BY <1>3, <2>1 DEF File
    <3> QED BY <1>3, <3>1
  <2>2. CASE j # stage.i
    <3>1. j < stage.i
      BY <1>3, <2>2, OrderFiles DEF CursorInv
    <3>2. Good(Order[j], l[Order[j]])
      BY <1>3, <3>1 DEF CursorInv
    <3> QED BY <3>2
  <2> QED BY <2>1, <2>2
<1> QED BY <1>1, <1>2, <1>3 DEF CursorInv

LEMMA NoTemporary ==
  ASSUME StageInv, stage.step # "rehash"
  PROVE  temporary = {}
BY DEF StageInv, CursorInv

LEMMA ReadingInv ==
  ASSUME StageInv, Begin \/ Abandon \/ Skip \/ Hash
  PROVE  StageInv'
<1>1. UNCHANGED <<kind, runVars, targets, graph>>
  BY DEF Begin, Abandon, Skip, Hash
<1>2. WorldInv' /\ ShownInv'
  BY <1>1, WorldStays
<1>3. CASE Begin
  <2>1. stage' = [step |-> "file", i |-> 1, listed |-> manifest, digest |-> 0]
    BY <1>3 DEF Begin, NoStage
  <2>2. Listing(manifest)'
    BY <1>1, ListingStays DEF StageInv, WorldInv, runVars
  <2>3. temporary' = {}
    BY <1>3, NoTemporary DEF Begin
  <2> QED BY <1>2, <2>1, <2>2, <2>3, <1>1, OrderFiles DEF StageInv, CursorInv, StageSteps, runVars
<1>4. CASE Abandon
  BY <1>2, <1>4 DEF StageInv, CursorInv, Abandon, NoStage, StageSteps, Listing
<1>5. CASE Skip
  <2>1. stage.step = "file" /\ stage.i \in DOMAIN Order /\ File \notin DOMAIN stage.listed /\ NextFile
    BY <1>5 DEF Skip
  <2>2. temporary' = {}
    BY <1>5, <2>1, NoTemporary DEF Skip
  <2>3. CursorInv'
    <3>1. \A g, e : Good(g, e) => Good(g, e)'
      BY <1>1, GoodStays DEF runVars
    <3> QED BY <1>1, <2>1, <2>2, <3>1, NextStage, NextInv DEF StageInv
  <2> QED BY <1>2, <2>3 DEF StageInv
<1>6. CASE Hash
  <2>1. stage.step = "file" /\ stage.i \in DOMAIN Order /\ content[File] # 0 /\ temporary' = {}
    BY <1>6, NoTemporary DEF Hash
  <2>2. File \in Files /\ content[File] \in Past(File)
    BY <2>1, OrderFiles DEF File, StageInv, WorldInv, Past
  <2>3. File \in DOMAIN stage.listed => content[File] = stage.listed[File]
    BY <1>6 DEF Hash
  <2>4. CASE Staged
    <3>1. stage' = [step |-> "file", i |-> stage.i + 1, listed |-> stage.listed, digest |-> stage.digest]
      BY <1>6, <2>1, <2>4 DEF Hash, StageInv, CursorInv
    <3>2. ASSUME NEW l \in {stage.listed}, NEW j \in DOMAIN Order, j < stage.i + 1, Order[j] \in DOMAIN l
          PROVE  Good(Order[j], l[Order[j]])
      <4>1. PICK k \in 1..(stage.i - 1) : Order[k] = File
        BY <2>4 DEF Staged
      <4>2. k \in DOMAIN Order /\ k < stage.i
        <5>1. \E n \in Nat : DOMAIN Order = 1..n
          BY StageAssumption
        <5> QED BY <5>1, <4>1, <2>1
      <4>3. CASE j = stage.i
        <5>1. Order[k] = Order[j]
          BY <4>1, <4>3 DEF File
        <5> QED BY <2>1, <3>2, <4>2, <5>1 DEF StageInv, CursorInv
      <4>4. CASE j # stage.i
        <5>1. j < stage.i
          BY <3>2, <4>4, <2>1, OrderFiles
        <5> QED BY <2>1, <3>2, <5>1 DEF StageInv, CursorInv
      <4> QED BY <4>3, <4>4
    <3>3. ASSUME NEW l \in {stage.listed}, NEW j \in DOMAIN Order, j < stage.i + 1, Order[j] \in DOMAIN l
          PROVE  Good(Order[j], l[Order[j]])'
      BY <1>1, <3>2, <3>3, GoodStays DEF runVars
    <3>4. ASSUME NEW l \in {stage.listed} PROVE Listing(l)'
      BY <1>1, ListingStays DEF StageInv, CursorInv, runVars
    <3>5. stage' \in [step : StageSteps, i : Nat \ {0}, listed : {stage'.listed}, digest : Nat]
      BY <3>1 DEF StageInv, CursorInv, StageSteps
    <3> QED BY <1>2, <2>1, <3>1, <3>3, <3>4, <3>5 DEF StageInv, CursorInv
  <2>5. CASE ~Staged
    <3>0. PICK l : l = Put(stage.listed, File, content[File])
      OBVIOUS
    <3>1. stage' = [step |-> "place", i |-> stage.i, listed |-> l, digest |-> content[File]]
      <4>1. stage' = [stage EXCEPT !.step = "place", !.digest = content[File], !.listed = l]
        BY <1>6, <2>5, <3>0 DEF Hash
      <4> QED BY <4>1 DEF StageInv, CursorInv
    <3>2. /\ DOMAIN l = DOMAIN stage.listed \cup {File} /\ l[File] = content[File]
          /\ \A g \in DOMAIN stage.listed : l[g] = stage.listed[g]
      BY <2>3, <3>0 DEF Put
    <3>3. Listing(l)'
      <4>1. Listing(stage.listed)
        BY DEF StageInv, CursorInv
      <4>2. Listing(l)
        <5>1. ASSUME NEW g \in DOMAIN l PROVE g \in Files /\ l[g] \in Past(g)
          BY <2>2, <3>2, <4>1 DEF Listing
        <5> QED BY <5>1 DEF Listing
      <4> QED BY <1>1, <4>2, ListingStays DEF runVars
    <3>6. ASSUME NEW j \in DOMAIN Order, j < stage.i, Order[j] \in DOMAIN l
          PROVE  Good(Order[j], l[Order[j]])'
      <4>1. Order[j] \in DOMAIN stage.listed
        <5>1. SUFFICES ASSUME File \notin DOMAIN stage.listed, Order[j] = File PROVE FALSE
          BY <3>2, <3>6
        <5>2. kind = "review"
          BY <1>6, <5>1 DEF Hash
        <5>3. stage.i \in Nat \ {0}
          BY <2>1, OrderFiles
        <5>4. j \in 1..(stage.i - 1)
          BY <3>6, <5>3, OrderFiles
        <5> QED BY <2>5, <5>1, <5>2, <5>4 DEF Staged
      <4>2. Good(Order[j], stage.listed[Order[j]])
        BY <2>1, <3>6, <4>1 DEF StageInv, CursorInv
      <4>3. Good(Order[j], l[Order[j]])
        BY <3>2, <4>1, <4>2
      <4> QED BY <1>1, <4>3, GoodStays DEF runVars
    <3>4. stage' \in [step : StageSteps, i : Nat \ {0}, listed : {stage'.listed}, digest : Nat]
      BY <2>2, <3>1 DEF StageInv, CursorInv, StageSteps, WorldInv
    <3>5. (stage.digest \in Past(File) /\ (File \in DOMAIN stage.listed => stage.digest = stage.listed[File]))'
      BY <1>1, <2>2, <3>1, <3>2 DEF Past, File, runVars
    <3>7. stage'.listed = l /\ stage'.i = stage.i /\ stage'.step = "place"
      BY <3>1
    <3> QED BY <1>2, <2>1, <3>3, <3>4, <3>5, <3>6, <3>7 DEF StageInv, CursorInv
  <2> QED BY <2>4, <2>5
<1> QED BY <1>3, <1>4, <1>5, <1>6

\* Steps that add or complete a target.
LEMMA TargetAdded ==
  ASSUME NEW name, name \notin DOMAIN targets, NEW entry, targets' = Put(targets, name, entry)
  PROVE  /\ DOMAIN targets' = DOMAIN targets \cup {name} /\ targets'[name] = entry
         /\ \A n \in DOMAIN targets : n \in DOMAIN targets' /\ targets'[n] = targets[n]
BY DEF Put

LEMMA ShownStays ==
  ASSUME ShownInv, UNCHANGED <<content, made, graph>>, \A g, e : Good(g, e) => Good(g, e)'
  PROVE  ShownInv'
BY ListingStays DEF ShownInv

LEMMA ExistingInv ==
  ASSUME StageInv, Existing
  PROVE  StageInv'
<1> DEFINE f == File
           d == stage.digest
<1>1. stage.step = "place" /\ Name(f, d) \in DOMAIN targets /\ targets[Name(f, d)].content = d
  BY DEF Existing
<1>2. UNCHANGED <<kind, runVars, targets, graph>> /\ NextFile /\ temporary' = {}
  BY <1>1, NoTemporary DEF Existing
<1>3. WorldInv' /\ ShownInv'
  BY <1>2, WorldStays
<1>4. \A g, e : Good(g, e) => Good(g, e)'
  BY <1>2, GoodStays DEF runVars
<1>5. stage.i \in DOMAIN Order /\ (f \in DOMAIN stage.listed => d = stage.listed[f]) /\ Good(f, d)
  BY <1>1 DEF StageInv, CursorInv, Good
<1>6. \A g, e : g = File /\ (g \in DOMAIN stage.listed => e = stage.listed[g]) /\ Good(g, e)
                => CursorInv'
  BY <1>1, <1>2, <1>4, <1>5, NextStage, NextInv DEF StageInv
<1> QED BY <1>3, <1>5, <1>6 DEF StageInv

LEMMA PlaceExportInv ==
  ASSUME StageInv, PlaceExport
  PROVE  StageInv'
<1> DEFINE name == Name(File, stage.digest)
           entry == [content |-> IF device = "same" THEN content[File] ELSE 0, link |-> device = "same"]
<1>1. /\ stage.step = "place" /\ kind = "export" /\ name \notin DOMAIN targets
      /\ targets' = Put(targets, name, entry) /\ UNCHANGED <<kind, content, made, runVars, graph>>
  BY DEF PlaceExport, runVars
<1>2. temporary = {} /\ temporary' = {}
  BY <1>1, NoTemporary DEF PlaceExport
<1>3. /\ DOMAIN targets' = DOMAIN targets \cup {name} /\ targets'[name] = entry
      /\ \A n \in DOMAIN targets : n \in DOMAIN targets' /\ targets'[n] = targets[n]
  <2> HIDE DEF name, entry
  <2> QED BY <1>1, TargetAdded
<1>4. \A g, e : Good(g, e) => Good(g, e)'
  BY <1>1, <1>3, GoodStays
<1>5. ShownInv'
  BY <1>1, <1>4, ShownStays DEF StageInv
<1>6. /\ stage.i \in DOMAIN Order /\ File \in Files /\ stage.digest \in Past(File)
      /\ File \in DOMAIN stage.listed => stage.digest = stage.listed[File]
  BY <1>1, OrderFiles DEF StageInv, CursorInv, File
<1>7. WorldInv'
  <2>1. entry \in Entry /\ name[1] = File /\ (entry.link => entry.content = content[File])
    BY <1>6 DEF Entry, Name, StageInv, WorldInv
  <2>2. ASSUME NEW n \in DOMAIN targets'
        PROVE  /\ targets'[n] \in Entry /\ n[1] \in Files
               /\ targets'[n].link => targets'[n].content = content[n[1]]
    <3> HIDE DEF name, entry
    <3>1. CASE n = name
      BY <1>3, <1>6, <2>1, <3>1
    <3>2. CASE n # name
      BY <1>3, <2>2, <3>2 DEF StageInv, WorldInv
    <3> QED BY <3>1, <3>2
  <2>3. Listing(manifest)'
    BY <1>1 DEF StageInv, WorldInv, Listing, Past, runVars
  <2> QED BY <1>1, <2>2, <2>3 DEF StageInv, WorldInv, runVars
<1>8. CASE device = "same"
  <2>1. NextFile
    BY <1>8 DEF PlaceExport
  <2>2. \A g, e : g = File /\ e = stage.digest => Good(g, e)'
    BY <1>1, <1>3, <1>8 DEF Good, Name
  <2>3. \A g, e : g = File /\ e = stage.digest => CursorInv'
    BY <1>1, <1>2, <1>4, <1>6, <2>1, <2>2, NextStage, NextInv DEF StageInv
  <2> QED BY <1>5, <1>7, <2>3 DEF StageInv
<1>9. CASE device # "same"
  <2>1. stage' = [step |-> "copy", i |-> stage.i, listed |-> stage.listed, digest |-> stage.digest]
    BY <1>9 DEF PlaceExport, Go, StageInv, CursorInv
  <2>2. ASSUME NEW l \in {stage.listed}, NEW j \in DOMAIN Order, j < stage.i, Order[j] \in DOMAIN l
        PROVE  Good(Order[j], l[Order[j]])'
    <3>1. Good(Order[j], l[Order[j]])
      BY <1>1, <2>2 DEF StageInv, CursorInv
    <3> QED BY <1>4, <3>1
  <2>3. ASSUME NEW l \in {stage.listed} PROVE Listing(l)'
    BY <1>1, ListingStays DEF StageInv, CursorInv
  <2>4. stage' \in [step : StageSteps, i : Nat \ {0}, listed : {stage'.listed}, digest : Nat]
    BY <2>1 DEF StageInv, CursorInv, StageSteps
  <2>5. (stage.digest \in Past(File))' /\ File' = File
    BY <1>1, <1>6, <2>1 DEF Past, File
  <2>6. Name(File, stage.digest)' = name /\ name \in DOMAIN targets' /\ ~targets'[name].link
    <3>1. ~entry.link
      BY <1>9
    <3>2. Name(File, stage.digest)' = name
      BY <1>1, <2>1 DEF Name, File
    <3> HIDE DEF name, entry
    <3> QED BY <1>3, <3>1, <3>2
  <2>7. CursorInv'
    <3> HIDE DEF name, entry
    <3> QED BY <1>1, <1>2, <1>6, <2>1, <2>2, <2>3, <2>4, <2>5, <2>6 DEF CursorInv
  <2> QED BY <1>5, <1>7, <2>7 DEF StageInv
<1> QED BY <1>8, <1>9

LEMMA CopyExportInv ==
  ASSUME StageInv, CopyExport
  PROVE  StageInv'
<1> DEFINE name == Name(File, stage.digest)
<1>1. /\ stage.step = "copy" /\ kind = "export" /\ NextFile
      /\ UNCHANGED <<kind, content, made, runVars, graph>>
  BY DEF CopyExport, runVars
<1>2. temporary = {} /\ temporary' = {}
  BY <1>1, NoTemporary DEF CopyExport
<1>3. PICK c \in Copied : targets' = [targets EXCEPT ![name].content = c]
  BY DEF CopyExport
<1>4. /\ stage.i \in DOMAIN Order /\ File \in Files /\ name \in DOMAIN targets /\ ~targets[name].link
      /\ File \in DOMAIN stage.listed => stage.digest = stage.listed[File]
  BY <1>1, OrderFiles DEF StageInv, CursorInv, File
<1>5. targets[name] \in Entry /\ name[1] = File /\ content[File] \in Nat
  BY <1>4 DEF StageInv, WorldInv, Name
<1> HIDE DEF name
<1>6. /\ DOMAIN targets' = DOMAIN targets
      /\ targets'[name] \in Entry /\ targets'[name].content = c /\ ~targets'[name].link
      /\ \A n \in DOMAIN targets : n # name => targets'[n] = targets[n]
  BY <1>3, <1>4, <1>5 DEF Entry, Copied
<1>7. Good(File, stage.digest) => name \in DOMAIN targets
  BY <1>4
<1>8. \A g : g = File => \A e : e = stage.digest => Good(g, e)'
  BY <1>1, <1>3, <1>4, <1>6 DEF Good, Name, name, Copied
<1>9. ASSUME NEW g, NEW e, Good(g, e) PROVE Good(g, e)'
  <2>1. CASE Name(g, e) = name
    <3>1. g = File /\ e = stage.digest
      BY <1>1, <2>1 DEF Name, name
    <3> QED BY <1>8, <3>1
  <2>2. CASE Name(g, e) # name
    BY <1>1, <1>6, <1>9, <2>2 DEF Good, Name
  <2> QED BY <2>1, <2>2
<1>10. ShownInv'
  BY <1>1, <1>9, ShownStays DEF StageInv
<1>11. WorldInv'
  <2>1. \A n \in DOMAIN targets' : /\ targets'[n] \in Entry /\ n[1] \in Files
                                   /\ targets'[n].link => targets'[n].content = content[n[1]]
    BY <1>4, <1>5, <1>6 DEF StageInv, WorldInv
  <2>2. Listing(manifest)'
    BY <1>1 DEF StageInv, WorldInv, Listing, Past, runVars
  <2> QED BY <1>1, <2>1, <2>2 DEF StageInv, WorldInv, runVars
<1>12. \A g, e : g = File /\ e = stage.digest => CursorInv'
  BY <1>1, <1>2, <1>4, <1>8, <1>9, NextStage, NextInv DEF StageInv
<1> QED BY <1>10, <1>11, <1>12 DEF StageInv

LEMMA PlaceReviewInv ==
  ASSUME StageInv, PlaceReview
  PROVE  StageInv'
<1>1. /\ stage.step = "place" /\ kind = "review" /\ Name(File, stage.digest) \notin DOMAIN targets
      /\ UNCHANGED <<kind, runVars, targets, graph, content, made>>
  BY DEF PlaceReview, runVars
<1>2. WorldInv' /\ ShownInv'
  BY <1>1, WorldStays
<1>3. /\ stage.i \in DOMAIN Order /\ File \in Files /\ stage.digest \in Past(File)
      /\ File \in DOMAIN stage.listed => stage.digest = stage.listed[File]
  BY <1>1, OrderFiles DEF StageInv, CursorInv, File
<1>4. stage' = [step |-> "rehash", i |-> stage.i, listed |-> stage.listed, digest |-> stage.digest]
  BY DEF PlaceReview, Go, StageInv, CursorInv
<1>5. content[File] \in Nat /\ File' = File
  BY <1>3, <1>4 DEF StageInv, WorldInv, File
<1>6. \A t \in temporary' : t \in Entry /\ (t.link => t.content = content[File])
  <2>1. CASE device = "same"
    <3> DEFINE t == [content |-> content[File], link |-> TRUE]
    <3>1. temporary' = {t}
      BY <2>1 DEF PlaceReview
    <3>2. t \in Entry /\ t.content = content[File]
      BY <1>5 DEF Entry
    <3> HIDE DEF t
    <3> QED BY <3>1, <3>2
  <2>2. CASE device # "same"
    <3>1. PICK c \in Copied : temporary' = {[content |-> c, link |-> FALSE]}
      BY <2>2 DEF PlaceReview
    <3>2. c \in Nat
      BY <1>5 DEF Copied
    <3> DEFINE t == [content |-> c, link |-> FALSE]
    <3>3. t \in Entry /\ ~t.link
      BY <3>2 DEF Entry
    <3>4. temporary' = {t}
      BY <3>1
    <3> HIDE DEF t
    <3> QED BY <3>3, <3>4
  <2> QED BY <2>1, <2>2
<1>7. ASSUME NEW l \in {stage.listed}, NEW j \in DOMAIN Order, j < stage.i, Order[j] \in DOMAIN l
      PROVE  Good(Order[j], l[Order[j]])'
  <2>1. Good(Order[j], l[Order[j]])
    BY <1>1, <1>7 DEF StageInv, CursorInv
  <2> QED BY <1>1, <2>1, GoodStays
<1>8. ASSUME NEW l \in {stage.listed} PROVE Listing(l)'
  BY <1>1, ListingStays DEF StageInv, CursorInv
<1>9. stage' \in [step : StageSteps, i : Nat \ {0}, listed : {stage'.listed}, digest : Nat]
  BY <1>4 DEF StageInv, CursorInv, StageSteps
<1>10. (stage.digest \in Past(File))' /\ (Name(File, stage.digest) \notin DOMAIN targets)'
  BY <1>1, <1>3, <1>4 DEF Past, File, Name
<1>11. CursorInv'
  BY <1>1, <1>3, <1>4, <1>5, <1>6, <1>7, <1>8, <1>9, <1>10 DEF CursorInv
<1> QED BY <1>2, <1>11 DEF StageInv

LEMMA RehashInv ==
  ASSUME StageInv, Rehash
  PROVE  StageInv'
<1> DEFINE name == Name(File, stage.digest)
<1>1. PICK t \in temporary : t.content = stage.digest /\ targets' = Put(targets, name, t)
  BY DEF Rehash
<1>2. /\ stage.step = "rehash" /\ NextFile /\ temporary' = {} /\ name \notin DOMAIN targets
      /\ UNCHANGED <<kind, runVars, graph, content, made>>
  BY DEF Rehash, runVars, StageInv, CursorInv
<1>3. /\ stage.i \in DOMAIN Order /\ File \in Files /\ name[1] = File
      /\ File \in DOMAIN stage.listed => stage.digest = stage.listed[File]
      /\ t \in Entry /\ (t.link => t.content = content[File])
  BY <1>2, OrderFiles DEF StageInv, CursorInv, File, Name
<1>4. /\ DOMAIN targets' = DOMAIN targets \cup {name} /\ targets'[name] = t
      /\ \A n \in DOMAIN targets : n \in DOMAIN targets' /\ targets'[n] = targets[n]
  <2> HIDE DEF name
  <2> QED BY <1>1, <1>2, TargetAdded
<1>5. \A g, e : Good(g, e) => Good(g, e)'
  BY <1>2, <1>4, GoodStays
<1>6. ShownInv'
  BY <1>2, <1>5, ShownStays DEF StageInv
<1>7. WorldInv'
  <2>1. ASSUME NEW n \in DOMAIN targets'
        PROVE  /\ targets'[n] \in Entry /\ n[1] \in Files
               /\ targets'[n].link => targets'[n].content = content[n[1]]
    <3> HIDE DEF name
    <3>1. CASE n = name
      BY <1>3, <1>4, <3>1
    <3>2. CASE n # name
      BY <1>4, <2>1, <3>2 DEF StageInv, WorldInv
    <3> QED BY <3>1, <3>2
  <2>2. Listing(manifest)'
    BY <1>2 DEF StageInv, WorldInv, Listing, Past, runVars
  <2> QED BY <1>2, <2>1, <2>2 DEF StageInv, WorldInv, runVars
<1>8. \A g, e : g = File /\ e = stage.digest => Good(g, e)'
  BY <1>1, <1>2, <1>4 DEF Good, Name
<1>9. \A g, e : g = File /\ e = stage.digest => CursorInv'
  BY <1>2, <1>3, <1>5, <1>8, NextStage, NextInv DEF StageInv
<1> QED BY <1>6, <1>7, <1>9 DEF StageInv

\* The graph shows what has been passed: every file that was listed.
LEMMA WriteGraphInv ==
  ASSUME StageInv, WriteGraph
  PROVE  StageInv'
<1>1. /\ stage.step = "file" /\ stage.i = Len(Order) + 1 /\ graph' = {stage.listed}
      /\ UNCHANGED <<kind, runVars, targets, content, made>> /\ temporary' = {}
  BY NoTemporary DEF WriteGraph, runVars
<1>2. stage' = [step |-> "report", i |-> stage.i, listed |-> stage.listed, digest |-> stage.digest]
  BY DEF WriteGraph, Go, StageInv, CursorInv
<1>3. WorldInv'
  BY <1>1 DEF StageInv, WorldInv, runVars, Listing, Past
<1>4. ASSUME NEW l \in {stage.listed} PROVE Listing(l)' /\ DOMAIN l \subseteq Files
  BY <1>1, ListingStays DEF StageInv, CursorInv, Listing
<1>5. ASSUME NEW l \in {stage.listed}, NEW j \in DOMAIN Order, Order[j] \in DOMAIN l
      PROVE  Good(Order[j], l[Order[j]])'
  <2>1. j < stage.i
    <3>1. DOMAIN Order = 1..Len(Order) /\ Len(Order) \in Nat
      BY StageAssumption
    <3> QED BY <1>1, <3>1
  <2>2. Good(Order[j], l[Order[j]])
    BY <1>1, <1>5, <2>1 DEF StageInv, CursorInv
  <2> QED BY <1>1, <2>2, GoodStays
<1>6. ASSUME NEW l \in {stage.listed}, NEW f \in DOMAIN l PROVE Good(f, l[f])'
  <2>1. PICK j \in DOMAIN Order : Order[j] = f
    BY <1>4, StageAssumption
  <2> QED BY <1>5, <2>1
<1>7. ShownInv'
  BY <1>1, <1>4, <1>6 DEF ShownInv
<1>8. stage' \in [step : StageSteps, i : Nat \ {0}, listed : {stage'.listed}, digest : Nat]
  BY <1>2 DEF StageInv, CursorInv, StageSteps
<1>9. CursorInv'
  BY <1>1, <1>2, <1>4, <1>5, <1>8 DEF CursorInv
<1> QED BY <1>3, <1>7, <1>9 DEF StageInv

LEMMA WriteReportInv ==
  ASSUME StageInv, WriteReport
  PROVE  StageInv'
<1>1. UNCHANGED <<kind, runVars, targets, graph>> /\ stage' = NoStage /\ temporary' = {}
  BY NoTemporary DEF WriteReport
<1>2. WorldInv' /\ ShownInv'
  BY <1>1, WorldStays
<1> QED BY <1>1, <1>2 DEF StageInv, CursorInv, NoStage, StageSteps, Listing

-----------------------------------------------------------------------------

\* A step of the Run keeps what is known of a staging when it keeps the listings and what is good.
LEMMA RunStays ==
  ASSUME StageInv, UNCHANGED <<kind, stage, graph>>,
         \A l : Listing(l) => Listing(l)',
         \A f, d : f \in Files /\ d \in Past(f) /\ Good(f, d) => Good(f, d)',
         DOMAIN targets' = DOMAIN targets,
         \A n \in DOMAIN targets : ~targets[n].link => ~targets'[n].link,
         \A t \in temporary' : /\ t \in Entry /\ temporary # {}
                               /\ t.link => t.content = content'[File],
         \A f \in Files : Past(f) \subseteq Past(f)'
  PROVE  CursorInv' /\ ShownInv'
<1>1. ASSUME NEW l, Listing(l), NEW f \in DOMAIN l, Good(f, l[f]) PROVE Good(f, l[f])'
  BY <1>1 DEF Listing
<1>2. ShownInv'
  BY <1>1 DEF StageInv, ShownInv
<1>3. ASSUME NEW l \in {stage.listed}
      PROVE  /\ Listing(l)'
             /\ stage.step # "idle" =>
                  \A j \in DOMAIN Order :
                    j < stage.i /\ Order[j] \in DOMAIN l => Good(Order[j], l[Order[j]])'
  BY <1>1 DEF StageInv, CursorInv
<1>4. \A f, d : Name(f, d)' = Name(f, d)
  BY DEF Name
<1>5. File' = File
  BY DEF File
<1>6. stage.step \in {"place", "copy", "rehash"} => (stage.digest \in Past(File))'
  BY OrderFiles, <1>5 DEF StageInv, CursorInv, File
<1>7. stage.step = "copy" =>
        (Name(File, stage.digest) \in DOMAIN targets /\ ~targets[Name(File, stage.digest)].link)'
  BY DEF StageInv, CursorInv, File, Name
<1>8. stage.step = "rehash" => (Name(File, stage.digest) \notin DOMAIN targets)'
  BY DEF StageInv, CursorInv, File, Name
<1>9. \A t \in temporary' : stage.step = "rehash"
  BY DEF StageInv, CursorInv
<1>10. CursorInv'
  BY <1>3, <1>5, <1>6, <1>7, <1>8, <1>9 DEF StageInv, CursorInv
<1> QED BY <1>2, <1>10

LEMMA ExecuteInv ==
  ASSUME StageInv, Execute \/ Finish
  PROVE  StageInv'
<1>1. UNCHANGED <<kind, content, made, targets, temporary, stage, graph>>
  BY DEF Execute, Finish
<1>2. Listing(manifest)'
  <2>1. CASE Execute
    BY <2>1 DEF Execute, StageInv, WorldInv, Listing, Past
  <2>2. CASE Finish
    <3>1. CASE UNCHANGED manifest
      BY <1>1, <3>1 DEF StageInv, WorldInv, Listing, Past
    <3>2. CASE manifest' = [f \in {g \in Declared : content[g] # 0} |-> content[f]]
      <4>1. \A f \in Declared : f \in Files /\ (content[f] # 0 => content[f] \in Past(f))
        BY DEF StageInv, WorldInv, Past, Files
      <4> QED BY <1>1, <3>2, <4>1 DEF Listing, Past
    <3> QED BY <2>2, <3>1, <3>2 DEF Finish
  <2> QED BY <2>1, <2>2
<1>3. WorldInv'
  BY <1>1, <1>2 DEF StageInv, WorldInv
<1>4. ShownInv'
  BY <1>1, GoodStays, ListingStays DEF StageInv, ShownInv
<1>5. \A l : Listing(l) => Listing(l)'
  BY <1>1, ListingStays
<1>6. \A f, d : Good(f, d) => Good(f, d)'
  BY <1>1, GoodStays
<1>7. CursorInv'
  BY <1>1, <1>5, <1>6 DEF StageInv, CursorInv, File, Past, Name
<1> QED BY <1>3, <1>4, <1>7 DEF StageInv

\* A file that is written in place takes its hard links along; one that is replaced leaves them.
LEMMA ThroughEntry ==
  ASSUME NEW f, NEW c \in Nat, NEW entry \in Entry
  PROVE  /\ Through(f, c, entry) \in Entry /\ Through(f, c, entry).link = entry.link
         /\ entry.link => Through(f, c, entry).content = c
         /\ ~entry.link => Through(f, c, entry).content = entry.content
BY DEF Through, Entry

LEMMA WriteInv ==
  ASSUME StageInv, NEW f \in InPlace, NEW c \in Nat, WriteThrough(f, c),
         UNCHANGED <<kind, manifest, stage, graph>>,
         content' = [content EXCEPT ![f] = c], made' \in [Files -> Nat \ {0}],
         c \in {0, made'[f]}, \A g \in Files : g # f => made'[g] = made[g],
         Past(f) \subseteq Past(f)', c \notin Past(f)
  PROVE  StageInv'
<1>1. f \in Files /\ f \in Declared /\ f \notin Replaced
  BY StageAssumption DEF Files, Declared
<1>2. content' \in [Files -> Nat] /\ content'[f] = c /\ \A g \in Files : g # f => content'[g] = content[g]
  BY <1>1 DEF StageInv, WorldInv
<1>3. \A g \in Files : Past(g) \subseteq Past(g)'
  BY <1>2 DEF Past
<1>4. DOMAIN targets' = DOMAIN targets
  BY DEF WriteThrough
<1>5. ASSUME NEW n \in DOMAIN targets
      PROVE  /\ targets'[n] \in Entry /\ targets'[n].link = targets[n].link
             /\ targets'[n].link => targets'[n].content = content'[n[1]]
             /\ (targets'[n].link /\ n[1] = f) \/ targets'[n].content = targets[n].content
  <2>1. targets[n] \in Entry /\ n[1] \in Files /\ (targets[n].link => targets[n].content = content[n[1]])
    BY DEF StageInv, WorldInv
  <2>2. CASE n[1] = f
    <3>1. targets'[n] = Through(f, c, targets[n])
      BY <2>2 DEF WriteThrough
    <3> QED BY <1>2, <2>1, <2>2, <3>1, ThroughEntry DEF Entry
  <2>3. CASE n[1] # f
    <3>1. targets'[n] = targets[n]
      BY <2>3 DEF WriteThrough
    <3> QED BY <1>2, <2>1, <2>3, <3>1
  <2> QED BY <2>2, <2>3
<1>6. ASSUME NEW g \in Files, NEW d \in Past(g), Good(g, d)
      PROVE  Good(g, d)'
  <2>1. g \in Files /\ Name(g, d)' = Name(g, d) /\ Name(g, d)[1] = g /\ Name(g, d) \in DOMAIN targets
    BY <1>6 DEF Name, Files, Good
  <2> DEFINE n == Name(g, d)
  <2>2. CASE g = f
    <3>1. content'[g] # d
      BY <1>2, <2>2
    <3>2. targets'[n].link \/ targets'[n].content = targets[n].content
      BY <1>5, <2>1
    <3>3. targets'[n].link = targets[n].link
      BY <1>5, <2>1
    <3> QED BY <1>4, <1>6, <2>1, <2>2, <3>1, <3>2, <3>3 DEF Good
  <2>3. CASE g # f
    <3>1. targets'[n].content = targets[n].content /\ targets'[n].link = targets[n].link
      BY <1>5, <2>1, <2>3
    <3>2. content'[g] = content[g]
      BY <1>2, <2>1, <2>3
    <3> QED BY <1>4, <1>6, <2>1, <3>1, <3>2 DEF Good
  <2> QED BY <2>2, <2>3
<1>7. \A l : Listing(l) => Listing(l)'
  BY <1>3 DEF Listing, Files
<1>8. ASSUME NEW t \in temporary'
      PROVE  t \in Entry /\ temporary # {} /\ (t.link => t.content = content'[File])
  <2>1. temporary # {} => File \in Files /\ stage.i \in DOMAIN Order
    BY OrderFiles DEF StageInv, CursorInv, File
  <2>2. \A u \in temporary : u \in Entry /\ (u.link => u.content = content[File])
    BY DEF StageInv, CursorInv
  <2>3. CASE stage.i \in DOMAIN Order /\ File = f
    <3>1. PICK u \in temporary : t = Through(f, c, u)
      BY <2>3 DEF WriteThrough, File
    <3> QED BY <1>2, <2>2, <2>3, <3>1, ThroughEntry
  <2>4. CASE ~(stage.i \in DOMAIN Order /\ File = f)
    <3>1. temporary' = temporary
      BY <2>4 DEF WriteThrough, File
    <3> QED BY <1>2, <2>1, <2>2, <2>4, <3>1
  <2> QED BY <2>3, <2>4
<1>9. CursorInv' /\ ShownInv'
  BY <1>3, <1>4, <1>5, <1>6, <1>7, <1>8, RunStays
<1>10. Listing(manifest)'
  BY <1>7 DEF StageInv, WorldInv, Listing
<1>11. \A g \in Files : content'[g] \in {0, made'[g]} /\ (g \in Replaced => content'[g] # 0)
  BY <1>1, <1>2 DEF StageInv, WorldInv
<1>12. \A n \in DOMAIN targets' : n[1] \in Files
  BY <1>4 DEF StageInv, WorldInv
<1>13. WorldInv'
  BY <1>2, <1>4, <1>5, <1>10, <1>11, <1>12 DEF StageInv, WorldInv
<1> QED BY <1>9, <1>13 DEF StageInv

LEMMA InPlaceInv ==
  ASSUME StageInv, NEW f \in InPlace, Truncate(f) \/ Fill(f)
  PROVE  StageInv'
<1>1. f \in Files /\ made[f] \in Nat \ {0} /\ content[f] \in {0, made[f]}
  BY DEF Files, Declared, StageInv, WorldInv
<1>2. CASE Truncate(f)
  <2>1. /\ content' = [content EXCEPT ![f] = 0] /\ made' = [made EXCEPT ![f] = @ + 1]
        /\ WriteThrough(f, 0) /\ UNCHANGED <<kind, manifest, stage, graph>>
    BY <1>2 DEF Truncate
  <2>2. made' \in [Files -> Nat \ {0}] /\ \A g \in Files : g # f => made'[g] = made[g]
    BY <1>1, <2>1 DEF StageInv, WorldInv
  <2>3. content'[f] = 0 /\ made'[f] = made[f] + 1
    BY <1>1, <2>1 DEF StageInv, WorldInv
  <2>4. Past(f) \subseteq Past(f)' /\ 0 \notin Past(f)
    BY <1>1, <2>3 DEF Past
  <2> QED BY <2>1, <2>2, <2>4, WriteInv
<1>3. CASE Fill(f)
  <2>1. /\ content' = [content EXCEPT ![f] = made[f]] /\ content[f] = 0
        /\ WriteThrough(f, made[f]) /\ UNCHANGED <<kind, made, manifest, stage, graph>>
    BY <1>3 DEF Fill
  <2>2. content'[f] = made[f]
    BY <1>1, <2>1 DEF StageInv, WorldInv
  <2>3. Past(f) \subseteq Past(f)' /\ made[f] \notin Past(f)
    BY <1>1, <2>1, <2>2 DEF Past
  <2>4. made' \in [Files -> Nat \ {0}]
    BY <2>1 DEF StageInv, WorldInv
  <2> QED BY <1>1, <2>1, <2>3, <2>4, WriteInv
<1> QED BY <1>2, <1>3

LEMMA ReplaceInv ==
  ASSUME StageInv, NEW f \in Replaced, Replace(f)
  PROVE  StageInv'
<1>1. f \in Files /\ f \in Declared /\ f \notin InPlace /\ made[f] \in Nat \ {0} /\ content[f] = made[f]
  BY StageAssumption DEF Files, Declared, StageInv, WorldInv
<1>2. /\ made' = [made EXCEPT ![f] = @ + 1] /\ content' = [content EXCEPT ![f] = made'[f]]
      /\ UNCHANGED <<kind, manifest, stage, graph>>
  BY DEF Replace
<1>3. made' \in [Files -> Nat \ {0}] /\ made'[f] = made[f] + 1
  BY <1>1, <1>2 DEF StageInv, WorldInv
<1>4. content' \in [Files -> Nat] /\ content'[f] = made[f] + 1
  BY <1>1, <1>2, <1>3 DEF StageInv, WorldInv
<1>5. \A g \in Files : g # f => content'[g] = content[g] /\ made'[g] = made[g]
  BY <1>1, <1>2 DEF StageInv, WorldInv
<1>6. \A g \in Files : Past(g) \subseteq Past(g)'
  BY <1>1, <1>3, <1>4, <1>5 DEF Past
<1>7. \A entry \in Entry : LET old == [entry EXCEPT !.link = FALSE]
                           IN  old \in Entry /\ ~old.link /\ old.content = entry.content
  BY DEF Entry
<1>8. DOMAIN targets' = DOMAIN targets
  BY DEF Replace
<1>9. ASSUME NEW n \in DOMAIN targets
      PROVE  /\ targets'[n] \in Entry /\ targets'[n].content = targets[n].content
             /\ n[1] = f => ~targets'[n].link
             /\ n[1] # f => targets'[n] = targets[n]
             /\ targets'[n].link => targets[n].link
  <2>1. targets[n] \in Entry
    BY DEF StageInv, WorldInv
  <2>2. CASE n[1] = f
    BY <1>7, <2>1, <2>2 DEF Replace
  <2>3. CASE n[1] # f
    BY <2>1, <2>3 DEF Replace
  <2> QED BY <2>2, <2>3
<1>10. ASSUME NEW g \in Files, NEW d \in Past(g), Good(g, d)
       PROVE  Good(g, d)'
  <2>1. g \in Files /\ Name(g, d)' = Name(g, d) /\ Name(g, d)[1] = g /\ Name(g, d) \in DOMAIN targets
    BY <1>2, <1>10 DEF Name, Files, Good
  <2>2. CASE g = f
    <3>1. content'[g] # d
      BY <1>1, <1>4, <2>2 DEF Past
    <3> QED BY <1>1, <1>2, <1>8, <1>9, <1>10, <2>1, <2>2, <3>1 DEF Good
  <2>3. CASE g # f
    BY <1>2, <1>5, <1>8, <1>9, <1>10, <2>1, <2>3 DEF Good
  <2> QED BY <2>2, <2>3
<1>11. \A l : Listing(l) => Listing(l)'
  BY <1>6 DEF Listing, Files
<1>12. ASSUME NEW t \in temporary'
       PROVE  t \in Entry /\ temporary # {} /\ (t.link => t.content = content'[File])
  <2>1. temporary # {} => File \in Files /\ stage.i \in DOMAIN Order
    BY OrderFiles DEF StageInv, CursorInv, File
  <2>2. \A u \in temporary : u \in Entry /\ (u.link => u.content = content[File])
    BY DEF StageInv, CursorInv
  <2>3. CASE stage.i \in DOMAIN Order /\ File = f
    <3>1. PICK u \in temporary : t = [u EXCEPT !.link = FALSE]
      BY <2>3 DEF Replace, File
    <3> QED BY <1>7, <2>2, <3>1
  <2>4. CASE ~(stage.i \in DOMAIN Order /\ File = f)
    <3>1. temporary' = temporary
      BY <2>4 DEF Replace, File
    <3> QED BY <1>5, <2>1, <2>2, <2>4, <3>1
  <2> QED BY <2>3, <2>4
<1>13. CursorInv' /\ ShownInv'
  BY <1>2, <1>6, <1>8, <1>9, <1>10, <1>11, <1>12, RunStays
<1>14. \A n \in DOMAIN targets' : /\ targets'[n] \in Entry /\ n[1] \in Files
                                  /\ targets'[n].link => targets'[n].content = content'[n[1]]
  BY <1>5, <1>8, <1>9 DEF StageInv, WorldInv
<1>15. Listing(manifest)'
  BY <1>2, <1>11 DEF StageInv, WorldInv, Listing
<1>16. \A g \in Files : content'[g] \in {0, made'[g]} /\ (g \in Replaced => content'[g] # 0)
  BY <1>3, <1>4, <1>5 DEF StageInv, WorldInv
<1>17. WorldInv'
  BY <1>2, <1>3, <1>4, <1>14, <1>15, <1>16 DEF StageInv, WorldInv
<1> QED BY <1>13, <1>17 DEF StageInv

\* Whatever the Run rewrites or replaces meanwhile, and wherever a staging dies, what a graph shows
\* is staged with the content that it names, up to what the Run has changed since; the copies of an
\* import hold even then.
THEOREM StagedMediaIsTrue == FilesSpec => []StagedTrue
<1>1. FilesInit => StageInv
  BY StageInitInv DEF FilesInit
<1>2. StageInv /\ StageNext => StageInv'
  BY ReadingInv, ExistingInv, PlaceExportInv, CopyExportInv, PlaceReviewInv, RehashInv, WriteGraphInv,
     WriteReportInv, ExecuteInv, InPlaceInv, ReplaceInv DEF StageNext
<1>3. StageInv /\ UNCHANGED stageVars => StageInv'
  <2> SUFFICES ASSUME StageInv, UNCHANGED stageVars PROVE StageInv'
    OBVIOUS
  <2>1. UNCHANGED <<kind, runVars, targets, graph, temporary, stage>>
    BY DEF stageVars
  <2>2. \A l : Listing(l) => Listing(l)'
    BY <2>1, ListingStays DEF runVars
  <2>3. \A f, d : Good(f, d) => Good(f, d)'
    BY <2>1, GoodStays DEF runVars
  <2>4. WorldInv' /\ ShownInv'
    BY <2>1, WorldStays
  <2>5. CursorInv'
    BY <2>1, <2>2, <2>3 DEF StageInv, CursorInv, File, Past, Name, runVars
  <2> QED BY <2>4, <2>5 DEF StageInv
<1>4. StageInv /\ [FilesNext]_filesVars => StageInv'
  BY <1>2, <1>3 DEF FilesNext, filesVars
<1>5. StageInv => StagedTrue
  BY DEF StageInv, ShownInv, StagedTrue, Good, Listing, Name
<1> QED BY <1>1, <1>4, <1>5, PTL DEF FilesSpec

-----------------------------------------------------------------------------
(* The state file of a video task.  The lock makes it and the local          *)
(* dictionary of its owner agree; what it says bounds what was paid.         *)

KnownStatus == {"submitted", "polling", "polling_interrupted", "failed", "succeeded"}

\* Whoever is past FileLock holds the lock.
HolderInv == \A p \in Clients : pc[p] \notin {"idle", "lock"} => lock = p

\* What the holder of the lock knows about the state file, and about its own dictionary.
LocalInv ==
  \A p \in Clients :
    /\ pc[p] # "idle" => want[p] \in Requests
    /\ pc[p] = "upload" => disk = NoState
    /\ pc[p] \in {"post", "accepted", "ambiguous"} =>
         /\ disk.status = "creating" /\ mem[p].status = "creating"
         /\ mem[p].req = disk.req /\ disk.req = want[p]
    /\ pc[p] \in {"post", "ambiguous"} => mem[p].task = None
    /\ pc[p] = "post" => posts = 0
    /\ pc[p] \in {"accepted", "ambiguous"} => posts = 1
    /\ pc[p] = "accepted" => mem[p].task \in TaskIds /\ remote[mem[p].task] # "none"
    /\ pc[p] \in {"poll", "download", "record"} =>
         /\ disk.status \in KnownStatus /\ mem[p].task = disk.task
         /\ mem[p].req = disk.req /\ disk.req = want[p]
    /\ pc[p] \in {"poll", "download"} => ~Reusable
    /\ pc[p] \in {"download", "record"} => remote[disk.task] = "url"
    /\ pc[p] = "record" => dest \in {"good", "bad"}

\* What the state file proves about the payment.
DiskInv ==
  /\ disk.status = "absent" => disk = NoState /\ posts = 0
  /\ disk.status # "absent" => disk.req \in Requests
  /\ disk.status \in {"creating", "create_ambiguous"} => disk.task = None /\ posts <= 1
  /\ disk.status = "create_ambiguous" => posts = 1
  /\ disk.status \in KnownStatus =>
       disk.task \in TaskIds /\ remote[disk.task] # "none" /\ posts = 1
  /\ disk.status = "succeeded" =>
       remote[disk.task] = "url" /\ disk.sha \in {"good", "bad"} /\ dest # "none"

IInv == TypeOK /\ HolderInv /\ LocalInv /\ DiskInv

USE NoneAssumption DEF Reusable, State, NoState, DiskStatus, Content, RemoteStatus, PC, KnownStatus

-----------------------------------------------------------------------------
(* Every action preserves the invariant.                                     *)

LEMMA CallPreserves ==
  ASSUME IInv, NEW p \in Clients, NEW r \in Requests, Call(p, r)
  PROVE  IInv'
<1> USE DEF Call
<1>1. TypeOK'
  BY DEF IInv, TypeOK, LocalInv, DiskInv
<1>2. HolderInv'
  BY DEF IInv, TypeOK, HolderInv
<1>3. LocalInv'
  BY DEF IInv, TypeOK, HolderInv, LocalInv, DiskInv
<1>4. DiskInv'
  BY DEF IInv, TypeOK, HolderInv, LocalInv, DiskInv
<1>5. QED
  BY <1>1, <1>2, <1>3, <1>4 DEF IInv

LEMMA AcquirePreserves ==
  ASSUME IInv, NEW p \in Clients, Acquire(p)
  PROVE  IInv'
<1> USE DEF Acquire
<1>1. TypeOK'
  BY DEF IInv, TypeOK, LocalInv, DiskInv
<1>2. HolderInv'
  BY DEF IInv, TypeOK, HolderInv
<1>3. LocalInv'
  BY DEF IInv, TypeOK, HolderInv, LocalInv, DiskInv
<1>4. DiskInv'
  BY DEF IInv, TypeOK, HolderInv, LocalInv, DiskInv
<1>5. QED
  BY <1>1, <1>2, <1>3, <1>4 DEF IInv

LEMMA ReturnCachedPreserves ==
  ASSUME IInv, NEW p \in Clients, ReturnCached(p)
  PROVE  IInv'
<1> USE DEF ReturnCached, Exit
<1>1. TypeOK'
  BY DEF IInv, TypeOK
<1>2. HolderInv'
  BY DEF IInv, TypeOK, HolderInv
<1>3. LocalInv'
  BY DEF IInv, TypeOK, HolderInv, LocalInv
<1>4. DiskInv'
  BY DEF IInv, DiskInv
<1>5. QED
  BY <1>1, <1>2, <1>3, <1>4 DEF IInv

LEMMA CheckPreserves ==
  ASSUME IInv, NEW p \in Clients, Check(p)
  PROVE  IInv'
<1> USE DEF Step
<1>1. TypeOK'
  <2>1. CASE Exit(p)
    BY <2>1 DEF Check, Exit, IInv, TypeOK
  <2>2. CASE Step(p, "check", "poll") /\ mem' = [mem EXCEPT ![p] = disk]
    BY <2>2 DEF Check, IInv, TypeOK
  <2>3. CASE Step(p, "check", "upload") /\ UNCHANGED mem
    BY <2>3 DEF Check, IInv, TypeOK
  <2>4. QED
    BY <2>1, <2>2, <2>3 DEF Check
<1>2. HolderInv'
  BY DEF Check, Exit, IInv, TypeOK, HolderInv
<1>3. LocalInv'
  BY DEF Check, Exit, IInv, TypeOK, HolderInv, LocalInv, DiskInv
<1>4. DiskInv'
  BY DEF Check, IInv, DiskInv
<1>5. QED
  BY <1>1, <1>2, <1>3, <1>4 DEF IInv

LEMMA UploadPreserves ==
  ASSUME IInv, NEW p \in Clients, Upload(p)
  PROVE  IInv'
<1>1. CASE Exit(p) /\ UNCHANGED disk
  BY <1>1 DEF Upload, Exit, IInv, TypeOK, HolderInv, LocalInv, DiskInv
<1>2. CASE Persist(p, Creating(want[p])) /\ Step(p, "upload", "post")
  <2>1. want[p] \in Requests
    BY <1>2 DEF Step, IInv, LocalInv
  <2>2. /\ disk' = Creating(want[p])
        /\ mem' = [mem EXCEPT ![p] = Creating(want[p])]
        /\ Creating(want[p]) \in State
    BY <1>2, <2>1 DEF Persist, Creating, State, DiskStatus, Content
  <2>3. TypeOK'
    BY <1>2, <2>2 DEF Upload, Step, IInv, TypeOK
  <2>4. HolderInv'
    BY <1>2 DEF Upload, Step, IInv, TypeOK, HolderInv
  <2>5. LocalInv'
    BY <1>2, <2>1, <2>2 DEF Upload, Step, Creating, IInv, TypeOK, HolderInv, LocalInv, DiskInv
  <2>6. DiskInv'
    BY <1>2, <2>1, <2>2 DEF Upload, Step, Creating, IInv, TypeOK, HolderInv, LocalInv, DiskInv
  <2>7. QED
    BY <2>3, <2>4, <2>5, <2>6 DEF IInv
<1>3. QED
  BY <1>1, <1>2 DEF Upload

\* A state whose status or task is replaced is a state.
LEMMA Updated ==
  ASSUME NEW s \in State
  PROVE  /\ \A st \in DiskStatus : [s EXCEPT !.status = st] \in State
         /\ \A t \in TaskIds : [s EXCEPT !.task = t] \in State
OBVIOUS

LEMMA PostPreserves ==
  ASSUME IInv, NEW p \in Clients, Post(p)
  PROVE  IInv'
<1> USE DEF Post, Step
<1>1. TypeOK'
  <2>1. pc' \in [Clients -> PC] /\ remote' \in [TaskIds -> RemoteStatus]
    BY DEF IInv, TypeOK
  <2>2. mem' \in [Clients -> State]
    <3>1. mem \in [Clients -> State] /\ mem[p] \in State
      BY DEF IInv, TypeOK
    <3>2. \/ UNCHANGED mem
          \/ \E t \in TaskIds : mem' = [mem EXCEPT ![p] = [mem[p] EXCEPT !.task = t]]
      OBVIOUS
    <3> HIDE DEF State, Post
    <3>3. \A t \in TaskIds : [mem[p] EXCEPT !.task = t] \in State
      BY <3>1, Updated
    <3>4. QED
      BY <3>1, <3>2, <3>3
  <2>3. QED
    BY <2>1, <2>2 DEF IInv, TypeOK
<1>2. HolderInv'
  BY DEF IInv, TypeOK, HolderInv
<1>3. LocalInv'
  BY DEF IInv, TypeOK, HolderInv, LocalInv, DiskInv
<1>4. DiskInv'
  BY DEF IInv, TypeOK, HolderInv, LocalInv, DiskInv
<1>5. QED
  BY <1>1, <1>2, <1>3, <1>4 DEF IInv

LEMMA SubmittedPreserves ==
  ASSUME IInv, NEW p \in Clients, Submitted(p)
  PROVE  IInv'
<1> USE DEF Submitted, Step, Persist
<1>1. TypeOK'
  BY DEF IInv, TypeOK, LocalInv, DiskInv
<1>2. HolderInv'
  BY DEF IInv, TypeOK, HolderInv
<1>3. LocalInv'
  BY DEF IInv, TypeOK, HolderInv, LocalInv, DiskInv
<1>4. DiskInv'
  BY DEF IInv, TypeOK, HolderInv, LocalInv, DiskInv
<1>5. QED
  BY <1>1, <1>2, <1>3, <1>4 DEF IInv

LEMMA AmbiguousPreserves ==
  ASSUME IInv, NEW p \in Clients, Ambiguous(p)
  PROVE  IInv'
<1> USE DEF Ambiguous, Exit
<1>1. TypeOK'
  BY DEF IInv, TypeOK, LocalInv, DiskInv
<1>2. HolderInv'
  BY DEF IInv, TypeOK, HolderInv
<1>3. LocalInv'
  BY DEF IInv, TypeOK, HolderInv, LocalInv, DiskInv
<1>4. DiskInv'
  BY DEF IInv, TypeOK, HolderInv, LocalInv, DiskInv
<1>5. QED
  BY <1>1, <1>2, <1>3, <1>4 DEF IInv

LEMMA PollAgainPreserves ==
  ASSUME IInv, NEW p \in Clients, PollAgain(p)
  PROVE  IInv'
<1> USE DEF PollAgain, Step, Persist
<1>1. TypeOK'
  <2>1. PICK st \in {"polling", "polling_interrupted"} :
          disk' = [mem[p] EXCEPT !.status = st] /\ mem' = [mem EXCEPT ![p] = disk']
    OBVIOUS
  <2>2. disk' \in State
    <3>1. mem[p] \in State
      BY DEF IInv, TypeOK
    <3> HIDE DEF State, PollAgain
    <3>2. QED
      BY <2>1, <3>1, Updated
  <2>3. mem' \in [Clients -> State] /\ pc' \in [Clients -> PC]
    BY <2>1, <2>2 DEF IInv, TypeOK
  <2>4. QED
    BY <2>2, <2>3 DEF IInv, TypeOK
<1>2. HolderInv'
  BY DEF IInv, TypeOK, HolderInv
<1>3. LocalInv'
  BY DEF IInv, TypeOK, HolderInv, LocalInv, DiskInv
<1>4. DiskInv'
  BY DEF IInv, TypeOK, HolderInv, LocalInv, DiskInv
<1>5. QED
  BY <1>1, <1>2, <1>3, <1>4 DEF IInv

LEMMA PollUrlPreserves ==
  ASSUME IInv, NEW p \in Clients, PollUrl(p)
  PROVE  IInv'
<1> USE DEF PollUrl, Step
<1>1. TypeOK'
  BY DEF IInv, TypeOK, LocalInv, DiskInv
<1>2. HolderInv'
  BY DEF IInv, TypeOK, HolderInv
<1>3. LocalInv'
  BY DEF IInv, TypeOK, HolderInv, LocalInv, DiskInv
<1>4. DiskInv'
  BY DEF IInv, TypeOK, HolderInv, LocalInv, DiskInv
<1>5. QED
  BY <1>1, <1>2, <1>3, <1>4 DEF IInv

LEMMA PollFailedPreserves ==
  ASSUME IInv, NEW p \in Clients, PollFailed(p)
  PROVE  IInv'
<1> USE DEF PollFailed, Exit
<1>1. TypeOK'
  BY DEF IInv, TypeOK, LocalInv, DiskInv
<1>2. HolderInv'
  BY DEF IInv, TypeOK, HolderInv
<1>3. LocalInv'
  BY DEF IInv, TypeOK, HolderInv, LocalInv, DiskInv
<1>4. DiskInv'
  BY DEF IInv, TypeOK, HolderInv, LocalInv, DiskInv
<1>5. QED
  BY <1>1, <1>2, <1>3, <1>4 DEF IInv

LEMMA PollTimeoutPreserves ==
  ASSUME IInv, NEW p \in Clients, PollTimeout(p)
  PROVE  IInv'
<1> USE DEF PollTimeout, Exit
<1>1. TypeOK'
  BY DEF IInv, TypeOK, LocalInv, DiskInv
<1>2. HolderInv'
  BY DEF IInv, TypeOK, HolderInv
<1>3. LocalInv'
  BY DEF IInv, TypeOK, HolderInv, LocalInv, DiskInv
<1>4. DiskInv'
  BY DEF IInv, TypeOK, HolderInv, LocalInv, DiskInv
<1>5. QED
  BY <1>1, <1>2, <1>3, <1>4 DEF IInv

LEMMA DownloadPreserves ==
  ASSUME IInv, NEW p \in Clients, Download(p)
  PROVE  IInv'
<1> USE DEF Download, Step, Exit
<1>1. TypeOK'
  <2>1. pc' \in [Clients -> PC] /\ dest' \in Content
    BY DEF IInv, TypeOK
  <2>2. mem' \in [Clients -> State]
    BY DEF IInv, TypeOK
  <2>3. lock' \in Clients \cup {None} /\ want' \in [Clients -> Requests \cup {None}]
    BY DEF IInv, TypeOK
  <2>4. QED
    BY <2>1, <2>2, <2>3 DEF IInv, TypeOK
<1>2. HolderInv'
  BY DEF IInv, TypeOK, HolderInv
<1>3. LocalInv'
  BY DEF IInv, TypeOK, HolderInv, LocalInv, DiskInv
<1>4. DiskInv'
  BY DEF IInv, TypeOK, HolderInv, LocalInv, DiskInv
<1>5. QED
  BY <1>1, <1>2, <1>3, <1>4 DEF IInv

LEMMA RecordPreserves ==
  ASSUME IInv, NEW p \in Clients, Record(p)
  PROVE  IInv'
<1>1. mem[p] \in State /\ disk' = [mem[p] EXCEPT !.status = "succeeded", !.sha = dest]
  BY DEF Record, IInv, TypeOK
<1>2. disk' \in State
  BY <1>1 DEF IInv, TypeOK
<1>3. TypeOK'
  BY <1>2 DEF Record, Exit, IInv, TypeOK
<1>4. HolderInv'
  BY DEF Record, Exit, IInv, TypeOK, HolderInv
<1>5. LocalInv'
  BY <1>1 DEF Record, Exit, IInv, TypeOK, HolderInv, LocalInv, DiskInv
<1>6. DiskInv'
  BY <1>1 DEF Record, Exit, IInv, TypeOK, HolderInv, LocalInv, DiskInv
<1>7. QED
  BY <1>3, <1>4, <1>5, <1>6 DEF IInv

LEMMA CrashPreserves ==
  ASSUME IInv, NEW p \in Clients, Crash(p)
  PROVE  IInv'
<1> USE DEF Crash, Exit
<1>1. TypeOK'
  BY DEF IInv, TypeOK, LocalInv, DiskInv
<1>2. HolderInv'
  BY DEF IInv, TypeOK, HolderInv
<1>3. LocalInv'
  BY DEF IInv, TypeOK, HolderInv, LocalInv, DiskInv
<1>4. DiskInv'
  BY DEF IInv, TypeOK, HolderInv, LocalInv, DiskInv
<1>5. QED
  BY <1>1, <1>2, <1>3, <1>4 DEF IInv

LEMMA RemoteEndsPreserves ==
  ASSUME IInv, NEW t \in TaskIds, RemoteEnds(t)
  PROVE  IInv'
<1> USE DEF RemoteEnds
<1>1. TypeOK'
  BY DEF IInv, TypeOK, LocalInv, DiskInv
<1>2. HolderInv'
  BY DEF IInv, TypeOK, HolderInv
<1>3. LocalInv'
  BY DEF IInv, TypeOK, HolderInv, LocalInv, DiskInv
<1>4. DiskInv'
  BY DEF IInv, TypeOK, HolderInv, LocalInv, DiskInv
<1>5. QED
  BY <1>1, <1>2, <1>3, <1>4 DEF IInv

LEMMA DamagePreserves ==
  ASSUME IInv, Damage
  PROVE  IInv'
<1> USE DEF Damage
<1>1. TypeOK'
  BY DEF IInv, TypeOK, LocalInv, DiskInv
<1>2. HolderInv'
  BY DEF IInv, TypeOK, HolderInv
<1>3. LocalInv'
  BY DEF IInv, TypeOK, HolderInv, LocalInv, DiskInv
<1>4. DiskInv'
  BY DEF IInv, TypeOK, HolderInv, LocalInv, DiskInv
<1>5. QED
  BY <1>1, <1>2, <1>3, <1>4 DEF IInv

-----------------------------------------------------------------------------
LEMMA InitInv == Init => IInv
BY DEF Init, IInv, TypeOK, HolderInv, LocalInv, DiskInv

LEMMA StepInv == IInv /\ [Next]_vars => IInv'
<1> SUFFICES ASSUME IInv, [Next]_vars PROVE IInv'
  OBVIOUS
<1>1. ASSUME NEW p \in Clients, NEW r \in Requests, Call(p, r) PROVE IInv'
  BY <1>1, CallPreserves
<1>2. ASSUME NEW p \in Clients, Acquire(p) \/ Crash(p) PROVE IInv'
  BY <1>2, AcquirePreserves, CrashPreserves
<1>3. ASSUME NEW p \in Clients, Running(p) PROVE IInv'
  BY <1>3, ReturnCachedPreserves, CheckPreserves, UploadPreserves, PostPreserves, SubmittedPreserves,
     AmbiguousPreserves, DownloadPreserves, RecordPreserves DEF Running
<1>4. ASSUME NEW p \in Clients, Polling(p) PROVE IInv'
  BY <1>4, PollAgainPreserves, PollUrlPreserves, PollFailedPreserves, PollTimeoutPreserves
     DEF Polling
<1>5. ASSUME NEW t \in TaskIds, RemoteEnds(t) PROVE IInv'
  BY <1>5, RemoteEndsPreserves
<1>6. CASE Damage
  BY <1>6, DamagePreserves
<1>7. CASE UNCHANGED vars
  BY <1>7 DEF vars, IInv, TypeOK, HolderInv, LocalInv, DiskInv
<1>8. QED
  BY <1>1, <1>2, <1>3, <1>4, <1>5, <1>6, <1>7 DEF Next

(***************************************************************************)
(* The inductive invariant holds in every reachable state.                 *)
(***************************************************************************)
THEOREM Invariance == Spec => []IInv
BY InitInv, StepInv, PTL DEF Spec

\* Every variable keeps its type, the state file's record included (video.py:206-359).
THEOREM TypeCorrect == Spec => []TypeOK
<1>1. IInv => TypeOK
  BY DEF IInv
<1>2. QED
  BY <1>1, Invariance, PTL

(***************************************************************************)
(* At most one paid creation is ever sent for a state file, for any number *)
(* of clients, crashes and repeated calls (video.py:226-300).              *)
(***************************************************************************)
THEOREM NoDuplicatePayment == Spec => []AtMostOneCreation
<1>1. IInv => AtMostOneCreation
  BY DEF IInv, TypeOK, DiskInv, AtMostOneCreation
<1>2. QED
  BY <1>1, Invariance, PTL

(***************************************************************************)
(* What was sent left a trace in the state file, and the task id there is  *)
(* that of a task that exists (video.py:277-300).                          *)
(***************************************************************************)
THEOREM TraceIsDurable == Spec => []DurableTrace
<1>1. IInv => DurableTrace
  BY DEF IInv, TypeOK, DiskInv, DurableTrace
<1>2. QED
  BY <1>1, Invariance, PTL

\* What a call returns is the recorded video of its own request.
LEMMA ReturnsEarned ==
  ASSUME IInv, NEW p \in Clients, Returns(p)
  PROVE  /\ disk'.status = "succeeded" /\ disk'.req = want[p]
         /\ remote[disk'.task] = "url"
         /\ dest' = disk'.sha
         /\ dest' = "good" \/ pc[p] = "record"
<1>1. CASE ReturnCached(p)
  BY <1>1 DEF ReturnCached, IInv, DiskInv
<1>2. CASE Record(p)
  <2>1. mem[p] \in State /\ disk' = [mem[p] EXCEPT !.status = "succeeded", !.sha = dest]
    BY <1>2 DEF Record, IInv, TypeOK
  <2>2. /\ disk'.status = "succeeded" /\ disk'.req = mem[p].req
        /\ disk'.task = mem[p].task /\ disk'.sha = dest
    BY <2>1
  <2>3. QED
    BY <1>2, <2>2 DEF Record, IInv, LocalInv
<1>3. QED
  BY <1>1, <1>2 DEF Returns

LEMMA SameState ==
  ASSUME NEW x \in State, NEW y \in State,
         x.status = y.status, x.req = y.req, x.task = y.task, x.sha = y.sha
  PROVE  x = y
OBVIOUS

\* As long as the cached video can be returned, only damage changes it or its record.
LEMMA EarnedStays ==
  ASSUME IInv, [Next]_vars, Reusable
  PROVE  UNCHANGED <<disk, dest>> \/ Damage
<1> USE DEF IInv, HolderInv, LocalInv
<1>1. ASSUME NEW p \in Clients, Record(p) PROVE UNCHANGED <<disk, dest>>
  <2>1. mem[p] \in State /\ disk' = [mem[p] EXCEPT !.status = "succeeded", !.sha = dest]
    BY <1>1 DEF Record, TypeOK
  <2>2. disk' \in State /\ disk'.status = "succeeded" /\ disk'.req = mem[p].req
        /\ disk'.task = mem[p].task /\ disk'.sha = dest
    BY <2>1 DEF TypeOK
  <2>3. disk \in State /\ mem[p].req = disk.req /\ mem[p].task = disk.task
    BY <1>1 DEF Record, TypeOK
  <2>4. dest' = dest
    BY <1>1 DEF Record
  <2>5. /\ disk'.status = disk.status /\ disk'.req = disk.req
        /\ disk'.task = disk.task /\ disk'.sha = disk.sha
    BY <2>2, <2>3
  <2>6. disk' = disk
    BY <2>2, <2>3, <2>5, SameState
  <2>7. QED
    BY <2>4, <2>6
<1>2. ASSUME NEW p \in Clients, Running(p), ~Record(p) PROVE UNCHANGED <<disk, dest>>
  <2>1. CASE ReturnCached(p) \/ Check(p) \/ Post(p)
    BY <2>1 DEF ReturnCached, Check, Post
  <2>2. ~Upload(p)
    BY DEF Upload, Step, Persist, Exit
  <2>3. ~Submitted(p) /\ ~Ambiguous(p)
    BY DEF Submitted, Ambiguous, Step
  <2>4. ~Download(p) \/ UNCHANGED <<disk, dest>>
    BY DEF Download, Step
  <2>5. QED
    BY <1>2, <2>1, <2>2, <2>3, <2>4 DEF Running
<1>3. ASSUME NEW p \in Clients, Polling(p) PROVE FALSE
  BY <1>3 DEF Polling, PollAgain, PollUrl, PollFailed, PollTimeout, Step
<1>4. ASSUME NEW p \in Clients, (\E r \in Requests : Call(p, r)) \/ Acquire(p) \/ Crash(p)
      PROVE  UNCHANGED <<disk, dest>>
  BY <1>4 DEF Call, Acquire, Crash
<1>5. ASSUME NEW t \in TaskIds, RemoteEnds(t) PROVE UNCHANGED <<disk, dest>>
  BY <1>5 DEF RemoteEnds
<1>6. CASE UNCHANGED vars
  BY <1>6 DEF vars
<1>7. QED
  BY <1>1, <1>2, <1>3, <1>4, <1>5, <1>6 DEF Next

(***************************************************************************)
(* A call returns only the recorded video of its own request, and as long  *)
(* as it is intact no call touches the video or its record.                *)
(***************************************************************************)
THEOREM OnlyEarnedSuccess == Spec => SuccessIsEarned
<1>1. IInv /\ [Next]_vars =>
        /\ \A p \in Clients : Returns(p) =>
             /\ disk'.status = "succeeded" /\ disk'.req = want[p]
             /\ remote[disk'.task] = "url"
             /\ dest' = disk'.sha
             /\ dest' = "good" \/ pc[p] = "record"
        /\ disk.status = "succeeded" /\ dest = disk.sha /\ dest = "good" =>
             UNCHANGED <<disk, dest>> \/ Damage
  BY ReturnsEarned, EarnedStays
<1>2. QED
  BY <1>1, Invariance, PTL DEF Spec, SuccessIsEarned

-----------------------------------------------------------------------------
(* The provider implements PaidTask.                                         *)

\* A step that keeps the phase, the payments and the task id.
LEMMA QuietStep ==
  ASSUME UNCHANGED posts, disk'.status = disk.status \/ {disk.status, disk'.status} \subseteq KnownStatus,
         disk'.task = disk.task
  PROVE  UNCHANGED Paid!taskVars
BY DEF Phase, Paid!taskVars

LEMMA PaidInitial == Init => Paid!PaidInit
BY DEF Init, Paid!PaidInit, Phase

LEMMA PaidStep ==
  ASSUME IInv, [Next]_vars
  PROVE  [Paid!PaidNext]_(Paid!taskVars)
<1> USE DEF IInv
<1>1. CASE UNCHANGED <<disk, posts>>
  BY <1>1, QuietStep
<1>2. ASSUME NEW p \in Clients, Upload(p) PROVE Paid!Intend \/ UNCHANGED <<disk, posts>>
  <2>1. CASE UNCHANGED disk
    BY <1>2, <2>1 DEF Upload
  <2>2. CASE Persist(p, Creating(want[p]))
    BY <1>2, <2>2 DEF Upload, Persist, Creating, LocalInv, Paid!Intend, Phase
  <2>3. QED
    BY <1>2, <2>1, <2>2 DEF Upload
<1>3. ASSUME NEW p \in Clients, Post(p) PROVE Paid!Pay
  BY <1>3 DEF Post, Step, LocalInv, Paid!Pay, Phase
<1>4. ASSUME NEW p \in Clients, Submitted(p) PROVE Paid!Learn
  BY <1>4 DEF Submitted, Step, Persist, TypeOK, LocalInv, Paid!Learn, Phase
<1>5. ASSUME NEW p \in Clients, Ambiguous(p) PROVE Paid!GiveUp
  <2>1. disk'.status = "create_ambiguous" /\ disk'.task = None
    BY <1>5 DEF Ambiguous, TypeOK, LocalInv
  <2>2. disk.status = "creating" /\ disk.task = None /\ posts = 1
    BY <1>5 DEF Ambiguous, LocalInv, DiskInv
  <2>3. QED
    BY <1>5, <2>1, <2>2 DEF Ambiguous, Paid!GiveUp, Phase
<1>6. ASSUME NEW p \in Clients, Polling(p) PROVE UNCHANGED Paid!taskVars
  <2>1. UNCHANGED disk \/ (disk'.status \in KnownStatus /\ disk'.task = disk.task)
    BY <1>6 DEF Polling, PollAgain, PollUrl, PollFailed, PollTimeout, Step, Persist,
                TypeOK, LocalInv
  <2>2. UNCHANGED posts /\ disk.status \in KnownStatus
    BY <1>6 DEF Polling, PollAgain, PollUrl, PollFailed, PollTimeout, Step, LocalInv
  <2>3. QED
    BY <2>1, <2>2, QuietStep
<1>7. ASSUME NEW p \in Clients, Record(p) PROVE UNCHANGED Paid!taskVars
  <2>1. disk'.status = "succeeded" /\ disk'.task = disk.task /\ disk.status \in KnownStatus
    BY <1>7 DEF Record, TypeOK, LocalInv
  <2>2. QED
    BY <1>7, <2>1, QuietStep DEF Record
<1>8. ASSUME NEW p \in Clients,
             \/ (\E r \in Requests : Call(p, r)) \/ Acquire(p) \/ ReturnCached(p)
             \/ Check(p) \/ Download(p) \/ Crash(p)
      PROVE  UNCHANGED <<disk, posts>>
  BY <1>8 DEF Call, Acquire, ReturnCached, Check, Download, Crash
<1>9. ASSUME NEW t \in TaskIds, RemoteEnds(t) PROVE UNCHANGED <<disk, posts>>
  BY <1>9 DEF RemoteEnds
<1>10. CASE Damage \/ UNCHANGED vars
  BY <1>1, <1>10 DEF Damage, vars
<1>11. QED
  BY <1>1, <1>2, <1>3, <1>4, <1>5, <1>6, <1>7, <1>8, <1>9, <1>10
     DEF Next, Running, Paid!PaidNext

(***************************************************************************)
(* Every behaviour of the provider is one of PaidTask: the intent is       *)
(* durable before the one payment, and a learned task id is never lost.    *)
(***************************************************************************)
THEOREM Refinement == Spec => ImplementsPaidTask
BY PaidInitial, PaidStep, Invariance, PTL DEF Spec, ImplementsPaidTask, Paid!PaidSpec
=============================================================================
