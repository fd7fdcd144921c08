------------------------- MODULE RunLifecycleProofs --------------------------
(***************************************************************************)
(* Proofs about RunLifecycle for any number of callers, images and shots.  *)
(* What the holder of .run.lock has in memory agrees with the files, and   *)
(* nothing on disk claims more than it may while the holder is at work.    *)
(***************************************************************************)
EXTENDS RunLifecycle, TLAPS

Waiting == {"idle", "lock"}
Working == {"images", "videos", "story", "conclude"}
Executing == Working \cup {"write"}

\* Whoever is past FileLock holds the lock.
LockInv == \A p \in Callers : pc[p] \notin Waiting => lock = p

\* All that a manifest of its mode promises.
Whole(m) ==
  /\ m.mode # "plan_only" => \A i \in Images : m.arts[i] # 0
  /\ m.mode = "full" => Made(m.arts) /\ m.arts[Story] # 0

Paired(arts) == \A s \in Shots : arts[s] # 0 => arts[s] = arts[Keyframe[s]]

\* What the holder knows when it is at stage st.
Agrees ==
  /\ \A f \in Files : mem.arts[f] # 0 => files[f] = mem.arts[f]
  /\ Paired(mem.arts)

\* The create request of the shot at which an execution is cut off may be missing in the count.
Missed == IF shot \in Shots THEN 1 ELSE 0

OnDisk(st) ==
  /\ st \in Executing => manifest.status = "running"
  /\ st = "prompts" => manifest = mem

Reached(st) ==
  /\ st \in Working => mem.status = "running"
  /\ st = "images" => mem.mode = mode /\ mode # "plan_only" /\ shot = 1
  /\ st \in {"videos", "story"} => mem.mode = "full" /\ mem.arts[Story] = 0
  /\ st \in Working => created <= mem.gen
  /\ st \in {"write", "prompts"} => created <= mem.gen + Missed
  /\ st = "videos" => \A s \in Shots : s >= shot => mem.arts[s] = 0
  /\ st = "videos" => shot \in Shots /\ (~erred => (\A s \in Shots : s < shot => mem.arts[s] # 0))
  /\ st \in {"videos", "story"} => (~erred => \A i \in Images : mem.arts[i] # 0)
  /\ st = "story" => Made(mem.arts)
  /\ st = "conclude" => (~erred => Whole(mem))
  /\ st \in {"write", "prompts"} => (mem.status = "complete" => Whole(mem))

Held(st) == Agrees /\ OnDisk(st) /\ Reached(st)

HolderInv == \A p \in Callers : pc[p] \notin Waiting \cup {"open"} => Held(pc[p])

IInv == TypeOK /\ LockInv /\ HolderInv /\ CompleteIsWhole /\ VideoOfKeyframe

USE RunAssumption DEF Shots, Files, Modes, Content, Ops, PC, Waiting, Working, Executing

-----------------------------------------------------------------------------
(* Manifests.                                                                *)

LEMMA Fields ==
  ASSUME NEW m \in Manifest
  PROVE  /\ m.status \in {"none", "running", "complete", "partial", "failed"}
         /\ m.mode \in Modes /\ m.arts \in [Files -> Content] /\ m.gen \in Nat
  BY DEF Manifest

LEMMA WithArts ==
  ASSUME NEW m \in Manifest, NEW a \in [Files -> Content],
         NEW n, n = [m EXCEPT !.arts = a]
  PROVE  /\ n \in Manifest /\ n.arts = a
         /\ n.status = m.status /\ n.mode = m.mode /\ n.gen = m.gen
  BY DEF Manifest

LEMMA WithGen ==
  ASSUME NEW m \in Manifest, NEW g \in Nat,
         NEW n, n = [m EXCEPT !.gen = g]
  PROVE  /\ n \in Manifest /\ n.gen = g
         /\ n.status = m.status /\ n.mode = m.mode /\ n.arts = m.arts
  BY DEF Manifest

LEMMA WithStatus ==
  ASSUME NEW m \in Manifest, NEW s \in {"none", "running", "complete", "partial", "failed"},
         NEW n, n = [m EXCEPT !.status = s]
  PROVE  /\ n \in Manifest /\ n.status = s
         /\ n.gen = m.gen /\ n.mode = m.mode /\ n.arts = m.arts
  BY DEF Manifest

LEMMA BlankFields ==
  ASSUME NEW s \in {"none", "running", "complete", "partial", "failed"}, NEW m \in Modes,
         NEW a \in [Files -> Content]
  PROVE  /\ Blank(s, m, a) \in Manifest
         /\ Blank(s, m, a).status = s /\ Blank(s, m, a).mode = m
         /\ Blank(s, m, a).arts = a /\ Blank(s, m, a).gen = 0
  BY DEF Blank, Manifest

LEMMA NothingType == Nothing \in [Files -> Content]
  BY DEF Nothing

-----------------------------------------------------------------------------
(* The holder is alone.                                                      *)

LEMMA Alone ==
  ASSUME IInv, NEW p \in Callers, pc[p] \notin Waiting
  PROVE  lock = p /\ \A q \in Callers : q # p => pc[q] \in Waiting
  BY DEF IInv, TypeOK, LockInv

\* A step of the holder keeps the invariant when it keeps what the holder knows.
LEMMA StepPreserves ==
  ASSUME IInv, NEW p \in Callers, NEW from \in PC, NEW to \in PC, Step(p, from, to),
         from \notin Waiting, to \notin Waiting \cup {"open"},
         TypeOK', Held(to)', CompleteIsWhole', VideoOfKeyframe'
  PROVE  IInv'
<1>1. pc[p] = from /\ pc' = [pc EXCEPT ![p] = to] /\ lock' = lock
  BY DEF Step
<1>2. lock = p /\ \A q \in Callers : q # p => pc[q] \in Waiting
  BY <1>1, Alone
<1>3. pc'[p] = to /\ \A q \in Callers : q # p => pc'[q] = pc[q]
  BY <1>1 DEF IInv, TypeOK
<1>4. LockInv'
  BY <1>1, <1>2, <1>3 DEF LockInv
<1>5. HolderInv'
  BY <1>2, <1>3 DEF HolderInv
<1>6. QED
  BY <1>4, <1>5 DEF IInv

\* So does leaving the lock.
LEMMA ExitPreserves ==
  ASSUME IInv, NEW p \in Callers, Exit(p), UNCHANGED files,
         prompts' \subseteq Images, task' \in [Shots -> Task], manifest' \in Manifest,
         lock # p => UNCHANGED manifest, CompleteIsWhole', VideoOfKeyframe'
  PROVE  IInv'
<1>1. pc' = [pc EXCEPT ![p] = "idle"] /\ mode' = mode
  BY DEF Exit
<1>2. pc'[p] = "idle" /\ \A q \in Callers : q # p => pc'[q] = pc[q]
  BY <1>1 DEF IInv, TypeOK
<1>3. CASE lock = p
  <2>1. \A q \in Callers : pc'[q] \in Waiting
    BY <1>2, <1>3 DEF IInv, LockInv
  <2>2. /\ lock' = None /\ mem' = Blank("none", mode, Nothing) /\ rows' = {}
        /\ erred' = FALSE /\ shot' = 1 /\ created' = 0 /\ op' = "run"
    BY <1>3 DEF Exit
  <2>3. mem' \in Manifest
    BY <2>2, BlankFields, NothingType DEF IInv, TypeOK
  <2>4. TypeOK'
    <3>1. shot' \in 1..(NumShots + 1) /\ created' \in Nat
      BY <2>2
    <3>5. erred' \in BOOLEAN /\ rows' \subseteq Images
      BY <2>2
    <3>2. pc' \in [Callers -> PC] /\ mode' \in Modes /\ lock' \in Callers \cup {None} /\ op' \in Ops
      BY <1>1, <2>2 DEF IInv, TypeOK
    <3>3. files' \in [Files -> Content]
      BY DEF IInv, TypeOK
    <3>4. QED
      BY <2>3, <3>1, <3>2, <3>3, <3>5 DEF TypeOK
  <2>5. LockInv' /\ HolderInv'
    BY <2>1 DEF LockInv, HolderInv
  <2>6. QED
    BY <2>4, <2>5 DEF IInv
<1>4. CASE lock # p
  <2>1. UNCHANGED <<lock, op, mem, rows, erred, shot, created, manifest>>
    BY <1>4 DEF Exit, holder
  <2>2. TypeOK'
    BY <1>1, <2>1 DEF IInv, TypeOK
  <2>3. LockInv'
    BY <1>2, <2>1 DEF IInv, LockInv
  <2>4. HolderInv'
    <3>1. SUFFICES ASSUME NEW q \in Callers, pc'[q] \notin Waiting \cup {"open"}
                   PROVE  Held(pc[q])'
      BY DEF HolderInv
    <3>2. q # p /\ pc'[q] = pc[q] /\ Held(pc[q])
      BY <1>2, <3>1 DEF IInv, HolderInv
    <3>3. QED
      BY <1>1, <2>1, <3>2 DEF Held, Agrees, OnDisk, Reached, Missed
  <2>5. QED
    BY <2>2, <2>3, <2>4 DEF IInv
<1>5. QED
  BY <1>3, <1>4

\* As long as a manifest says running it promises nothing.
LEMMA RunningPromisesNothing ==
  ASSUME manifest.status # "complete"
  PROVE  CompleteIsWhole
  BY DEF CompleteIsWhole

-----------------------------------------------------------------------------
(* Every action preserves the invariant.                                     *)

LEMMA CallPreserves ==
  ASSUME IInv, NEW p \in Callers, Call(p)
  PROVE  IInv'
<1> USE DEF Call, holder
<1>1. pc'[p] = "lock" /\ \A q \in Callers : q # p => pc'[q] = pc[q]
  BY DEF IInv, TypeOK
<1>2. TypeOK'
  BY DEF IInv, TypeOK
<1>3. LockInv'
  BY <1>1 DEF IInv, LockInv
<1>4. HolderInv'
  <2>1. SUFFICES ASSUME NEW q \in Callers, pc'[q] \notin Waiting \cup {"open"}
                 PROVE  Held(pc[q])'
    BY DEF HolderInv
  <2>2. pc'[q] = pc[q] /\ Held(pc[q])
    BY <1>1, <2>1 DEF IInv, HolderInv
  <2>3. QED
    BY <2>2 DEF Held, Agrees, OnDisk, Reached, Missed
<1>5. CompleteIsWhole' /\ VideoOfKeyframe'
  BY DEF IInv, CompleteIsWhole, VideoOfKeyframe
<1>6. QED
  BY <1>2, <1>3, <1>4, <1>5 DEF IInv

LEMMA AcquirePreserves ==
  ASSUME IInv, NEW p \in Callers, NEW o \in Ops, Acquire(p, o)
  PROVE  IInv'
<1> USE DEF Acquire, holder
<1>1. pc'[p] = "open" /\ \A q \in Callers : q # p => pc'[q] = pc[q] /\ pc[q] \in Waiting
  BY DEF IInv, TypeOK, LockInv
<1>2. TypeOK'
  BY DEF IInv, TypeOK
<1>3. LockInv' /\ HolderInv'
  BY <1>1 DEF LockInv, HolderInv
<1>4. CompleteIsWhole' /\ VideoOfKeyframe'
  BY DEF IInv, CompleteIsWhole, VideoOfKeyframe
<1>5. QED
  BY <1>2, <1>3, <1>4 DEF IInv

LEMMA OpenPreserves ==
  ASSUME IInv, NEW p \in Callers, Open(p)
  PROVE  IInv'
<1> DEFINE fresh == Blank("running", mode, Nothing)
<1>1. /\ manifest' = fresh /\ mem' = fresh
      /\ rows' = {} /\ erred' = FALSE /\ shot' = 1 /\ created' = 0
      /\ UNCHANGED <<prompts, files, task>>
      /\ Step(p, "open", IF mode = "plan_only" THEN "conclude" ELSE "images")
  BY DEF Open, Start
<1>2. mode' = mode /\ lock' = lock /\ op' = op
  BY <1>1 DEF Step
<1>3. /\ fresh \in Manifest /\ fresh.status = "running" /\ fresh.mode = mode
      /\ fresh.arts = Nothing /\ fresh.gen = 0
  <2>1. mode \in Modes
    BY DEF IInv, TypeOK
  <2>2. Nothing \in [Files -> Content]
    BY NothingType
  <2>3. QED
    BY <2>1, <2>2 DEF Blank, Manifest
<1> HIDE DEF fresh
<1>4. \A f \in Files : mem'.arts[f] = 0
  BY <1>1, <1>3 DEF Nothing
<1>5. pc' \in [Callers -> PC] => TypeOK'
  <2>1. shot' \in 1..(NumShots + 1) /\ created' \in Nat
    BY <1>1
  <2>2. erred' \in BOOLEAN /\ rows' \subseteq Images
    BY <1>1
  <2>3. QED
    BY <1>1, <1>2, <1>3, <2>1, <2>2 DEF IInv, TypeOK
<1>6. Agrees' /\ VideoOfKeyframe'
  BY <1>1, <1>3, <1>4 DEF Agrees, Paired, VideoOfKeyframe
<1>7. CompleteIsWhole'
  BY <1>1, <1>3 DEF CompleteIsWhole
<1>8. CASE mode = "plan_only"
  <2>1. Step(p, "open", "conclude")
    BY <1>1, <1>8
  <2>2. Held("conclude")'
    BY <1>1, <1>2, <1>3, <1>6, <1>8 DEF Held, OnDisk, Reached, Whole
  <2>3. TypeOK'
    BY <1>5, <2>1 DEF Step, IInv, TypeOK
  <2>4. QED
    BY <1>6, <1>7, <2>1, <2>2, <2>3, StepPreserves
<1>9. CASE mode # "plan_only"
  <2>1. Step(p, "open", "images")
    BY <1>1, <1>9
  <2>2. Held("images")'
    BY <1>1, <1>2, <1>3, <1>6, <1>9 DEF Held, OnDisk, Reached
  <2>3. TypeOK'
    BY <1>5, <2>1 DEF Step, IInv, TypeOK
  <2>4. QED
    BY <1>6, <1>7, <2>1, <2>2, <2>3, StepPreserves
<1>10. QED
  BY <1>8, <1>9

LEMMA RefusePreserves ==
  ASSUME IInv, NEW p \in Callers, Refuse(p)
  PROVE  IInv'
<1>1. CompleteIsWhole' /\ VideoOfKeyframe'
  BY DEF Refuse, IInv, CompleteIsWhole, VideoOfKeyframe
<1>2. QED
  BY <1>1, ExitPreserves DEF Refuse, IInv, TypeOK

LEMMA CrashPreserves ==
  ASSUME IInv, NEW p \in Callers, Crash(p)
  PROVE  IInv'
<1>1. CompleteIsWhole' /\ VideoOfKeyframe'
  BY DEF Crash, IInv, CompleteIsWhole, VideoOfKeyframe
<1>2. QED
  BY <1>1, ExitPreserves DEF Crash, IInv, TypeOK

\* The images that are continued with are those on disk.
LEMMA ContinuePreserves ==
  ASSUME IInv, NEW p \in Callers, Continue(p)
  PROVE  IInv'
<1> DEFINE arts == ImagesOf(manifest.arts)
           fresh == Blank("running", "full", arts)
<1>1. /\ Step(p, "open", "videos") /\ manifest' = fresh /\ mem' = fresh
      /\ rows' = prompts /\ erred' = FALSE /\ shot' = 1 /\ created' = 0
      /\ UNCHANGED <<prompts, files, task>> /\ Continuable
  BY DEF Continue, Start
<1>2. mode' = mode /\ lock' = lock /\ op' = op /\ pc' = [pc EXCEPT ![p] = "videos"]
  BY <1>1 DEF Step
<1>3. manifest.arts \in [Files -> Content]
  BY Fields DEF IInv, TypeOK
<1>4. arts \in [Files -> Content]
  BY <1>3 DEF ImagesOf
<1>5. /\ mem' \in Manifest /\ mem'.status = "running" /\ mem'.mode = "full"
      /\ mem'.arts = arts /\ mem'.gen = 0 /\ manifest' = mem'
  <2>1. /\ fresh \in Manifest /\ fresh.status = "running" /\ fresh.mode = "full"
        /\ fresh.arts = arts /\ fresh.gen = 0
    <3> HIDE DEF arts
    <3>1. QED
      BY <1>4 DEF Blank, Manifest
  <2>2. QED
    BY <1>1, <2>1
<1>6. /\ \A i \in Images : mem'.arts[i] # 0 /\ files[i] = mem'.arts[i]
      /\ \A f \in Files : f \notin Images => mem'.arts[f] = 0
  BY <1>1, <1>5 DEF Continuable, ImagesOf
<1>7. TypeOK'
  <2>1. shot' \in 1..(NumShots + 1) /\ created' \in Nat
    BY <1>1
  <2>2. erred' \in BOOLEAN
    BY <1>1
  <2>3. rows' \subseteq Images /\ pc' \in [Callers -> PC]
    BY <1>1, <1>2 DEF IInv, TypeOK
  <2>4. QED
    BY <1>1, <1>2, <1>5, <2>1, <2>2, <2>3 DEF IInv, TypeOK
<1>8. Agrees' /\ VideoOfKeyframe'
  BY <1>1, <1>5, <1>6 DEF Agrees, Paired, VideoOfKeyframe
<1>9. CompleteIsWhole'
  BY <1>5 DEF CompleteIsWhole
<1>10. Held("videos")'
  BY <1>1, <1>2, <1>5, <1>6, <1>8 DEF Held, OnDisk, Reached
<1>11. QED
  BY <1>1, <1>7, <1>8, <1>9, <1>10, StepPreserves

\* While the holder executes, the manifest on disk says running.
LEMMA Quiet ==
  ASSUME IInv, NEW p \in Callers, pc[p] \in Executing
  PROVE  /\ Held(pc[p]) /\ lock = p /\ manifest.status = "running"
         /\ (manifest' = manifest => CompleteIsWhole' /\ VideoOfKeyframe')
<1>1. Held(pc[p]) /\ lock = p
  BY DEF IInv, HolderInv, LockInv
<1>2. manifest.status = "running"
  BY <1>1 DEF Held, OnDisk
<1>3. QED
  BY <1>1, <1>2 DEF IInv, CompleteIsWhole, VideoOfKeyframe

LEMMA AssetsPreserves ==
  ASSUME IInv, NEW p \in Callers, Assets(p)
  PROVE  IInv'
<1>1. PICK new \in [Images -> Content], good \in SUBSET Images :
        /\ \A i \in Images : IF i \in good THEN new[i] # 0 ELSE new[i] \in {files[i], 0}
        /\ files' = [f \in Files |-> IF f \in Images THEN new[f] ELSE files[f]]
        /\ mem' = [mem EXCEPT !.arts = [f \in Files |-> IF f \in good THEN new[f] ELSE 0]]
        /\ rows' = good
        /\ erred' = (good # Images)
  BY DEF Assets
<1> DEFINE arts == [f \in Files |-> IF f \in good THEN new[f] ELSE 0]
<1>2. /\ Step(p, "images", AfterImages)
      /\ UNCHANGED <<manifest, prompts, task, shot, created>>
  BY DEF Assets
<1>3. mode' = mode /\ lock' = lock /\ op' = op /\ pc' = [pc EXCEPT ![p] = AfterImages]
  BY <1>2 DEF Step
<1>4. pc[p] = "images" /\ Held("images") /\ manifest.status = "running"
  BY <1>2, Quiet DEF Step
<1>5. arts \in [Files -> Content] /\ mem \in Manifest
  BY DEF IInv, TypeOK
<1>6. /\ mem' \in Manifest /\ mem'.arts = arts
      /\ mem'.status = mem.status /\ mem'.mode = mem.mode /\ mem'.gen = mem.gen
  <2>1. mem' = [mem EXCEPT !.arts = arts]
    BY <1>1
  <2> HIDE DEF arts
  <2>2. QED
    BY <1>5, <2>1 DEF Manifest
<1>7. files' \in [Files -> Content]
  BY <1>1 DEF IInv, TypeOK
<1>8. AfterImages \in {"videos", "conclude"} /\ (AfterImages = "conclude" <=> mode # "full")
  BY DEF AfterImages
<1>9. TypeOK'
  <2>1. shot' \in 1..(NumShots + 1) /\ created' \in Nat /\ erred' \in BOOLEAN
    BY <1>1, <1>2 DEF IInv, TypeOK
  <2>2. pc' \in [Callers -> PC]
    BY <1>3, <1>8 DEF IInv, TypeOK
  <2>3. rows' \subseteq Images
    BY <1>1
  <2>4. QED
    BY <1>2, <1>3, <1>6, <1>7, <2>1, <2>2, <2>3 DEF IInv, TypeOK
<1>10. Agrees'
  <2>1. \A f \in Files : mem'.arts[f] # 0 => files'[f] = mem'.arts[f]
    BY <1>1, <1>6
  <2>2. \A s \in Shots : mem'.arts[s] = 0
    BY <1>6
  <2>3. QED
    BY <2>1, <2>2 DEF Agrees, Paired
<1>11. ~erred' => \A i \in Images : mem'.arts[i] # 0
  BY <1>1, <1>6
<1>12. /\ mem'.mode = mode /\ mode # "plan_only" /\ shot = 1 /\ mem'.status = "running"
       /\ mem'.arts[Story] = 0 /\ (\A s \in Shots : mem'.arts[s] = 0) /\ created' <= mem'.gen
  BY <1>2, <1>4, <1>6 DEF Held, Reached
<1>13. Held(AfterImages)'
  <2>1. OnDisk(AfterImages)'
    BY <1>2, <1>3, <1>4, <1>8 DEF OnDisk, AfterImages
  <2>2. CASE mode = "full"
    BY <1>2, <1>3, <1>8, <1>10, <1>11, <1>12, <2>1, <2>2 DEF Held, Reached, AfterImages
  <2>3. CASE mode # "full"
    BY <1>2, <1>3, <1>8, <1>10, <1>11, <1>12, <2>1, <2>3 DEF Held, Reached, AfterImages, Whole
  <2>4. QED
    BY <2>2, <2>3
<1>14. AfterImages' = AfterImages
  BY <1>3 DEF AfterImages
<1>15. CompleteIsWhole' /\ VideoOfKeyframe'
  BY <1>2, <1>4, Quiet
<1>16. QED
  BY <1>2, <1>8, <1>9, <1>13, <1>14, <1>15, StepPreserves

\* The shot is done with: whatever became of it, what the holder knows of the others stays.
LEMMA NextShotPreserves ==
  ASSUME IInv, NEW p \in Callers, NextShot(p), rows' = rows,
         mem' \in Manifest, files' \in [Files -> Content], task' \in [Shots -> Task],
         created' \in Nat, created' <= mem'.gen, erred' \in BOOLEAN, Agrees',
         mem'.status = mem.status, mem'.mode = mem.mode,
         \A f \in Files : f # shot => mem'.arts[f] = mem.arts[f],
         ~erred' => ~erred /\ mem'.arts[shot] # 0
  PROVE  IInv'
<1>1. pc[p] = "videos" /\ Held("videos") /\ manifest.status = "running"
  BY Quiet DEF NextShot, Step
<1>2. /\ shot' = shot + 1 /\ manifest' = manifest /\ prompts' = prompts
      /\ mode' = mode /\ lock' = lock /\ op' = op
  BY DEF NextShot, Step
<1>3. CompleteIsWhole' /\ VideoOfKeyframe'
  BY <1>1, <1>2, Quiet
<1>4. /\ mem'.status = "running" /\ mem'.mode = "full" /\ shot \in Shots
      /\ mem'.arts[Story] = 0
      /\ ~erred' => \A i \in Images : mem'.arts[i] # 0
      /\ ~erred' => \A s \in Shots : s <= shot => mem'.arts[s] # 0
  BY <1>1 DEF Held, Reached
<1>11. \A s \in Shots : s >= shot' => mem'.arts[s] = 0
  <2>1. SUFFICES ASSUME NEW s \in Shots, s >= shot'
                 PROVE  mem'.arts[s] = 0
    OBVIOUS
  <2>2. s # shot /\ s >= shot
    BY <1>2, <1>4, <2>1
  <2>3. mem.arts[s] = 0
    BY <1>1, <2>2 DEF Held, Reached
  <2>4. QED
    BY <2>2, <2>3
<1>5. shot' \in 1..(NumShots + 1)
  BY <1>2, <1>4
<1>6. pc' \in [Callers -> PC] => TypeOK'
  BY <1>2, <1>5 DEF IInv, TypeOK
<1>7. CASE shot < NumShots
  <2>1. Step(p, "videos", "videos")
    BY <1>7 DEF NextShot
  <2>2. Held("videos")'
    BY <1>1, <1>2, <1>4, <1>5, <1>7, <1>11 DEF Held, OnDisk, Reached
  <2>3. TypeOK'
    BY <1>6, <2>1 DEF Step, IInv, TypeOK
  <2>4. QED
    BY <1>3, <2>1, <2>2, <2>3, StepPreserves
<1>8. CASE ~(shot < NumShots) /\ Made(mem'.arts)
  <2>1. Step(p, "videos", "story")
    BY <1>8 DEF NextShot
  <2>2. Held("story")'
    BY <1>1, <1>2, <1>4, <1>8 DEF Held, OnDisk, Reached, Made
  <2>3. TypeOK'
    BY <1>6, <2>1 DEF Step, IInv, TypeOK
  <2>4. QED
    BY <1>3, <2>1, <2>2, <2>3, StepPreserves
<1>9. CASE ~(shot < NumShots) /\ ~Made(mem'.arts)
  <2>1. Step(p, "videos", "conclude")
    BY <1>9 DEF NextShot
  <2>2. erred'
    BY <1>4, <1>9 DEF Made
  <2>3. Held("conclude")'
    BY <1>1, <1>2, <1>4, <2>2 DEF Held, OnDisk, Reached
  <2>4. TypeOK'
    BY <1>6, <2>1 DEF Step, IInv, TypeOK
  <2>5. QED
    BY <1>3, <2>1, <2>3, <2>4, StepPreserves
<1>10. QED
  BY <1>7, <1>8, <1>9

LEMMA SkipVideoPreserves ==
  ASSUME IInv, NEW p \in Callers, SkipVideo(p)
  PROVE  IInv'
<1>1. pc[p] = "videos" /\ Agrees /\ created <= mem.gen
  BY Quiet DEF SkipVideo, NextShot, Step, Held, Reached
<1>2. erred' = TRUE /\ UNCHANGED <<files, task, mem, rows, created>>
  BY DEF SkipVideo
<1>3. Agrees'
  BY <1>1, <1>2 DEF Agrees
<1>4. /\ mem' \in Manifest /\ files' \in [Files -> Content] /\ task' \in [Shots -> Task]
      /\ created' \in Nat /\ created' <= mem'.gen
  BY <1>1, <1>2 DEF IInv, TypeOK
<1>5. QED
  BY <1>2, <1>3, <1>4, NextShotPreserves DEF SkipVideo

\* What the provider creates is a task of the request.
LEMMA CreatesType ==
  ASSUME NEW s \in Shots, NEW k \in Content, NEW t \in Creates(s, k)
  PROVE  t \in Task /\ t.req = k
  BY DEF Creates, Task

\* The video of a shot is made from the keyframe in the holder's manifest.
LEMMA VideoReturnsPreserves ==
  ASSUME IInv, NEW p \in Callers, VideoReturns(p)
  PROVE  IInv'
<1> DEFINE k == mem.arts[Keyframe[shot]]
           known == [phase |-> "known", req |-> k]
<1>1. PICK new \in BOOLEAN, good \in BOOLEAN :
        /\ IF new THEN known \in Creates(shot, k) /\ task' = [task EXCEPT ![shot] = known]
           ELSE Resumable(shot, k) /\ UNCHANGED task
        /\ created' = IF new THEN created + 1 ELSE created
        /\ files' = [files EXCEPT ![shot] = IF good THEN task'[shot].req ELSE 0]
        /\ mem' = [mem EXCEPT !.gen = IF new THEN @ + 1 ELSE @,
                              !.arts[shot] = IF good THEN task'[shot].req ELSE 0]
        /\ erred' = (erred \/ ~good)
  BY DEF VideoReturns
<1>2. shot \in Shots /\ k # 0 /\ rows' = rows /\ NextShot(p)
  BY DEF VideoReturns
<1>3. pc[p] = "videos" /\ Agrees /\ created <= mem.gen
  BY <1>2, Quiet DEF NextShot, Step, Held, Reached
<1>4. mem \in Manifest /\ mem.arts \in [Files -> Content] /\ mem.gen \in Nat /\ k \in Content
  <2>1. mem \in Manifest
    BY DEF IInv, TypeOK
  <2>2. mem.arts \in [Files -> Content] /\ mem.gen \in Nat
    BY <2>1, Fields
  <2>3. Keyframe[shot] \in Files
    BY <1>2
  <2>4. QED
    BY <2>1, <2>2, <2>3
<1>5. task' \in [Shots -> Task] /\ task'[shot].req = k
  <2>1. CASE new
    <3>1. known \in Task /\ known.req = k
      BY <1>1, <1>2, <1>4, <2>1, CreatesType
    <3>2. task \in [Shots -> Task] /\ task' = [task EXCEPT ![shot] = known]
      BY <1>1, <2>1 DEF IInv, TypeOK
    <3> HIDE DEF known
    <3>3. QED
      BY <1>2, <3>1, <3>2
  <2>2. CASE ~new
    BY <1>1, <1>2, <2>2 DEF Resumable, IInv, TypeOK
  <2>3. QED
    BY <2>1, <2>2
<1> DEFINE content == IF good THEN k ELSE 0
           gen == IF new THEN mem.gen + 1 ELSE mem.gen
           arts == [mem.arts EXCEPT ![shot] = content]
<1>6. content \in Content /\ gen \in Nat /\ arts \in [Files -> Content]
  <2>1. content \in Content
    BY <1>4
  <2>2. gen \in Nat
    BY <1>4
  <2> HIDE DEF content
  <2>3. arts \in [Files -> Content]
    BY <1>4, <2>1
  <2>4. QED
    BY <2>1, <2>2, <2>3
<1>7. /\ mem' \in Manifest /\ mem'.arts = arts /\ mem'.gen = gen
      /\ mem'.status = mem.status /\ mem'.mode = mem.mode
  <2>1. mem' = [mem EXCEPT !.gen = gen, !.arts = arts]
    BY <1>1, <1>4, <1>5 DEF Manifest
  <2> HIDE DEF gen, arts
  <2>2. QED
    BY <1>4, <1>6, <2>1 DEF Manifest
<1>8. files' = [files EXCEPT ![shot] = content] /\ files' \in [Files -> Content]
  BY <1>1, <1>5, <1>6 DEF IInv, TypeOK
<1>9. /\ mem'.arts[shot] = content
      /\ \A f \in Files : f # shot => mem'.arts[f] = mem.arts[f]
  BY <1>2, <1>4, <1>7
<1>10. created' \in Nat /\ created' <= gen
  BY <1>1, <1>3, <1>4 DEF IInv, TypeOK
<1>11. Agrees'
  <2>1. \A f \in Files : mem'.arts[f] # 0 => files'[f] = mem'.arts[f]
    BY <1>2, <1>3, <1>8, <1>9 DEF Agrees, IInv, TypeOK
  <2>2. Paired(mem'.arts)
    <3>1. SUFFICES ASSUME NEW s \in Shots, mem'.arts[s] # 0
                   PROVE  mem'.arts[s] = mem'.arts[Keyframe[s]]
      BY DEF Paired
    <3>2. Keyframe[s] \in Images /\ Keyframe[s] # shot
      BY <1>2
    <3>3. mem'.arts[Keyframe[s]] = mem.arts[Keyframe[s]]
      BY <1>9, <3>2
    <3>4. CASE s = shot
      BY <1>9, <3>1, <3>3, <3>4
    <3>5. CASE s # shot
      BY <1>3, <1>9, <3>1, <3>3, <3>5 DEF Agrees, Paired
    <3>6. QED
      BY <3>4, <3>5
  <2>3. QED
    BY <2>1, <2>2 DEF Agrees
<1>12. erred' \in BOOLEAN /\ (~erred' => ~erred /\ good)
  BY <1>1
<1>13. ~erred' => ~erred /\ mem'.arts[shot] # 0
  BY <1>2, <1>9, <1>12
<1>14. QED
  BY <1>2, <1>5, <1>7, <1>8, <1>9, <1>10, <1>11, <1>12, <1>13, NextShotPreserves

\* A call that raises may have created a task; then it is counted.
LEMMA VideoRaisesPreserves ==
  ASSUME IInv, NEW p \in Callers, VideoRaises(p)
  PROVE  IInv'
<1> DEFINE k == mem.arts[Keyframe[shot]]
<1>1. /\ shot \in Shots /\ k # 0 /\ erred' = TRUE
      /\ NextShot(p) /\ UNCHANGED <<files, rows>>
      /\ \/ UNCHANGED <<task, created>>
         \/ \E t \in Creates(shot, k) : task' = [task EXCEPT ![shot] = t] /\ created' = created + 1
      /\ mem' = IF task[shot].phase # "known" /\ task'[shot].phase # "none"
                THEN [mem EXCEPT !.gen = @ + 1] ELSE mem
  BY DEF VideoRaises
<1>2. pc[p] = "videos" /\ Agrees /\ created <= mem.gen
  BY <1>1, Quiet DEF NextShot, Step, Held, Reached
<1>3. mem \in Manifest /\ mem.arts \in [Files -> Content] /\ mem.gen \in Nat /\ k \in Content
  <2>1. mem \in Manifest /\ shot \in Shots
    BY <1>1 DEF IInv, TypeOK
  <2>2. mem.arts \in [Files -> Content] /\ mem.gen \in Nat
    BY <2>1, Fields
  <2>3. QED
    BY <2>1, <2>2
<1>4. /\ mem' \in Manifest /\ mem'.arts = mem.arts
      /\ mem'.status = mem.status /\ mem'.mode = mem.mode
      /\ mem'.gen \in {mem.gen, mem.gen + 1}
      /\ (task[shot].phase # "known" /\ task'[shot].phase # "none" => mem'.gen = mem.gen + 1)
  <2>1. CASE task[shot].phase # "known" /\ task'[shot].phase # "none"
    <3>1. mem' = [mem EXCEPT !.gen = mem.gen + 1]
      BY <1>1, <2>1
    <3>2. mem.gen + 1 \in Nat
      BY <1>3
    <3>3. QED
      BY <1>3, <3>1, <3>2 DEF Manifest
  <2>2. CASE ~(task[shot].phase # "known" /\ task'[shot].phase # "none")
    BY <1>1, <1>3, <2>2
  <2>3. QED
    BY <2>1, <2>2
<1>5. task' \in [Shots -> Task] /\ created' \in Nat /\ created' <= mem'.gen
  <2>1. CASE UNCHANGED <<task, created>>
    BY <1>2, <1>3, <1>4, <2>1 DEF IInv, TypeOK
  <2>2. ASSUME NEW t \in Creates(shot, k), task' = [task EXCEPT ![shot] = t], created' = created + 1
        PROVE  task' \in [Shots -> Task] /\ created' \in Nat /\ created' <= mem'.gen
    <3>1. t \in Task /\ task[shot].phase = "none" /\ t.phase # "none"
      BY <1>1, <1>3, CreatesType DEF Creates
    <3>2. task' \in [Shots -> Task] /\ task'[shot] = t
      BY <1>1, <2>2, <3>1 DEF IInv, TypeOK
    <3>3. mem'.gen = mem.gen + 1
      BY <1>4, <3>1, <3>2
    <3>4. created \in Nat /\ created <= mem.gen
      BY <1>2, <1>3 DEF IInv, TypeOK
    <3>5. QED
      BY <1>3, <2>2, <3>2, <3>3, <3>4
  <2>3. QED
    BY <1>1, <2>1, <2>2
<1>6. files' = files /\ files' \in [Files -> Content]
  BY <1>1 DEF IInv, TypeOK
<1>8. Agrees'
  BY <1>2, <1>4, <1>6 DEF Agrees, Paired
<1>9. QED
  BY <1>1, <1>4, <1>5, <1>6, <1>8, NextShotPreserves

LEMMA VideoDiesPreserves ==
  ASSUME IInv, NEW p \in Callers, VideoDies(p)
  PROVE  IInv'
<1> DEFINE k == mem.arts[Keyframe[shot]]
<1>1. /\ Exit(p) /\ UNCHANGED <<manifest, prompts, files>> /\ shot \in Shots
      /\ \E phase \in {"intent", "known"} :
           task' = [task EXCEPT ![shot] = [phase |-> phase, req |-> k]]
  BY DEF VideoDies
<1>2. k \in Content
  BY <1>1, Fields DEF IInv, TypeOK
<1>3. task' \in [Shots -> Task]
  <2>1. ASSUME NEW phase \in {"intent", "known"}
        PROVE  [phase |-> phase, req |-> k] \in Task
    BY <1>2 DEF Task
  <2>2. QED
    BY <1>1, <2>1 DEF IInv, TypeOK
<1>4. CompleteIsWhole' /\ VideoOfKeyframe'
  BY <1>1 DEF IInv, CompleteIsWhole, VideoOfKeyframe
<1>5. QED
  BY <1>1, <1>3, <1>4, ExitPreserves DEF IInv, TypeOK

LEMMA AssemblePreserves ==
  ASSUME IInv, NEW p \in Callers, Assemble(p)
  PROVE  IInv'
<1> DEFINE content == mem.arts[1]
           arts == [mem.arts EXCEPT ![Story] = content]
<1>1. /\ Step(p, "story", "conclude")
      /\ files' = [files EXCEPT ![Story] = content]
      /\ mem' = [mem EXCEPT !.arts[Story] = content]
      /\ UNCHANGED <<manifest, prompts, task, rows, erred, shot, created>>
  BY DEF Assemble
<1>2. pc[p] = "story" /\ Held("story")
  BY <1>1, Quiet DEF Step
<1>3. mem \in Manifest /\ mem.arts \in [Files -> Content]
  BY Fields DEF IInv, TypeOK
<1>4. 1 \in Shots /\ content \in Content /\ arts \in [Files -> Content]
  <2>1. 1 \in Shots
    OBVIOUS
  <2>2. QED
    BY <1>3, <2>1
<1>5. /\ mem' \in Manifest /\ mem'.arts = arts /\ mem'.gen = mem.gen
      /\ mem'.status = mem.status /\ mem'.mode = mem.mode
  <2>1. mem' = [mem EXCEPT !.arts = arts]
    BY <1>1, <1>3 DEF Manifest
  <2> HIDE DEF arts
  <2>2. QED
    BY <1>3, <1>4, <2>1 DEF Manifest
<1>6. files' \in [Files -> Content]
  BY <1>1, <1>4 DEF IInv, TypeOK
<1>7. /\ mem'.arts[Story] = content
      /\ \A f \in Files : f # Story => mem'.arts[f] = mem.arts[f]
  BY <1>3, <1>5
<1>8. content # 0 /\ Made(mem'.arts)
  <2>1. Made(mem.arts)
    BY <1>2 DEF Held, Reached
  <2>2. QED
    BY <1>4, <1>7, <2>1 DEF Made
<1>9. Agrees'
  <2>1. \A f \in Files : mem'.arts[f] # 0 => files'[f] = mem'.arts[f]
    BY <1>1, <1>2, <1>7 DEF Held, Agrees, IInv, TypeOK
  <2>2. Paired(mem'.arts)
    <3>1. \A s \in Shots : Keyframe[s] \in Images /\ mem'.arts[s] = mem.arts[s]
      BY <1>7
    <3>2. \A s \in Shots : mem'.arts[Keyframe[s]] = mem.arts[Keyframe[s]]
      BY <1>7, <3>1
    <3>3. QED
      BY <1>2, <3>1, <3>2 DEF Held, Agrees, Paired
  <2>3. QED
    BY <1>1, <1>2, <1>5, <2>1, <2>2 DEF Held, Agrees
<1>10. ~erred' => Whole(mem)'
  <2>1. \A i \in Images : mem'.arts[i] = mem.arts[i]
    BY <1>7
  <2>2. QED
    BY <1>1, <1>2, <1>7, <1>8, <2>1 DEF Held, Reached, Whole
<1>11. mode' = mode /\ lock' = lock /\ op' = op /\ pc' = [pc EXCEPT ![p] = "conclude"]
  BY <1>1 DEF Step
<1>12. TypeOK'
  BY <1>1, <1>5, <1>6, <1>11 DEF IInv, TypeOK
<1>13. Held("conclude")'
  BY <1>1, <1>2, <1>5, <1>9, <1>10 DEF Held, OnDisk, Reached
<1>14. CompleteIsWhole' /\ VideoOfKeyframe'
  BY <1>1, <1>2, Quiet
<1>15. QED
  BY <1>1, <1>12, <1>13, <1>14, StepPreserves

\* The holder gives its manifest a last status.
LEMMA ToWritePreserves ==
  ASSUME IInv, NEW p \in Callers, NEW from \in Working, Step(p, from, "write"),
         mem' \in Manifest, mem'.status = "complete" => Whole(mem)', Agrees',
         erred' \in BOOLEAN, files' \in [Files -> Content], task' \in [Shots -> Task],
         created' \in Nat, created' <= mem'.gen + Missed,
         UNCHANGED <<manifest, prompts, rows, shot>>
  PROVE  IInv'
<1>1. pc[p] = from /\ manifest.status = "running"
  BY Quiet DEF Step
<1>2. mode' = mode /\ lock' = lock /\ op' = op /\ pc' = [pc EXCEPT ![p] = "write"]
  BY DEF Step
<1>3. TypeOK'
  BY <1>2 DEF IInv, TypeOK
<1>4. Held("write")'
  BY <1>1 DEF Held, OnDisk, Reached, Missed
<1>5. CompleteIsWhole' /\ VideoOfKeyframe'
  BY <1>1, Quiet
<1>6. QED
  BY <1>1, <1>3, <1>4, <1>5, StepPreserves

\* Only the status changes in the manifest; files that it does not list may be others.
LEMMA StatusPreserves ==
  ASSUME IInv, NEW p \in Callers, NEW from \in Working, Step(p, from, "write"),
         NEW s \in {"complete", "partial", "failed"}, Status(s), s = "complete" => Whole(mem),
         \A f \in Files : files'[f] = files[f] \/ mem.arts[f] = 0,
         erred' \in BOOLEAN, files' \in [Files -> Content], task' \in [Shots -> Task],
         created' \in Nat, created' <= mem.gen + Missed,
         UNCHANGED <<manifest, prompts, rows, shot>>
  PROVE  IInv'
<1>1. Agrees
  BY Quiet DEF Step, Held
<1>2. mem \in Manifest /\ mem' = [mem EXCEPT !.status = s]
  BY DEF Status, IInv, TypeOK
<1>3. /\ mem' \in Manifest /\ mem'.status = s
      /\ mem'.gen = mem.gen /\ mem'.mode = mem.mode /\ mem'.arts = mem.arts
  BY <1>2 DEF Manifest
<1>4. Agrees'
  BY <1>1, <1>3 DEF Agrees, Paired
<1>5. s = "complete" => Whole(mem)'
  BY <1>3 DEF Whole
<1>6. QED
  BY <1>3, <1>4, <1>5, ToWritePreserves

LEMMA CutImagesPreserves ==
  ASSUME IInv, NEW p \in Callers, NEW some \in {"partial", "failed"}, CutImages(p, some, "failed"),
         erred' \in BOOLEAN, UNCHANGED <<manifest, prompts, rows, shot>>
  PROVE  IInv'
<1>1. PICK new \in [Images -> Content], good \in SUBSET Images :
        /\ \A i \in good : new[i] # 0
        /\ files' = [f \in Files |-> IF f \in Images THEN new[f] ELSE files[f]]
        /\ mem' = [mem EXCEPT !.status = IF good # {} THEN some ELSE "failed",
                              !.arts = [f \in Files |-> IF f \in good THEN new[f] ELSE 0]]
  BY Zenon DEF CutImages
<1> DEFINE status == IF good # {} THEN some ELSE "failed"
           arts == [f \in Files |-> IF f \in good THEN new[f] ELSE 0]
<1>2. /\ Step(p, "images", "write") /\ UNCHANGED <<task, created>>
  BY DEF CutImages
<1>3. status \in {"partial", "failed"} /\ arts \in [Files -> Content] /\ mem \in Manifest
  BY DEF IInv, TypeOK
<1>4. mem' \in Manifest /\ mem'.status = status /\ mem'.arts = arts /\ mem'.gen = mem.gen
  <2>1. mem' = [mem EXCEPT !.status = status, !.arts = arts]
    BY <1>1
  <2> HIDE DEF status, arts
  <2>2. QED
    BY <1>3, <2>1 DEF Manifest
<1>5. files' \in [Files -> Content]
  BY <1>1 DEF IInv, TypeOK
<1>6. Agrees'
  <2>1. \A f \in Files : mem'.arts[f] # 0 => files'[f] = mem'.arts[f]
    BY <1>1, <1>4
  <2>2. \A s \in Shots : mem'.arts[s] = 0
    BY <1>4
  <2>3. QED
    BY <2>1, <2>2 DEF Agrees, Paired
<1>7. created' \in Nat /\ created' <= mem'.gen + Missed
  <2>1. Held("images")
    BY <1>2, Quiet DEF Step
  <2>2. created <= mem.gen /\ shot = 1
    BY <2>1 DEF Held, Reached
  <2>3. created \in Nat /\ mem.gen \in Nat
    BY Fields DEF IInv, TypeOK
  <2>4. QED
    BY <1>2, <1>4, <2>2, <2>3 DEF Missed
<1>8. mem'.status # "complete"
  BY <1>3, <1>4
<1>9. task' \in [Shots -> Task]
  BY <1>2 DEF IInv, TypeOK
<1>10. QED
  BY <1>2, <1>4, <1>5, <1>6, <1>7, <1>8, <1>9, ToWritePreserves

\* What is lost at a shot is at most its request, and no video of it is listed yet.
LEMMA CutVideoPreserves ==
  ASSUME IInv, NEW p \in Callers, NEW s \in {"partial", "failed"}, CutVideo(p, s),
         erred' \in BOOLEAN, UNCHANGED <<manifest, prompts, rows, shot>>
  PROVE  IInv'
<1> DEFINE k == mem.arts[Keyframe[shot]]
<1>1. Step(p, "videos", "write") /\ Status(s) /\ pc[p] = "videos"
  BY DEF CutVideo, Step
<1>2. Held("videos")
  BY <1>1, Quiet
<1>3. shot \in Shots /\ created <= mem.gen /\ mem.arts[shot] = 0
  BY <1>2 DEF Held, Reached
<1>4. created \in Nat /\ mem.gen \in Nat /\ mem.arts \in [Files -> Content] /\ Missed = 1
  BY <1>3, Fields DEF IInv, TypeOK, Missed
<1>5. k \in Content /\ files \in [Files -> Content] /\ task \in [Shots -> Task]
  <2>1. Keyframe[shot] \in Files
    BY <1>3
  <2>2. QED
    BY <1>4, <2>1 DEF IInv, TypeOK
<1>6. CASE UNCHANGED <<files, task, created>>
  BY <1>1, <1>3, <1>4, <1>5, <1>6, StatusPreserves
<1>7. ASSUME \/ Resumable(shot, k) /\ UNCHANGED <<task, created>>
             \/ /\ \E phase \in {"intent", "ambiguous", "known"} :
                     task' = [task EXCEPT ![shot] = [phase |-> phase, req |-> k]]
                /\ created' = created + 1,
             \E v \in {files[shot], 0} \cup (IF task'[shot].phase = "known" THEN {k} ELSE {}) :
               files' = [files EXCEPT ![shot] = v]
      PROVE  IInv'
  <2>1. task' \in [Shots -> Task]
    <3>1. ASSUME NEW phase \in {"intent", "ambiguous", "known"}
          PROVE  [phase |-> phase, req |-> k] \in Task
      BY <1>5 DEF Task
    <3>2. CASE UNCHANGED task
      BY <1>5, <3>2
    <3>3. ASSUME NEW t \in Task, task' = [task EXCEPT ![shot] = t]
          PROVE  task' \in [Shots -> Task]
      BY <1>5, <3>3
    <3>4. QED
      BY <1>7, <3>1, <3>2, <3>3
  <2>2. created' \in Nat /\ created' <= mem.gen + Missed
    BY <1>3, <1>4, <1>7
  <2>3. files' \in [Files -> Content] /\ \A f \in Files : f # shot => files'[f] = files[f]
    <3>1. PICK v \in {files[shot], 0} \cup (IF task'[shot].phase = "known" THEN {k} ELSE {}) :
            files' = [files EXCEPT ![shot] = v]
      BY <1>7
    <3>2. shot \in Files /\ files[shot] \in Content
      BY <1>3, <1>5
    <3>3. v \in Content
      BY <1>5, <3>1, <3>2
    <3>4. QED
      BY <1>5, <3>1, <3>2, <3>3
  <2>4. \A f \in Files : files'[f] = files[f] \/ mem.arts[f] = 0
    BY <1>3, <2>3
  <2>5. QED
    BY <1>1, <2>1, <2>2, <2>3, <2>4, StatusPreserves
<1>8. QED
  BY <1>6, <1>7 DEF CutVideo

LEMMA CutStoryPreserves ==
  ASSUME IInv, NEW p \in Callers, NEW s \in {"partial", "failed"}, CutStory(p, s),
         erred' \in BOOLEAN, UNCHANGED <<manifest, prompts, rows, shot>>
  PROVE  IInv'
<1>1. /\ Step(p, "story", "write") /\ Status(s) /\ UNCHANGED <<task, created>>
      /\ \E v \in {files[Story], 0, mem.arts[1]} : files' = [files EXCEPT ![Story] = v]
  BY DEF CutStory
<1>2. Held("story")
  BY <1>1, Quiet DEF Step
<1>3. mem.arts[Story] = 0 /\ created <= mem.gen
  BY <1>2 DEF Held, Reached
<1>4. /\ created \in Nat /\ mem.gen \in Nat /\ mem.arts \in [Files -> Content]
      /\ files \in [Files -> Content] /\ task' \in [Shots -> Task]
  BY <1>1, Fields DEF IInv, TypeOK
<1>5. 1 \in Files
  OBVIOUS
<1>6. files' \in [Files -> Content] /\ \A f \in Files : f # Story => files'[f] = files[f]
  BY <1>1, <1>4, <1>5
<1>7. \A f \in Files : files'[f] = files[f] \/ mem.arts[f] = 0
  BY <1>3, <1>6
<1>8. created' \in Nat /\ created' <= mem.gen + Missed
  BY <1>1, <1>3, <1>4 DEF Missed
<1>9. QED
  BY <1>1, <1>4, <1>6, <1>7, <1>8, StatusPreserves

LEMMA AbortPreserves ==
  ASSUME IInv, NEW p \in Callers, Abort(p)
  PROVE  IInv'
<1>1. erred' \in BOOLEAN /\ UNCHANGED <<manifest, prompts, rows, shot>>
  BY DEF Abort
<1>2. PICK s \in {"partial", "failed"} :
        CutImages(p, "partial", "failed") \/ CutVideo(p, s) \/ CutStory(p, s)
  BY DEF Abort
<1>3. QED
  BY <1>1, <1>2, CutImagesPreserves, CutVideoPreserves, CutStoryPreserves

LEMMA InterruptPreserves ==
  ASSUME IInv, NEW p \in Callers, Interrupt(p)
  PROVE  IInv'
<1>1. erred' \in BOOLEAN /\ UNCHANGED <<manifest, prompts, rows, shot>>
  BY DEF Interrupt
<1>2. CASE CutImages(p, "failed", "failed") \/ CutVideo(p, "failed") \/ CutStory(p, "failed")
  BY <1>1, <1>2, CutImagesPreserves, CutVideoPreserves, CutStoryPreserves
<1>3. CASE Step(p, "conclude", "write") /\ Status("failed") /\ UNCHANGED <<files, task, created>>
  <2>1. Held("conclude")
    BY <1>3, Quiet DEF Step
  <2>2. created <= mem.gen
    BY <2>1 DEF Held, Reached
  <2>3. mem.gen \in Nat /\ files' \in [Files -> Content] /\ task' \in [Shots -> Task]
        /\ created' \in Nat
    BY <1>3, Fields DEF IInv, TypeOK
  <2>4. created' <= mem.gen + Missed
    BY <1>3, <2>2, <2>3 DEF Missed
  <2>5. QED
    BY <1>1, <1>3, <2>3, <2>4, StatusPreserves
<1>4. QED
  BY <1>2, <1>3 DEF Interrupt

\* Only a run without errors is complete, and that one is whole.
LEMMA ConcludePreserves ==
  ASSUME IInv, NEW p \in Callers, Conclude(p)
  PROVE  IInv'
<1>1. /\ Step(p, "conclude", "write")
      /\ UNCHANGED <<manifest, prompts, files, task, rows, shot, created>>
  BY DEF Conclude
<1>2. pc[p] = "conclude" /\ Held("conclude")
  BY <1>1, Quiet DEF Step
<1>3. /\ files' \in [Files -> Content] /\ task' \in [Shots -> Task] /\ created' \in Nat
      /\ created' <= mem.gen + Missed
  <2>1. created <= mem.gen
    BY <1>2 DEF Held, Reached
  <2>2. mem.gen \in Nat /\ created \in Nat
    BY Fields DEF IInv, TypeOK
  <2>3. QED
    BY <1>1, <2>1, <2>2 DEF Missed, IInv, TypeOK
<1>6. erred \in BOOLEAN
  BY DEF IInv, TypeOK
<1>4. CASE ~erred /\ Status("complete") /\ UNCHANGED erred
  <2>1. Whole(mem)
    BY <1>2, <1>4 DEF Held, Reached
  <2>2. erred' \in BOOLEAN
    BY <1>4, <1>6
  <2>3. QED
    BY <1>1, <1>2, <1>3, <1>4, <2>1, <2>2, StatusPreserves
<1>5. CASE Status("partial") /\ erred' \in BOOLEAN
  BY <1>1, <1>2, <1>3, <1>5, StatusPreserves
<1>7. QED
  BY <1>4, <1>5, <1>6 DEF Conclude

LEMMA WriteManifestPreserves ==
  ASSUME IInv, NEW p \in Callers, WriteManifest(p)
  PROVE  IInv'
<1>1. /\ Step(p, "write", "prompts") /\ manifest' = mem
      /\ UNCHANGED <<prompts, files, task, mem, rows, erred, shot, created>>
  BY DEF WriteManifest, holder
<1>2. pc[p] = "write" /\ Held("write")
  BY <1>1, Quiet DEF Step
<1>3. mode' = mode /\ lock' = lock /\ op' = op /\ pc' = [pc EXCEPT ![p] = "prompts"]
  BY <1>1 DEF Step
<1>4. TypeOK'
  BY <1>1, <1>3 DEF IInv, TypeOK
<1>5. Held("prompts")'
  BY <1>1, <1>2 DEF Held, OnDisk, Reached, Agrees, Missed
<1>6. CompleteIsWhole'
  BY <1>1, <1>2 DEF Held, Agrees, Reached, Whole, CompleteIsWhole
<1>7. VideoOfKeyframe'
  BY <1>1, <1>2 DEF Held, Agrees, Paired, VideoOfKeyframe
<1>8. QED
  BY <1>1, <1>4, <1>5, <1>6, <1>7, StepPreserves

\* What is written last can only take the promise back.
LEMMA WritePromptsPreserves ==
  ASSUME IInv, NEW p \in Callers, WritePrompts(p)
  PROVE  IInv'
<1>1. /\ pc[p] = "prompts" /\ Exit(p) /\ UNCHANGED <<files, task>>
      /\ prompts' \in {prompts, rows}
      /\ manifest' = manifest \/ manifest' = [mem EXCEPT !.status = "partial"]
  BY DEF WritePrompts
<1>2. Held("prompts") /\ lock = p
  BY <1>1 DEF IInv, HolderInv, LockInv
<1>3. mem \in Manifest /\ manifest = mem
  BY <1>2 DEF Held, OnDisk, IInv, TypeOK
<1>4. prompts' \subseteq Images /\ task' \in [Shots -> Task]
  BY <1>1 DEF IInv, TypeOK
<1>5. CASE manifest' = manifest
  <2>1. CompleteIsWhole' /\ VideoOfKeyframe'
    BY <1>1, <1>5 DEF IInv, CompleteIsWhole, VideoOfKeyframe
  <2>2. QED
    BY <1>1, <1>3, <1>4, <1>5, <2>1, ExitPreserves
<1>6. CASE manifest' = [mem EXCEPT !.status = "partial"]
  <2>1. manifest' \in Manifest /\ manifest'.status = "partial" /\ manifest'.arts = mem.arts
    BY <1>3, <1>6 DEF Manifest
  <2>2. CompleteIsWhole' /\ VideoOfKeyframe'
    BY <1>2, <2>1 DEF Held, Agrees, Paired, CompleteIsWhole, VideoOfKeyframe
  <2>3. QED
    BY <1>1, <1>2, <1>4, <2>1, <2>2, ExitPreserves
<1>7. QED
  BY <1>1, <1>5, <1>6

LEMMA DamagePreserves ==
  ASSUME IInv, NEW i \in Images, Damage(i)
  PROVE  IInv'
<1>1. /\ lock = None /\ files' = [files EXCEPT ![i] = 0]
      /\ UNCHANGED <<mode, manifest, prompts, task, lock, pc, op, mem, rows, erred, shot, created>>
  BY DEF Damage, holder
<1>2. \A p \in Callers : pc[p] \in Waiting
  BY <1>1 DEF IInv, LockInv
<1>3. TypeOK'
  BY <1>1 DEF IInv, TypeOK
<1>4. LockInv' /\ HolderInv'
  BY <1>1, <1>2 DEF LockInv, HolderInv
<1>5. \A f \in Files : files'[f] \in {files[f], 0}
  BY <1>1 DEF IInv, TypeOK
<1>6. CompleteIsWhole' /\ VideoOfKeyframe'
  BY <1>1, <1>5 DEF IInv, CompleteIsWhole, VideoOfKeyframe
<1>7. QED
  BY <1>3, <1>4, <1>6 DEF IInv

LEMMA StutterPreserves ==
  ASSUME IInv, UNCHANGED vars
  PROVE  IInv'
<1> USE DEF vars, holder
<1>1. TypeOK' /\ LockInv'
  BY DEF IInv, TypeOK, LockInv
<1>2. HolderInv'
  BY DEF IInv, HolderInv, Held, Agrees, OnDisk, Reached, Missed
<1>3. CompleteIsWhole' /\ VideoOfKeyframe'
  BY DEF IInv, CompleteIsWhole, VideoOfKeyframe
<1>4. QED
  BY <1>1, <1>2, <1>3 DEF IInv

-----------------------------------------------------------------------------
(* The theorems.                                                             *)

LEMMA InitEstablishes == Init => IInv
<1>1. SUFFICES ASSUME Init PROVE IInv
  OBVIOUS
<1>2. manifest = Blank("none", mode, Nothing) /\ mem = manifest /\ mode \in Modes
  BY <1>1 DEF Init
<1>3. /\ manifest \in Manifest /\ manifest.status = "none" /\ manifest.arts = Nothing
      /\ Nothing \in [Files -> Content]
  <2>1. Nothing \in [Files -> Content]
    BY NothingType
  <2>2. QED
    BY <1>2, <2>1 DEF Blank, Manifest
<1>4. [phase |-> "none", req |-> 0] \in Task
  BY DEF Task
<1>5. TypeOK
  <2>1. shot \in 1..(NumShots + 1) /\ created \in Nat
    BY <1>1 DEF Init
  <2>2. erred \in BOOLEAN /\ prompts \subseteq Images /\ rows \subseteq Images
    BY <1>1 DEF Init
  <2>3. task \in [Shots -> Task]
    BY <1>1, <1>4 DEF Init
  <2>4. files \in [Files -> Content] /\ lock \in Callers \cup {None} /\ pc \in [Callers -> PC] /\ op \in Ops
    BY <1>1, <1>3 DEF Init
  <2>5. QED
    BY <1>2, <1>3, <2>1, <2>2, <2>3, <2>4 DEF TypeOK
<1>6. LockInv /\ HolderInv
  BY <1>1 DEF Init, LockInv, HolderInv
<1>7. CompleteIsWhole /\ VideoOfKeyframe
  BY <1>3 DEF CompleteIsWhole, VideoOfKeyframe, Nothing
<1>8. QED
  BY <1>5, <1>6, <1>7 DEF IInv

\* IInv is inductive: no step of a call, no death of a process and no damage breaks it.
THEOREM Invariance == Spec => []IInv
<1>1. IInv /\ [Next]_vars => IInv'
  BY CallPreserves, AcquirePreserves, OpenPreserves, RefusePreserves, ContinuePreserves,
     AssetsPreserves, SkipVideoPreserves, VideoReturnsPreserves, VideoRaisesPreserves,
     VideoDiesPreserves, AssemblePreserves, AbortPreserves, InterruptPreserves,
     ConcludePreserves, WriteManifestPreserves, WritePromptsPreserves, CrashPreserves,
     DamagePreserves, StutterPreserves DEF Next, Runs
<1>2. QED
  BY InitEstablishes, <1>1, PTL DEF Spec

\* Every variable of the runs keeps its type, manifest and task records included
\* (engine.py:430-530, 982-1222).
THEOREM TypeCorrect == Spec => []TypeOK
<1>1. IInv => TypeOK
  BY DEF IInv
<1>2. QED
  BY Invariance, <1>1, PTL

\* What a complete manifest lists is there, as long as nobody damages it (engine.py:1141-1222).
THEOREM WholeWhenComplete == Spec => []CompleteIsWhole
<1>1. IInv => CompleteIsWhole
  BY DEF IInv
<1>2. QED
  BY Invariance, <1>1, PTL

\* A listed video was made from the listed keyframe (engine.py:982-1048).
THEOREM VideosMatch == Spec => []VideoOfKeyframe
<1>1. IInv => VideoOfKeyframe
  BY DEF IInv
<1>2. QED
  BY Invariance, <1>1, PTL

\* video_generation misses no create request of an execution that came past its last shot,
\* and at most one of an execution that was cut off (engine.py:1014-1020, 1049-1056, 1230).
THEOREM CountsSuffice == Spec => []CountsNeverMiss
<1>1. IInv => CountsNeverMiss
  BY DEF IInv, HolderInv, Held, OnDisk, Reached, Missed, CountsNeverMiss
<1>2. QED
  BY Invariance, <1>1, PTL

\* A reader never sees one result turn into another (engine.py:1141-1158).
THEOREM ResultsAnnounced == Spec => Announced
<1> DEFINE Fine == manifest' # manifest /\ manifest.status # "running" =>
                     manifest'.status = "running" \/ manifest' = [manifest EXCEPT !.status = "partial"]
<1>1. IInv /\ [Next]_vars => [Fine]_vars
  <2>1. SUFFICES ASSUME IInv, Next PROVE Fine
    BY DEF vars
  <2>2. ASSUME NEW p \in Callers, Open(p) \/ Continue(p)
        PROVE  Fine
    <3>1. manifest'.status = "running"
      BY <2>2 DEF Open, Continue, Start, Blank
    <3>2. QED
      BY <3>1
  <2>3. ASSUME NEW p \in Callers, WriteManifest(p)
        PROVE  Fine
    BY <2>1, <2>3, Quiet DEF WriteManifest, Step
  <2>4. ASSUME NEW p \in Callers, WritePrompts(p)
        PROVE  Fine
    <3>1. manifest = mem
      BY <2>1, <2>4 DEF WritePrompts, IInv, HolderInv, Held, OnDisk
    <3>2. QED
      BY <2>4, <3>1 DEF WritePrompts
  <2>5. CASE manifest' = manifest
    BY <2>5
  <2>6. manifest' = manifest \/ \E p \in Callers : Open(p) \/ Continue(p) \/ WriteManifest(p) \/ WritePrompts(p)
    BY <2>1 DEF Next, Runs, Call, Acquire, Refuse, Assets, SkipVideo, VideoReturns, VideoRaises,
                VideoDies, Interrupt, NextShot, Assemble, Abort, Conclude, Crash, Damage
  <2>7. QED
    BY <2>2, <2>3, <2>4, <2>5, <2>6
<1>2. QED
  BY Invariance, <1>1, PTL DEF Spec, Announced
=============================================================================
