-------------------------- MODULE JobServiceProofs --------------------------
(***************************************************************************)
(* Proofs about JobService for every number of processes, threads and      *)
(* jobs.  The inductive invariant says what the holder of a job's lock     *)
(* knows about the job file and the event log.                             *)
(***************************************************************************)
EXTENDS JobService, TLAPS

\* Where a request thread holds the lock of its job.
HoldsLock == {"startCheck", "startMark", "startEvent", "startMutex", "submit",
              "getCheck", "getMark", "getEvent"}

\* A thread that is past lock.acquire() owns its job's lock, and so does a queued task.
LockInv ==
  /\ \A t \in Threads : pc[t] # "idle" => job[t] \in Jobs
  /\ \A c \in Callers : pc[c] \in HoldsLock => lock[job[c]] = c
  /\ \A w \in Workers : pc[w] # "idle" => lock[job[w]] = w
  /\ \A s \in Services, j \in Jobs : queued[s][j] > 0 => queued[s][j] = 1 /\ lock[j] = s

\* What the owner of the lock knows about the job file.
StatusInv ==
  /\ \A c \in Callers :
       /\ pc[c] \in {"startMark", "getMark"} => jobFile[job[c]].st \in Pending
       /\ pc[c] \in {"startEvent", "getEvent"} => jobFile[job[c]].st = "failed"
       /\ pc[c] = "startMutex" => jobFile[job[c]].st \in {"absent", "failed"}
       /\ pc[c] = "submit" => jobFile[job[c]].st = "queued"
       /\ pc[c] \in {"startMark", "startEvent", "startMutex"} =>
            jobFile[job[c]].st = "absent" \/ jobFile[job[c]].sha = req[c]
       /\ pc[c] \in {"startLock", "startBusy", "startCheck", "startMark", "startEvent",
                     "startMutex", "submit"} => req[c] \in Requests
  /\ \A w \in Workers :
       /\ pc[w] = "begin" => jobFile[job[w]].st = "queued"
       /\ pc[w] \in {"started", "enter", "engine", "finished"} => jobFile[job[w]].st = "running"
       /\ pc[w] \in {"except", "write"} => jobFile[job[w]].st \in Pending
       /\ pc[w] = "write" /\ result[w] \in Finished => jobFile[job[w]].st = "running"
       /\ pc[w] \in {"idle", "begin"} => req[w] = None
       /\ pc[w] \notin {"idle", "begin", "release"} => req[w] \in {jobFile[job[w]].sha, None}
  /\ \A s \in Services, j \in Jobs : queued[s][j] > 0 => jobFile[j].st = "queued"

\* What the owner of the lock knows about the event log.
EventInv ==
  /\ \A w \in Workers :
       /\ pc[w] \in {"enter", "engine", "finished"} => lastEvent[job[w]] = "run_started"
       /\ pc[w] = "write" /\ result[w] \in Finished => lastEvent[job[w]] = result[w]
  /\ \A j \in Jobs : jobFile[j].st \in Finished => lastEvent[j] = jobFile[j].st

\* Whoever is about to submit is inside the mutex of a service that is not closing.
MutexInv ==
  /\ \A c \in Callers : pc[c] = "submit" => mutex[Home[c]] = c /\ ~closing[Home[c]]
  /\ \A s \in Services : closed[s] =>
       /\ closing[s]
       /\ \A j \in Jobs : queued[s][j] = 0
       /\ \A w \in Workers : Home[w] = s => pc[w] = "idle"

IInv == TypeOK /\ LockInv /\ StatusInv /\ EventInv /\ MutexInv
USE ConstantsAssumption DEF Threads, Finished, Pending, Status, Events, CallerPC, WorkerPC

-----------------------------------------------------------------------------
(* Writing a status keeps the job file well formed.                         *)
(* Leaving a call, with or without the lock, is always safe for a caller.   *)

LEMMA WriteStatusType ==
  ASSUME TypeOK, NEW j \in Jobs, NEW st \in Status, WriteStatus(j, st)
  PROVE  jobFile' \in [Jobs -> [st: Status, sha: Requests \cup {None}]]
<1> DEFINE File == [st: Status, sha: Requests \cup {None}]
<1>1. jobFile \in [Jobs -> File]
  BY DEF TypeOK
<1>2. [jobFile[j] EXCEPT !.st = st] \in File
  BY <1>1
<1>3. jobFile' = [jobFile EXCEPT ![j] = [jobFile[j] EXCEPT !.st = st]]
  BY DEF WriteStatus
<1> HIDE DEF File
<1>4. jobFile' \in [Jobs -> File]
  BY <1>1, <1>2, <1>3
<1>5. QED
  BY <1>4 DEF File

LEMMA WriteStatusKeepsIdentity ==
  ASSUME TypeOK, NEW j \in Jobs, NEW st \in Status, WriteStatus(j, st)
  PROVE  \A k \in Jobs : jobFile'[k].sha = jobFile[k].sha
<1>1. \A k \in Jobs : jobFile'[k] = IF k = j THEN [jobFile[j] EXCEPT !.st = st] ELSE jobFile[k]
  BY DEF WriteStatus, TypeOK
<1>2. [jobFile[j] EXCEPT !.st = st].sha = jobFile[j].sha
  BY DEF TypeOK
<1>3. QED
  BY <1>1, <1>2

LEMMA LeavePreserves ==
  ASSUME IInv, NEW c \in Callers, Leave(c), UNCHANGED <<diskVars, poolVars, result>>
  PROVE  IInv'
<1> USE DEF Leave, diskVars, poolVars
<1>1. TypeOK'
  BY DEF IInv, TypeOK, LockInv
<1>2. LockInv'
  BY DEF IInv, TypeOK, LockInv, HoldsLock
<1>3. StatusInv'
  BY DEF IInv, TypeOK, LockInv, StatusInv, HoldsLock
<1>4. EventInv'
  BY DEF IInv, TypeOK, LockInv, StatusInv, EventInv, HoldsLock
<1>5. MutexInv'
  BY DEF IInv, TypeOK, LockInv, MutexInv
<1>6. QED
  BY <1>1, <1>2, <1>3, <1>4, <1>5 DEF IInv

-----------------------------------------------------------------------------
(* Every action preserves the invariant.                                     *)

LEMMA StartRunPreserves ==
  ASSUME IInv, NEW c \in Callers, NEW r \in Requests, StartRun(c, r)
  PROVE  IInv'
<1> USE DEF StartRun, Step, diskVars, poolVars, task
<1>1. TypeOK'
  BY DEF IInv, TypeOK, LockInv
<1>2. LockInv'
  BY DEF IInv, TypeOK, LockInv, HoldsLock
<1>3. StatusInv'
  BY DEF IInv, TypeOK, LockInv, StatusInv, HoldsLock
<1>4. EventInv'
  BY DEF IInv, TypeOK, LockInv, StatusInv, EventInv, HoldsLock
<1>5. MutexInv'
  BY DEF IInv, TypeOK, LockInv, MutexInv
<1>6. QED
  BY <1>1, <1>2, <1>3, <1>4, <1>5 DEF IInv

LEMMA StartLockPreserves ==
  ASSUME IInv, NEW c \in Callers, StartLock(c)
  PROVE  IInv'
<1> USE DEF TryLock, Step, diskVars, poolVars, task
<1>1. CASE lock[job[c]] = None /\ Step(c, "startLock", "startCheck") /\ lock' = [lock EXCEPT ![job[c]] = c] /\ UNCHANGED task
  <2>1. TypeOK'
    BY <1>1 DEF StartLock, IInv, TypeOK, LockInv
  <2>2. LockInv'
    BY <1>1 DEF StartLock, IInv, TypeOK, LockInv, HoldsLock
  <2>3. StatusInv'
    BY <1>1 DEF StartLock, IInv, TypeOK, LockInv, StatusInv, HoldsLock
  <2>4. EventInv'
    BY <1>1 DEF StartLock, IInv, TypeOK, LockInv, StatusInv, EventInv, HoldsLock
  <2>5. MutexInv'
    BY <1>1 DEF StartLock, IInv, TypeOK, LockInv, MutexInv
  <2>6. QED
    BY <2>1, <2>2, <2>3, <2>4, <2>5 DEF IInv
<1>2. CASE Step(c, "startLock", "startBusy") /\ UNCHANGED <<task, lock>>
  <2>1. TypeOK'
    BY <1>2 DEF StartLock, IInv, TypeOK, LockInv
  <2>2. LockInv'
    BY <1>2 DEF StartLock, IInv, TypeOK, LockInv, HoldsLock
  <2>3. StatusInv'
    BY <1>2 DEF StartLock, IInv, TypeOK, LockInv, StatusInv, HoldsLock
  <2>4. EventInv'
    BY <1>2 DEF StartLock, IInv, TypeOK, LockInv, StatusInv, EventInv, HoldsLock
  <2>5. MutexInv'
    BY <1>2 DEF StartLock, IInv, TypeOK, LockInv, MutexInv
  <2>6. QED
    BY <2>1, <2>2, <2>3, <2>4, <2>5 DEF IInv
<1>3. QED
  BY <1>1, <1>2 DEF IInv, TypeOK, StartLock

LEMMA StartBusyPreserves ==
  ASSUME IInv, NEW c \in Callers, StartBusy(c)
  PROVE  IInv'
<1> USE DEF diskVars, poolVars, task
<1>1. CASE Leave(c)
  BY <1>1, LeavePreserves DEF StartBusy
<1>2. QED
  BY <1>1 DEF IInv, TypeOK, StartBusy

LEMMA StartCheckPreserves ==
  ASSUME IInv, NEW c \in Callers, StartCheck(c)
  PROVE  IInv'
<1> USE DEF Step, diskVars, poolVars, task
<1>1. CASE Leave(c)
  BY <1>1, LeavePreserves DEF StartCheck
<1>2. CASE jobFile[job[c]].st \in Pending /\ jobFile[job[c]].sha = req[c] /\ Step(c, "startCheck", "startMark") /\ UNCHANGED <<lock, task>>
  <2>1. TypeOK'
    BY <1>2 DEF StartCheck, IInv, TypeOK, LockInv
  <2>2. LockInv'
    BY <1>2 DEF StartCheck, IInv, TypeOK, LockInv, HoldsLock
  <2>3. StatusInv'
    BY <1>2 DEF StartCheck, IInv, TypeOK, LockInv, StatusInv, HoldsLock
  <2>4. EventInv'
    BY <1>2 DEF StartCheck, IInv, TypeOK, LockInv, StatusInv, EventInv, HoldsLock
  <2>5. MutexInv'
    BY <1>2 DEF StartCheck, IInv, TypeOK, LockInv, MutexInv
  <2>6. QED
    BY <2>1, <2>2, <2>3, <2>4, <2>5 DEF IInv
<1>3. CASE (jobFile[job[c]].st = "absent" \/ (jobFile[job[c]].st = "failed" /\ jobFile[job[c]].sha = req[c])) /\ Step(c, "startCheck", "startMutex") /\ UNCHANGED <<lock, task>>
  <2>1. TypeOK'
    BY <1>3 DEF StartCheck, IInv, TypeOK, LockInv
  <2>2. LockInv'
    BY <1>3 DEF StartCheck, IInv, TypeOK, LockInv, HoldsLock
  <2>3. StatusInv'
    BY <1>3 DEF StartCheck, IInv, TypeOK, LockInv, StatusInv, HoldsLock
  <2>4. EventInv'
    BY <1>3 DEF StartCheck, IInv, TypeOK, LockInv, StatusInv, EventInv, HoldsLock
  <2>5. MutexInv'
    BY <1>3 DEF StartCheck, IInv, TypeOK, LockInv, MutexInv
  <2>6. QED
    BY <2>1, <2>2, <2>3, <2>4, <2>5 DEF IInv
<1>4. QED
  BY <1>1, <1>2, <1>3 DEF IInv, TypeOK, StartCheck

LEMMA StartMarkPreserves ==
  ASSUME IInv, NEW c \in Callers, StartMark(c)
  PROVE  IInv'
<1> USE DEF MarkInterrupted, Step, WriteStatus, diskVars, poolVars, task
<1>1. CASE WriteStatus(job[c], "failed") /\ Step(c, "startMark", "startEvent") /\ UNCHANGED <<lock, task>>
  <2>0. jobFile' \in [Jobs -> [st: Status, sha: Requests \cup {None}]]
    BY <1>1, WriteStatusType DEF StartMark, IInv, TypeOK, LockInv
  <2>1. TypeOK'
    BY <1>1, <2>0 DEF StartMark, IInv, TypeOK, LockInv
  <2>2. LockInv'
    BY <1>1 DEF StartMark, IInv, TypeOK, LockInv, HoldsLock
  <2>3. StatusInv'
    BY <1>1 DEF StartMark, IInv, TypeOK, LockInv, StatusInv, HoldsLock
  <2>4. EventInv'
    BY <1>1 DEF StartMark, IInv, TypeOK, LockInv, StatusInv, EventInv, HoldsLock
  <2>5. MutexInv'
    BY <1>1 DEF StartMark, IInv, TypeOK, LockInv, MutexInv
  <2>6. QED
    BY <2>1, <2>2, <2>3, <2>4, <2>5 DEF IInv
<1>2. CASE Leave(c) /\ UNCHANGED jobFile
  BY <1>2, LeavePreserves DEF StartMark
<1>3. QED
  BY <1>1, <1>2 DEF IInv, TypeOK, StartMark

LEMMA StartEventPreserves ==
  ASSUME IInv, NEW c \in Callers, StartEvent(c)
  PROVE  IInv'
<1> USE DEF Step, Append, diskVars, poolVars, task
<1>1. CASE Append(job[c], "run_interrupted") /\ Step(c, "startEvent", "startMutex") /\ UNCHANGED <<lock, task>>
  <2>1. TypeOK'
    BY <1>1 DEF StartEvent, IInv, TypeOK, LockInv
  <2>2. LockInv'
    BY <1>1 DEF StartEvent, IInv, TypeOK, LockInv, HoldsLock
  <2>3. StatusInv'
    BY <1>1 DEF StartEvent, IInv, TypeOK, LockInv, StatusInv, HoldsLock
  <2>4. EventInv'
    BY <1>1 DEF StartEvent, IInv, TypeOK, LockInv, StatusInv, EventInv, HoldsLock
  <2>5. MutexInv'
    BY <1>1 DEF StartEvent, IInv, TypeOK, LockInv, MutexInv
  <2>6. QED
    BY <2>1, <2>2, <2>3, <2>4, <2>5 DEF IInv
<1>2. CASE Leave(c) /\ UNCHANGED lastEvent
  BY <1>2, LeavePreserves DEF StartEvent
<1>3. QED
  BY <1>1, <1>2 DEF IInv, TypeOK, StartEvent

LEMMA StartMutexPreserves ==
  ASSUME IInv, NEW c \in Callers, StartMutex(c)
  PROVE  IInv'
<1> USE DEF Step, diskVars, poolVars, task
<1>1. CASE Leave(c) /\ UNCHANGED <<jobFile, mutex>>
  BY <1>1, LeavePreserves DEF StartMutex
<1>2. CASE /\ ~closing[Home[c]]
          /\ jobFile' = [jobFile EXCEPT ![job[c]] = [st |-> "queued", sha |-> req[c]]]
          /\ mutex' = [mutex EXCEPT ![Home[c]] = c]
          /\ Step(c, "startMutex", "submit")
          /\ UNCHANGED <<lock, task>>
  <2>1. TypeOK'
    BY <1>2 DEF StartMutex, IInv, TypeOK, LockInv
  <2>2. LockInv'
    BY <1>2 DEF StartMutex, IInv, TypeOK, LockInv, HoldsLock
  <2>3. StatusInv'
    BY <1>2 DEF StartMutex, IInv, TypeOK, LockInv, StatusInv, HoldsLock
  <2>4. EventInv'
    BY <1>2 DEF StartMutex, IInv, TypeOK, LockInv, StatusInv, EventInv, HoldsLock
  <2>5. MutexInv'
    BY <1>2 DEF StartMutex, IInv, TypeOK, LockInv, MutexInv
  <2>6. QED
    BY <2>1, <2>2, <2>3, <2>4, <2>5 DEF IInv
<1>3. QED
  BY <1>1, <1>2 DEF IInv, TypeOK, StartMutex

LEMMA StartSubmitPreserves ==
  ASSUME IInv, NEW c \in Callers, StartSubmit(c)
  PROVE  IInv'
<1> USE DEF StartSubmit, Step, diskVars, poolVars, task
<1>1. TypeOK'
  BY DEF IInv, TypeOK, LockInv
<1>2. LockInv'
  BY DEF IInv, TypeOK, LockInv, HoldsLock
<1>3. StatusInv'
  BY DEF IInv, TypeOK, LockInv, StatusInv, HoldsLock
<1>4. EventInv'
  BY DEF IInv, TypeOK, LockInv, StatusInv, EventInv, HoldsLock
<1>5. MutexInv'
  BY DEF IInv, TypeOK, LockInv, MutexInv
<1>6. QED
  BY <1>1, <1>2, <1>3, <1>4, <1>5 DEF IInv

LEMMA GetRunPreserves ==
  ASSUME IInv, NEW c \in Callers, NEW j \in Jobs, GetRun(c, j)
  PROVE  IInv'
<1> USE DEF GetRun, Step, diskVars, poolVars, task
<1>1. TypeOK'
  BY DEF IInv, TypeOK, LockInv
<1>2. LockInv'
  BY DEF IInv, TypeOK, LockInv, HoldsLock
<1>3. StatusInv'
  BY DEF IInv, TypeOK, LockInv, StatusInv, HoldsLock
<1>4. EventInv'
  BY DEF IInv, TypeOK, LockInv, StatusInv, EventInv, HoldsLock
<1>5. MutexInv'
  BY DEF IInv, TypeOK, LockInv, MutexInv
<1>6. QED
  BY <1>1, <1>2, <1>3, <1>4, <1>5 DEF IInv

LEMMA GetLockPreserves ==
  ASSUME IInv, NEW c \in Callers, GetLock(c)
  PROVE  IInv'
<1> USE DEF TryLock, Step, diskVars, poolVars, task
<1>1. CASE lock[job[c]] = None /\ Step(c, "getLock", "getCheck") /\ lock' = [lock EXCEPT ![job[c]] = c] /\ UNCHANGED task
  <2>1. TypeOK'
    BY <1>1 DEF GetLock, IInv, TypeOK, LockInv
  <2>2. LockInv'
    BY <1>1 DEF GetLock, IInv, TypeOK, LockInv, HoldsLock
  <2>3. StatusInv'
    BY <1>1 DEF GetLock, IInv, TypeOK, LockInv, StatusInv, HoldsLock
  <2>4. EventInv'
    BY <1>1 DEF GetLock, IInv, TypeOK, LockInv, StatusInv, EventInv, HoldsLock
  <2>5. MutexInv'
    BY <1>1 DEF GetLock, IInv, TypeOK, LockInv, MutexInv
  <2>6. QED
    BY <2>1, <2>2, <2>3, <2>4, <2>5 DEF IInv
<1>2. CASE Leave(c)
  BY <1>2, LeavePreserves DEF GetLock
<1>3. QED
  BY <1>1, <1>2 DEF IInv, TypeOK, GetLock

LEMMA GetCheckPreserves ==
  ASSUME IInv, NEW c \in Callers, GetCheck(c)
  PROVE  IInv'
<1> USE DEF Step, diskVars, poolVars, task
<1>1. CASE jobFile[job[c]].st \in Pending /\ Step(c, "getCheck", "getMark") /\ UNCHANGED <<lock, task>>
  <2>1. TypeOK'
    BY <1>1 DEF GetCheck, IInv, TypeOK, LockInv
  <2>2. LockInv'
    BY <1>1 DEF GetCheck, IInv, TypeOK, LockInv, HoldsLock
  <2>3. StatusInv'
    BY <1>1 DEF GetCheck, IInv, TypeOK, LockInv, StatusInv, HoldsLock
  <2>4. EventInv'
    BY <1>1 DEF GetCheck, IInv, TypeOK, LockInv, StatusInv, EventInv, HoldsLock
  <2>5. MutexInv'
    BY <1>1 DEF GetCheck, IInv, TypeOK, LockInv, MutexInv
  <2>6. QED
    BY <2>1, <2>2, <2>3, <2>4, <2>5 DEF IInv
<1>2. CASE Leave(c)
  BY <1>2, LeavePreserves DEF GetCheck
<1>3. QED
  BY <1>1, <1>2 DEF IInv, TypeOK, GetCheck

LEMMA GetMarkPreserves ==
  ASSUME IInv, NEW c \in Callers, GetMark(c)
  PROVE  IInv'
<1> USE DEF MarkInterrupted, Step, WriteStatus, diskVars, poolVars, task
<1>1. CASE WriteStatus(job[c], "failed") /\ Step(c, "getMark", "getEvent") /\ UNCHANGED <<lock, task>>
  <2>0. jobFile' \in [Jobs -> [st: Status, sha: Requests \cup {None}]]
    BY <1>1, WriteStatusType DEF GetMark, IInv, TypeOK, LockInv
  <2>1. TypeOK'
    BY <1>1, <2>0 DEF GetMark, IInv, TypeOK, LockInv
  <2>2. LockInv'
    BY <1>1 DEF GetMark, IInv, TypeOK, LockInv, HoldsLock
  <2>3. StatusInv'
    BY <1>1 DEF GetMark, IInv, TypeOK, LockInv, StatusInv, HoldsLock
  <2>4. EventInv'
    BY <1>1 DEF GetMark, IInv, TypeOK, LockInv, StatusInv, EventInv, HoldsLock
  <2>5. MutexInv'
    BY <1>1 DEF GetMark, IInv, TypeOK, LockInv, MutexInv
  <2>6. QED
    BY <2>1, <2>2, <2>3, <2>4, <2>5 DEF IInv
<1>2. CASE Leave(c) /\ UNCHANGED jobFile
  BY <1>2, LeavePreserves DEF GetMark
<1>3. QED
  BY <1>1, <1>2 DEF IInv, TypeOK, GetMark

LEMMA GetEventPreserves ==
  ASSUME IInv, NEW c \in Callers, GetEvent(c)
  PROVE  IInv'
<1> USE DEF GetEvent, Leave, Append, diskVars, poolVars, task
<1>1. TypeOK'
  BY DEF IInv, TypeOK, LockInv
<1>2. LockInv'
  BY DEF IInv, TypeOK, LockInv, HoldsLock
<1>3. StatusInv'
  BY DEF IInv, TypeOK, LockInv, StatusInv, HoldsLock
<1>4. EventInv'
  BY DEF IInv, TypeOK, LockInv, StatusInv, EventInv, HoldsLock
<1>5. MutexInv'
  BY DEF IInv, TypeOK, LockInv, MutexInv
<1>6. QED
  BY <1>1, <1>2, <1>3, <1>4, <1>5 DEF IInv

LEMMA TakePreserves ==
  ASSUME IInv, NEW w \in Workers, NEW j \in Jobs, Take(w, j)
  PROVE  IInv'
<1> USE DEF Take, Step, diskVars, poolVars, task
<1>1. TypeOK'
  BY DEF IInv, TypeOK, LockInv
<1>2. LockInv'
  BY DEF IInv, TypeOK, LockInv, HoldsLock
<1>3. StatusInv'
  BY DEF IInv, TypeOK, LockInv, StatusInv, HoldsLock
<1>4. EventInv'
  BY DEF IInv, TypeOK, LockInv, StatusInv, EventInv, HoldsLock
<1>5. MutexInv'
  BY DEF IInv, TypeOK, LockInv, MutexInv
<1>6. QED
  BY <1>1, <1>2, <1>3, <1>4, <1>5 DEF IInv

LEMMA BeginPreserves ==
  ASSUME IInv, NEW w \in Workers, Begin(w)
  PROVE  IInv'
<1> USE DEF Step, diskVars, poolVars, task
<1>1. CASE /\ Step(w, "begin", "started")
          /\ WriteStatus(job[w], "running")
          /\ req' = [req EXCEPT ![w] = jobFile[job[w]].sha]
  <2>0. jobFile' \in [Jobs -> [st: Status, sha: Requests \cup {None}]]
    BY <1>1, WriteStatusType DEF Begin, IInv, TypeOK, LockInv
  <2>1. TypeOK'
    BY <1>1, <2>0 DEF Begin, IInv, TypeOK, LockInv
  <2>2. LockInv'
    BY <1>1 DEF Begin, IInv, TypeOK, LockInv, HoldsLock
  <2>3. job[w] \in Jobs /\ \A k \in Jobs : jobFile'[k].sha = jobFile[k].sha
    BY <1>1, WriteStatusKeepsIdentity DEF Begin, IInv, TypeOK, LockInv
  <2>4. \A k \in Jobs : jobFile'[k].st = IF k = job[w] THEN "running" ELSE jobFile[k].st
    <3>1. \A k \in Jobs : jobFile'[k] =
            IF k = job[w] THEN [jobFile[job[w]] EXCEPT !.st = "running"] ELSE jobFile[k]
      BY <1>1, <2>3 DEF WriteStatus, IInv, TypeOK
    <3>2. [jobFile[job[w]] EXCEPT !.st = "running"].st = "running"
      BY <2>3 DEF IInv, TypeOK
    <3>3. QED
      BY <3>1, <3>2
  <2>5. StatusInv'
    <3>1. /\ pc[w] = "begin" /\ lock[job[w]] = w /\ w \in Threads
          /\ pc' = [pc EXCEPT ![w] = "started"] /\ req' = [req EXCEPT ![w] = jobFile[job[w]].sha]
          /\ UNCHANGED <<queued, job, result, lock>>
      BY <1>1 DEF Begin, IInv, LockInv
    <3>2. \A c \in Callers : pc'[c] = pc[c] /\ req'[c] = req[c]
      BY <3>1 DEF IInv, TypeOK
    <3>3. \A c \in Callers : pc[c] \in HoldsLock => job[c] # job[w]
      BY <3>1 DEF IInv, LockInv
    <3>4. \A v \in Workers : v # w =>
            pc'[v] = pc[v] /\ req'[v] = req[v] /\ (pc[v] # "idle" => job[v] # job[w])
      BY <3>1 DEF IInv, TypeOK, LockInv
    <3>5. \A s \in Services, j \in Jobs : queued[s][j] > 0 => j # job[w]
      BY <3>1 DEF IInv, LockInv
    <3>6. pc'[w] = "started" /\ req'[w] = jobFile'[job[w]].sha /\ jobFile'[job[w]].st = "running"
      BY <2>3, <2>4, <3>1 DEF IInv, TypeOK
    <3>7. \A t \in Threads : pc[t] # "idle" => job[t] \in Jobs
      BY DEF IInv, LockInv
    <3>8. \A k \in Jobs \ {job[w]} : jobFile'[k].st = jobFile[k].st /\ jobFile'[k].sha = jobFile[k].sha
      BY <2>3, <2>4
    <3>9. \A c \in Callers : pc[c] \in HoldsLock =>
            jobFile'[job[c]].st = jobFile[job[c]].st /\ jobFile'[job[c]].sha = jobFile[job[c]].sha
      BY <3>3, <3>7, <3>8 DEF HoldsLock
    <3>10. \A v \in Workers : v # w /\ pc[v] # "idle" =>
            jobFile'[job[v]].st = jobFile[job[v]].st /\ jobFile'[job[v]].sha = jobFile[job[v]].sha
      BY <3>4, <3>7, <3>8
    <3> DEFINE CallerKnows(c) ==
          /\ pc[c] \in {"startMark", "getMark"} => jobFile[job[c]].st \in Pending
          /\ pc[c] \in {"startEvent", "getEvent"} => jobFile[job[c]].st = "failed"
          /\ pc[c] = "startMutex" => jobFile[job[c]].st \in {"absent", "failed"}
          /\ pc[c] = "submit" => jobFile[job[c]].st = "queued"
          /\ pc[c] \in {"startMark", "startEvent", "startMutex"} =>
               jobFile[job[c]].st = "absent" \/ jobFile[job[c]].sha = req[c]
          /\ pc[c] \in {"startLock", "startBusy", "startCheck", "startMark", "startEvent",
                        "startMutex", "submit"} => req[c] \in Requests
    <3> DEFINE WorkerKnows(v) ==
          /\ pc[v] = "begin" => jobFile[job[v]].st = "queued"
          /\ pc[v] \in {"started", "enter", "engine", "finished"} => jobFile[job[v]].st = "running"
          /\ pc[v] \in {"except", "write"} => jobFile[job[v]].st \in Pending
          /\ pc[v] = "write" /\ result[v] \in Finished => jobFile[job[v]].st = "running"
          /\ pc[v] \in {"idle", "begin"} => req[v] = None
          /\ pc[v] \notin {"idle", "begin", "release"} => req[v] \in {jobFile[job[v]].sha, None}
    <3>11. ASSUME NEW c \in Callers PROVE CallerKnows(c)'
      <4>1. CallerKnows(c)
        BY DEF IInv, StatusInv
      <4>2. QED
        BY <3>1, <3>2, <3>9, <4>1 DEF HoldsLock
    <3>12. ASSUME NEW v \in Workers PROVE WorkerKnows(v)'
      <4>1. WorkerKnows(v)
        BY DEF IInv, StatusInv
      <4>2. CASE v = w
        BY <3>1, <3>6, <4>2
      <4>3. CASE v # w
        BY <3>1, <3>4, <3>10, <4>1, <4>3
      <4>4. QED
        BY <4>2, <4>3
    <3>13. \A s \in Services, j \in Jobs : queued'[s][j] > 0 => jobFile'[j].st = "queued"
      BY <3>1, <3>5, <3>8 DEF IInv, StatusInv
    <3>14. \A c \in Callers : CallerKnows(c)'
      BY <3>11
    <3>15. \A v \in Workers : WorkerKnows(v)'
      BY <3>12
    <3>16. StatusInv' <=> /\ \A c \in Callers : CallerKnows(c)'
                          /\ \A v \in Workers : WorkerKnows(v)'
                          /\ \A s \in Services, j \in Jobs : queued'[s][j] > 0 => jobFile'[j].st = "queued"
      BY Zenon DEF StatusInv
    <3>17. QED
      BY <3>13, <3>14, <3>15, <3>16
  <2>6. EventInv'
    <3>1. \A j \in Jobs : jobFile'[j].st \in Finished => jobFile'[j].st = jobFile[j].st
      BY <2>4
    <3>2. pc' = [pc EXCEPT ![w] = "started"] /\ UNCHANGED <<lastEvent, job, result>>
      BY <1>1 DEF Begin
    <3>3. \A v \in Workers : pc'[v] # "started" => pc'[v] = pc[v]
      BY <3>2 DEF IInv, TypeOK
    <3>4. QED
      BY <3>1, <3>2, <3>3 DEF IInv, EventInv
  <2>7. MutexInv'
    BY <1>1 DEF Begin, IInv, TypeOK, LockInv, MutexInv
  <2>8. QED
    BY <2>1, <2>2, <2>5, <2>6, <2>7 DEF IInv
<1>2. CASE /\ Step(w, "begin", "except")
          /\ req' = [req EXCEPT ![w] = jobFile[job[w]].sha]
          /\ UNCHANGED jobFile
  <2>1. TypeOK'
    BY <1>2 DEF Begin, IInv, TypeOK, LockInv
  <2>2. LockInv'
    BY <1>2 DEF Begin, IInv, TypeOK, LockInv, HoldsLock
  <2>3. StatusInv'
    BY <1>2 DEF Begin, IInv, TypeOK, LockInv, StatusInv, HoldsLock
  <2>4. EventInv'
    BY <1>2 DEF Begin, IInv, TypeOK, LockInv, StatusInv, EventInv, HoldsLock
  <2>5. MutexInv'
    BY <1>2 DEF Begin, IInv, TypeOK, LockInv, MutexInv
  <2>6. QED
    BY <2>1, <2>2, <2>3, <2>4, <2>5 DEF IInv
<1>3. CASE Step(w, "begin", "except") /\ UNCHANGED <<jobFile, req>>
  <2>1. TypeOK'
    BY <1>3 DEF Begin, IInv, TypeOK, LockInv
  <2>2. LockInv'
    BY <1>3 DEF Begin, IInv, TypeOK, LockInv, HoldsLock
  <2>3. StatusInv'
    BY <1>3 DEF Begin, IInv, TypeOK, LockInv, StatusInv, HoldsLock
  <2>4. EventInv'
    BY <1>3 DEF Begin, IInv, TypeOK, LockInv, StatusInv, EventInv, HoldsLock
  <2>5. MutexInv'
    BY <1>3 DEF Begin, IInv, TypeOK, LockInv, MutexInv
  <2>6. QED
    BY <2>1, <2>2, <2>3, <2>4, <2>5 DEF IInv
<1>4. QED
  BY <1>1, <1>2, <1>3 DEF IInv, TypeOK, Begin

LEMMA StartedPreserves ==
  ASSUME IInv, NEW w \in Workers, Started(w)
  PROVE  IInv'
<1> USE DEF Step, Append, diskVars, poolVars, task
<1>1. CASE Step(w, "started", "enter") /\ Append(job[w], "run_started")
  <2>1. TypeOK'
    BY <1>1 DEF Started, IInv, TypeOK, LockInv
  <2>2. LockInv'
    BY <1>1 DEF Started, IInv, TypeOK, LockInv, HoldsLock
  <2>3. StatusInv'
    BY <1>1 DEF Started, IInv, TypeOK, LockInv, StatusInv, HoldsLock
  <2>4. EventInv'
    BY <1>1 DEF Started, IInv, TypeOK, LockInv, StatusInv, EventInv, HoldsLock
  <2>5. MutexInv'
    BY <1>1 DEF Started, IInv, TypeOK, LockInv, MutexInv
  <2>6. QED
    BY <2>1, <2>2, <2>3, <2>4, <2>5 DEF IInv
<1>2. CASE Step(w, "started", "except") /\ UNCHANGED lastEvent
  <2>1. TypeOK'
    BY <1>2 DEF Started, IInv, TypeOK, LockInv
  <2>2. LockInv'
    BY <1>2 DEF Started, IInv, TypeOK, LockInv, HoldsLock
  <2>3. StatusInv'
    BY <1>2 DEF Started, IInv, TypeOK, LockInv, StatusInv, HoldsLock
  <2>4. EventInv'
    BY <1>2 DEF Started, IInv, TypeOK, LockInv, StatusInv, EventInv, HoldsLock
  <2>5. MutexInv'
    BY <1>2 DEF Started, IInv, TypeOK, LockInv, MutexInv
  <2>6. QED
    BY <2>1, <2>2, <2>3, <2>4, <2>5 DEF IInv
<1>3. QED
  BY <1>1, <1>2 DEF IInv, TypeOK, Started

LEMMA EnterPreserves ==
  ASSUME IInv, NEW w \in Workers, Enter(w)
  PROVE  IInv'
<1> USE DEF Enter, Step, diskVars, poolVars, task
<1>1. TypeOK'
  BY DEF IInv, TypeOK, LockInv
<1>2. LockInv'
  BY DEF IInv, TypeOK, LockInv, HoldsLock
<1>3. StatusInv'
  BY DEF IInv, TypeOK, LockInv, StatusInv, HoldsLock
<1>4. EventInv'
  BY DEF IInv, TypeOK, LockInv, StatusInv, EventInv, HoldsLock
<1>5. MutexInv'
  BY DEF IInv, TypeOK, LockInv, MutexInv
<1>6. QED
  BY <1>1, <1>2, <1>3, <1>4, <1>5 DEF IInv

LEMMA RunPlanPreserves ==
  ASSUME IInv, NEW w \in Workers, RunPlan(w)
  PROVE  IInv'
<1> USE DEF Step, diskVars, poolVars, task
<1>1. CASE Step(w, "engine", "finished") /\ \E st \in Finished \cup {"failed"} : result' = [result EXCEPT ![w] = st]
  <2>1. TypeOK'
    BY <1>1 DEF RunPlan, IInv, TypeOK, LockInv
  <2>2. LockInv'
    BY <1>1 DEF RunPlan, IInv, TypeOK, LockInv, HoldsLock
  <2>3. StatusInv'
    BY <1>1 DEF RunPlan, IInv, TypeOK, LockInv, StatusInv, HoldsLock
  <2>4. EventInv'
    BY <1>1 DEF RunPlan, IInv, TypeOK, LockInv, StatusInv, EventInv, HoldsLock
  <2>5. MutexInv'
    BY <1>1 DEF RunPlan, IInv, TypeOK, LockInv, MutexInv
  <2>6. QED
    BY <2>1, <2>2, <2>3, <2>4, <2>5 DEF IInv
<1>2. CASE Step(w, "engine", "except") /\ UNCHANGED result
  <2>1. TypeOK'
    BY <1>2 DEF RunPlan, IInv, TypeOK, LockInv
  <2>2. LockInv'
    BY <1>2 DEF RunPlan, IInv, TypeOK, LockInv, HoldsLock
  <2>3. StatusInv'
    BY <1>2 DEF RunPlan, IInv, TypeOK, LockInv, StatusInv, HoldsLock
  <2>4. EventInv'
    BY <1>2 DEF RunPlan, IInv, TypeOK, LockInv, StatusInv, EventInv, HoldsLock
  <2>5. MutexInv'
    BY <1>2 DEF RunPlan, IInv, TypeOK, LockInv, MutexInv
  <2>6. QED
    BY <2>1, <2>2, <2>3, <2>4, <2>5 DEF IInv
<1>3. CASE Step(w, "engine", "write") /\ result' = [result EXCEPT ![w] = "failed"]
  <2>1. TypeOK'
    BY <1>3 DEF RunPlan, IInv, TypeOK, LockInv
  <2>2. LockInv'
    BY <1>3 DEF RunPlan, IInv, TypeOK, LockInv, HoldsLock
  <2>3. StatusInv'
    BY <1>3 DEF RunPlan, IInv, TypeOK, LockInv, StatusInv, HoldsLock
  <2>4. EventInv'
    BY <1>3 DEF RunPlan, IInv, TypeOK, LockInv, StatusInv, EventInv, HoldsLock
  <2>5. MutexInv'
    BY <1>3 DEF RunPlan, IInv, TypeOK, LockInv, MutexInv
  <2>6. QED
    BY <2>1, <2>2, <2>3, <2>4, <2>5 DEF IInv
<1>4. QED
  BY <1>1, <1>2, <1>3 DEF IInv, TypeOK, RunPlan

LEMMA FinishedEventPreserves ==
  ASSUME IInv, NEW w \in Workers, FinishedEvent(w)
  PROVE  IInv'
<1> USE DEF Step, Append, diskVars, poolVars, task
<1>1. CASE Step(w, "finished", "write") /\ Append(job[w], result[w])
  <2>1. TypeOK'
    BY <1>1 DEF FinishedEvent, IInv, TypeOK, LockInv
  <2>2. LockInv'
    BY <1>1 DEF FinishedEvent, IInv, TypeOK, LockInv, HoldsLock
  <2>3. StatusInv'
    BY <1>1 DEF FinishedEvent, IInv, TypeOK, LockInv, StatusInv, HoldsLock
  <2>4. EventInv'
    BY <1>1 DEF FinishedEvent, IInv, TypeOK, LockInv, StatusInv, EventInv, HoldsLock
  <2>5. MutexInv'
    BY <1>1 DEF FinishedEvent, IInv, TypeOK, LockInv, MutexInv
  <2>6. QED
    BY <2>1, <2>2, <2>3, <2>4, <2>5 DEF IInv
<1>2. CASE Step(w, "finished", "except") /\ UNCHANGED lastEvent
  <2>1. TypeOK'
    BY <1>2 DEF FinishedEvent, IInv, TypeOK, LockInv
  <2>2. LockInv'
    BY <1>2 DEF FinishedEvent, IInv, TypeOK, LockInv, HoldsLock
  <2>3. StatusInv'
    BY <1>2 DEF FinishedEvent, IInv, TypeOK, LockInv, StatusInv, HoldsLock
  <2>4. EventInv'
    BY <1>2 DEF FinishedEvent, IInv, TypeOK, LockInv, StatusInv, EventInv, HoldsLock
  <2>5. MutexInv'
    BY <1>2 DEF FinishedEvent, IInv, TypeOK, LockInv, MutexInv
  <2>6. QED
    BY <2>1, <2>2, <2>3, <2>4, <2>5 DEF IInv
<1>3. QED
  BY <1>1, <1>2 DEF IInv, TypeOK, FinishedEvent

LEMMA ExceptPreserves ==
  ASSUME IInv, NEW w \in Workers, Except(w)
  PROVE  IInv'
<1> USE DEF Step, Append, diskVars, poolVars, task
<1>1. CASE Append(job[w], "run_failed")
  <2>1. TypeOK'
    BY <1>1 DEF Except, IInv, TypeOK, LockInv
  <2>2. LockInv'
    BY <1>1 DEF Except, IInv, TypeOK, LockInv, HoldsLock
  <2>3. StatusInv'
    BY <1>1 DEF Except, IInv, TypeOK, LockInv, StatusInv, HoldsLock
  <2>4. EventInv'
    BY <1>1 DEF Except, IInv, TypeOK, LockInv, StatusInv, EventInv, HoldsLock
  <2>5. MutexInv'
    BY <1>1 DEF Except, IInv, TypeOK, LockInv, MutexInv
  <2>6. QED
    BY <2>1, <2>2, <2>3, <2>4, <2>5 DEF IInv
<1>2. CASE UNCHANGED lastEvent
  <2>1. TypeOK'
    BY <1>2 DEF Except, IInv, TypeOK, LockInv
  <2>2. LockInv'
    BY <1>2 DEF Except, IInv, TypeOK, LockInv, HoldsLock
  <2>3. StatusInv'
    BY <1>2 DEF Except, IInv, TypeOK, LockInv, StatusInv, HoldsLock
  <2>4. EventInv'
    BY <1>2 DEF Except, IInv, TypeOK, LockInv, StatusInv, EventInv, HoldsLock
  <2>5. MutexInv'
    BY <1>2 DEF Except, IInv, TypeOK, LockInv, MutexInv
  <2>6. QED
    BY <2>1, <2>2, <2>3, <2>4, <2>5 DEF IInv
<1>3. QED
  BY <1>1, <1>2 DEF IInv, TypeOK, Except

LEMMA WriteOutcomePreserves ==
  ASSUME IInv, NEW w \in Workers, WriteOutcome(w)
  PROVE  IInv'
<1> USE DEF Step, diskVars, poolVars, task
<1>1. CASE jobFile' = [jobFile EXCEPT ![job[w]] = [st |-> result[w], sha |-> req[w]]]
  <2>1. TypeOK'
    BY <1>1 DEF WriteOutcome, IInv, TypeOK, LockInv
  <2>2. LockInv'
    BY <1>1 DEF WriteOutcome, IInv, TypeOK, LockInv, HoldsLock
  <2>3. StatusInv'
    BY <1>1 DEF WriteOutcome, IInv, TypeOK, LockInv, StatusInv, HoldsLock
  <2>4. EventInv'
    BY <1>1 DEF WriteOutcome, IInv, TypeOK, LockInv, StatusInv, EventInv, HoldsLock
  <2>5. MutexInv'
    BY <1>1 DEF WriteOutcome, IInv, TypeOK, LockInv, MutexInv
  <2>6. QED
    BY <2>1, <2>2, <2>3, <2>4, <2>5 DEF IInv
<1>2. CASE UNCHANGED jobFile
  <2>1. TypeOK'
    BY <1>2 DEF WriteOutcome, IInv, TypeOK, LockInv
  <2>2. LockInv'
    BY <1>2 DEF WriteOutcome, IInv, TypeOK, LockInv, HoldsLock
  <2>3. StatusInv'
    BY <1>2 DEF WriteOutcome, IInv, TypeOK, LockInv, StatusInv, HoldsLock
  <2>4. EventInv'
    BY <1>2 DEF WriteOutcome, IInv, TypeOK, LockInv, StatusInv, EventInv, HoldsLock
  <2>5. MutexInv'
    BY <1>2 DEF WriteOutcome, IInv, TypeOK, LockInv, MutexInv
  <2>6. QED
    BY <2>1, <2>2, <2>3, <2>4, <2>5 DEF IInv
<1>3. QED
  BY <1>1, <1>2 DEF IInv, TypeOK, WriteOutcome

LEMMA ReleasePreserves ==
  ASSUME IInv, NEW w \in Workers, Release(w)
  PROVE  IInv'
<1> USE DEF Release, Leave, diskVars, poolVars, task
<1>1. TypeOK'
  BY DEF IInv, TypeOK, LockInv
<1>2. LockInv'
  BY DEF IInv, TypeOK, LockInv, HoldsLock
<1>3. StatusInv'
  BY DEF IInv, TypeOK, LockInv, StatusInv, HoldsLock
<1>4. EventInv'
  BY DEF IInv, TypeOK, LockInv, StatusInv, EventInv, HoldsLock
<1>5. MutexInv'
  BY DEF IInv, TypeOK, LockInv, MutexInv
<1>6. QED
  BY <1>1, <1>2, <1>3, <1>4, <1>5 DEF IInv

LEMMA ClosePreserves ==
  ASSUME IInv, NEW s \in Services, Close(s)
  PROVE  IInv'
<1> USE DEF Close, diskVars, poolVars, task
<1>1. TypeOK'
  BY DEF IInv, TypeOK, LockInv
<1>2. LockInv'
  BY DEF IInv, TypeOK, LockInv, HoldsLock
<1>3. StatusInv'
  BY DEF IInv, TypeOK, LockInv, StatusInv, HoldsLock
<1>4. EventInv'
  BY DEF IInv, TypeOK, LockInv, StatusInv, EventInv, HoldsLock
<1>5. MutexInv'
  BY DEF IInv, TypeOK, LockInv, MutexInv
<1>6. QED
  BY <1>1, <1>2, <1>3, <1>4, <1>5 DEF IInv

LEMMA CloseEndPreserves ==
  ASSUME IInv, NEW s \in Services, CloseEnd(s)
  PROVE  IInv'
<1> USE DEF CloseEnd, diskVars, poolVars, task
<1>1. TypeOK'
  BY DEF IInv, TypeOK, LockInv
<1>2. LockInv'
  BY DEF IInv, TypeOK, LockInv, HoldsLock
<1>3. StatusInv'
  BY DEF IInv, TypeOK, LockInv, StatusInv, HoldsLock
<1>4. EventInv'
  BY DEF IInv, TypeOK, LockInv, StatusInv, EventInv, HoldsLock
<1>5. MutexInv'
  BY DEF IInv, TypeOK, LockInv, MutexInv
<1>6. QED
  BY <1>1, <1>2, <1>3, <1>4, <1>5 DEF IInv

LEMMA CrashPreserves ==
  ASSUME IInv, NEW s \in Services, Crash(s)
  PROVE  IInv'
<1> USE DEF Crash, diskVars, poolVars, task
<1>1. TypeOK'
  BY DEF IInv, TypeOK, LockInv
<1>2. LockInv'
  BY DEF IInv, TypeOK, LockInv, HoldsLock
<1>3. StatusInv'
  BY DEF IInv, TypeOK, LockInv, StatusInv, HoldsLock
<1>4. EventInv'
  BY DEF IInv, TypeOK, LockInv, StatusInv, EventInv, HoldsLock
<1>5. MutexInv'
  BY DEF IInv, TypeOK, LockInv, MutexInv
<1>6. QED
  BY <1>1, <1>2, <1>3, <1>4, <1>5 DEF IInv


-----------------------------------------------------------------------------
LEMMA InitInv == Init => IInv
BY DEF Init, IInv, TypeOK, LockInv, StatusInv, EventInv, MutexInv, HoldsLock

LEMMA StutterInv == IInv /\ UNCHANGED vars => IInv'
BY DEF IInv, TypeOK, LockInv, StatusInv, EventInv, MutexInv, HoldsLock, vars, diskVars, poolVars, task

LEMMA StepInv == IInv /\ [Next]_vars => IInv'
<1> SUFFICES ASSUME IInv, [Next]_vars PROVE IInv'
  OBVIOUS
<1>1. ASSUME NEW c \in Callers, CallerNext(c) PROVE IInv'
  BY <1>1, StartRunPreserves, StartLockPreserves, StartBusyPreserves, StartCheckPreserves,
     StartMarkPreserves, StartEventPreserves, StartMutexPreserves, StartSubmitPreserves,
     GetRunPreserves, GetLockPreserves, GetCheckPreserves, GetMarkPreserves,
     GetEventPreserves
     DEF CallerNext
<1>2. ASSUME NEW w \in Workers, WorkerNext(w) PROVE IInv'
  <2>1. ASSUME NEW j \in Jobs, Take(w, j) PROVE IInv'
    BY <2>1, TakePreserves
  <2>2. CASE Enter(w)
    BY <2>2, EnterPreserves
  <2>3. CASE WorkerStep(w)
    BY <2>3, BeginPreserves, StartedPreserves, RunPlanPreserves, FinishedEventPreserves,
       ExceptPreserves, WriteOutcomePreserves, ReleasePreserves
       DEF WorkerStep
  <2>4. QED
    BY <1>2, <2>1, <2>2, <2>3 DEF WorkerNext
<1>3. ASSUME NEW s \in Services, Close(s) \/ CloseEnd(s) \/ Crash(s) PROVE IInv'
  BY <1>3, ClosePreserves, CloseEndPreserves, CrashPreserves
<1>4. CASE UNCHANGED vars
  BY <1>4, StutterInv
<1>5. QED
  BY <1>1, <1>2, <1>3, <1>4 DEF Next

(***************************************************************************)
(* What the owner of the lock knows holds in every state of the service,   *)
(* for any number of processes, threads, fingerprints and jobs.            *)
(***************************************************************************)
THEOREM Invariance == Spec => []IInv
BY InitInv, StepInv, PTL DEF Spec

(***************************************************************************)
(* The type invariant of the service.                                      *)
(***************************************************************************)
THEOREM TypeCorrect == Spec => []TypeOK
<1>1. IInv => TypeOK
  BY DEF IInv
<1>2. QED
  BY <1>1, Invariance, PTL

(***************************************************************************)
(* File locks prevent duplicate workers: at most one task or worker for a  *)
(* job over all processes that share the root.                             *)
(***************************************************************************)
THEOREM AtMostOneExecution == Spec => []OneExecution
<1>1. IInv => OneExecution
  <2> SUFFICES ASSUME IInv, NEW j \in Jobs
               PROVE  /\ \A v, w \in Workers : Executing(v, j) /\ Executing(w, j) => v = w
                      /\ \A w \in Workers, s \in Services : Executing(w, j) => queued[s][j] = 0
                      /\ \A s \in Services : queued[s][j] <= 1
                      /\ \A s, u \in Services : queued[s][j] > 0 /\ queued[u][j] > 0 => s = u
                      /\ \A w \in Workers : Executing(w, j) => lock[j] = w
    BY DEF OneExecution
  <2>1. \A w \in Workers : Executing(w, j) => lock[j] = w
    BY DEF IInv, LockInv, Executing
  <2>2. \A s \in Services : queued[s][j] \in Nat
    BY DEF IInv, TypeOK
  <2>3. \A s \in Services : queued[s][j] > 0 => queued[s][j] = 1 /\ lock[j] = s
    BY DEF IInv, LockInv
  <2>4. QED
    BY <2>1, <2>2, <2>3
<1>2. QED
  BY <1>1, Invariance, PTL

(***************************************************************************)
(* The job file and the event log never disagree where a reader could      *)
(* tell: a finished job's log ends with its outcome.                       *)
(***************************************************************************)
THEOREM LogAgrees == Spec => []LogMatchesState
<1>1. IInv => LogMatchesState
  BY DEF IInv, StatusInv, EventInv, LogMatchesState
<1>2. QED
  BY <1>1, Invariance, PTL

(***************************************************************************)
(* close() strands no job of its process, and nothing reaches a pool that  *)
(* was shut down.                                                          *)
(***************************************************************************)
THEOREM CloseDrains == Spec => []ShutdownDrains
<1>1. IInv => ShutdownDrains
  BY DEF IInv, MutexInv, ShutdownDrains
<1>2. QED
  BY <1>1, Invariance, PTL

(***************************************************************************)
(* A job file never passes to another execution: it keeps its identity, or *)
(* a worker that could not read it leaves it without one, for ever.        *)
(***************************************************************************)
THEOREM IdentityNeverChanges == Spec => IdentityKept
<1> DEFINE Kept == \A j \in Jobs : jobFile[j].st # "absent" =>
                      jobFile'[j].sha \in {jobFile[j].sha, None}
<1> USE DEF IInv
<1>1. ASSUME IInv, NEW c \in Callers, CallerNext(c) PROVE Kept
  <2>1. CASE StartMark(c) \/ GetMark(c)
    <3>1. job[c] \in Jobs
      BY <1>1, <2>1 DEF StartMark, GetMark, MarkInterrupted, LockInv
    <3>2. CASE UNCHANGED jobFile
      BY <3>2
    <3>3. CASE WriteStatus(job[c], "failed")
      BY <1>1, <3>1, <3>3, WriteStatusKeepsIdentity
    <3>4. QED
      BY <2>1, <3>2, <3>3 DEF StartMark, GetMark, MarkInterrupted
  <2>2. CASE StartMutex(c)
    <3>1. job[c] \in Jobs /\ (jobFile[job[c]].st = "absent" \/ jobFile[job[c]].sha = req[c])
      BY <1>1, <2>2 DEF StartMutex, LockInv, StatusInv
    <3>2. QED
      BY <1>1, <2>2, <3>1 DEF StartMutex, TypeOK
  <2>3. CASE UNCHANGED jobFile
    BY <2>3
  <2>4. QED
    BY <1>1, <2>1, <2>2, <2>3
       DEF CallerNext, diskVars, StartRun, StartLock, StartBusy, StartCheck, StartEvent,
           StartSubmit, GetRun, GetLock, GetCheck, GetEvent
<1>2. ASSUME IInv, NEW w \in Workers, WorkerNext(w) PROVE Kept
  <2>1. CASE UNCHANGED jobFile
    BY <2>1
  <2>2. ASSUME NEW st \in Status, pc[w] # "idle", WriteStatus(job[w], st) PROVE Kept
    BY <1>2, <2>2, WriteStatusKeepsIdentity DEF LockInv
  <2>3. CASE Begin(w)
    BY <2>1, <2>2, <2>3 DEF Begin, Step
  <2>4. CASE WriteOutcome(w)
    <3>1. job[w] \in Jobs /\ req[w] \in {jobFile[job[w]].sha, None}
      BY <1>2, <2>4 DEF WriteOutcome, Step, LockInv, StatusInv
    <3>2. CASE jobFile' = [jobFile EXCEPT ![job[w]] = [st |-> result[w], sha |-> req[w]]]
      BY <1>2, <3>1, <3>2 DEF TypeOK
    <3>3. QED
      BY <2>1, <2>4, <3>2 DEF WriteOutcome
  <2>5. QED
    BY <1>2, <2>1, <2>3, <2>4
       DEF WorkerNext, WorkerStep, diskVars, Take, Enter, Started, RunPlan, FinishedEvent,
           Except, Release
<1>3. ASSUME NEW s \in Services, Close(s) \/ CloseEnd(s) \/ Crash(s) PROVE Kept
  BY <1>3 DEF Close, CloseEnd, Crash, diskVars
<1>4. IInv /\ [Next]_vars => Kept \/ UNCHANGED vars
  BY <1>1, <1>2, <1>3 DEF Next
<1>5. QED
  BY <1>4, Invariance, PTL DEF Spec, IdentityKept

-----------------------------------------------------------------------------
(* The refinement of RunJobs.                                                *)

\* Thread t is going to write the outcome of job j.
LivePC == {"submit", "begin", "started", "enter", "engine", "finished", "except", "write"}
Busy(t, j) == pc[t] \in LivePC /\ job[t] = j

LEMMA AliveMeans ==
  ASSUME TypeOK, NEW j \in Jobs
  PROVE  Alive(j) <=> InQueue(j) \/ \E t \in Threads : Busy(t, j)
<1>1. (\E t \in Callers : Busy(t, j)) <=> \E c \in Callers : pc[c] = "submit" /\ job[c] = j
  BY DEF TypeOK, Busy, LivePC
<1>2. (\E t \in Workers : Busy(t, j)) <=> \E w \in Workers : Executing(w, j) /\ pc[w] # "release"
  BY DEF TypeOK, Busy, LivePC, Executing
<1>3. QED
  BY <1>1, <1>2 DEF Alive

LEMMA AliveMeansAfter ==
  ASSUME TypeOK', NEW j \in Jobs
  PROVE  Alive(j)' <=> InQueue(j)' \/ \E t \in Threads : Busy(t, j)'
<1>1. (\E t \in Callers : Busy(t, j)') <=> \E c \in Callers : pc'[c] = "submit" /\ job'[c] = j
  BY DEF TypeOK, Busy, LivePC
<1>2. (\E t \in Workers : Busy(t, j)') <=> \E w \in Workers : Executing(w, j)' /\ pc'[w] # "release"
  BY DEF TypeOK, Busy, LivePC, Executing
<1>3. Alive(j)' <=> \/ InQueue(j)'
                    \/ \E w \in Workers : Executing(w, j)' /\ pc'[w] # "release"
                    \/ \E c \in Callers : pc'[c] = "submit" /\ job'[c] = j
  BY DEF Alive, InQueue, Executing
<1>4. QED
  BY <1>1, <1>2, <1>3, Zenon

\* The owner of a job's lock that is not busy with it knows that nobody is.
LEMMA OwnerIdle ==
  ASSUME IInv, NEW j \in Jobs, NEW t \in Threads, lock[j] = t, ~Busy(t, j)
  PROVE  ~Alive(j)
<1>1. ~InQueue(j)
  BY DEF IInv, LockInv, InQueue
<1>2. \A u \in Threads : ~Busy(u, j)
  BY DEF IInv, LockInv, Busy, LivePC, HoldsLock, TypeOK
<1>3. QED
  BY <1>1, <1>2, AliveMeans DEF IInv

LEMMA OwnerIdleAfter ==
  ASSUME IInv', NEW j \in Jobs, NEW t \in Threads, lock'[j] = t, ~Busy(t, j)'
  PROVE  ~Alive(j)'
<1>1. ~InQueue(j)'
  BY DEF IInv, LockInv, InQueue
<1>2. \A u \in Threads : ~Busy(u, j)'
  BY DEF IInv, LockInv, Busy, LivePC, HoldsLock, TypeOK
<1>3. QED
  BY <1>1, <1>2, AliveMeansAfter DEF IInv

\* A step of one thread that takes up no job and leaves none.
LEMMA Quiet ==
  ASSUME TypeOK, TypeOK', NEW t \in Threads, queued' = queued,
         \A u \in Threads \ {t} : pc'[u] = pc[u] /\ job'[u] = job[u],
         \/ pc[t] \notin LivePC /\ pc'[t] \notin LivePC
         \/ pc[t] \in LivePC /\ pc'[t] \in LivePC /\ job'[t] = job[t]
  PROVE  \A j \in Jobs : Alive(j)' <=> Alive(j)
<1> SUFFICES ASSUME NEW j \in Jobs PROVE Alive(j)' <=> Alive(j)
  OBVIOUS
<1>1. \A u \in Threads : Busy(u, j)' <=> Busy(u, j)
  BY DEF Busy
<1>2. InQueue(j)' <=> InQueue(j)
  BY DEF InQueue
<1>3. QED
  BY <1>1, <1>2, AliveMeans, AliveMeansAfter

\* What the mapping needs to know of a step: whose file it writes, whose life it begins or ends.
Writes(j, st) == /\ jobFile'[j].st = st
                 /\ \A k \in Jobs \ {j} : jobFile'[k].st = jobFile[k].st
Reads == \A k \in Jobs : jobFile'[k].st = jobFile[k].st
Keeps == \A k \in Jobs : Alive(k)' <=> Alive(k)
Turns(j) == \A k \in Jobs \ {j} : Alive(k)' <=> Alive(k)

LEMMA OneChanged ==
  ASSUME NEW S, NEW j \in S, NEW f, NEW g, NEW b,
         f = [k \in S |-> f[k]], g = [k \in S |-> g[k]],
         \A k \in S \ {j} : g[k] = f[k], g[j] = b
  PROVE  g = [f EXCEPT ![j] = b]
OBVIOUS

LEMMA WritesMapped ==
  ASSUME NEW j \in Jobs, NEW st, Writes(j, st)
  PROVE  [k \in Jobs |-> jobFile[k].st]' = [[k \in Jobs |-> jobFile[k].st] EXCEPT ![j] = st]
BY DEF Writes

LEMMA ReadsMapped ==
  ASSUME Reads
  PROVE  [k \in Jobs |-> jobFile[k].st]' = [k \in Jobs |-> jobFile[k].st]
BY DEF Reads

LEMMA KeepsMapped ==
  ASSUME Keeps
  PROVE  [k \in Jobs |-> Alive(k)]' = [k \in Jobs |-> Alive(k)]
BY SMT DEF Keeps, Alive

LEMMA TurnsMapped ==
  ASSUME NEW j \in Jobs, Turns(j), NEW b, Alive(j)' = b
  PROVE  [k \in Jobs |-> Alive(k)]' = [[k \in Jobs |-> Alive(k)] EXCEPT ![j] = b]
<1> DEFINE L == [k \in Jobs |-> Alive(k)]
<1>1. \A k \in Jobs \ {j} : Alive(k)' = Alive(k)
  BY SMT DEF Turns, Alive
<1>2. L' = [k \in Jobs |-> L'[k]] /\ L = [k \in Jobs |-> L[k]]
  BY Zenon
<1>3. \A k \in Jobs \ {j} : L'[k] = L[k]
  BY <1>1, Zenon
<1>4. L'[j] = b
  BY Zenon
<1> HIDE DEF L
<1>5. L' = [L EXCEPT ![j] = b]
  BY <1>2, <1>3, <1>4, OneChanged
<1>6. QED
  BY <1>5 DEF L

LEMMA StutterMapped ==
  ASSUME Reads, Keeps
  PROVE  UNCHANGED Promise!runVars
BY ReadsMapped, KeepsMapped DEF Promise!runVars

LEMMA SubmitMapped ==
  ASSUME NEW j \in Jobs, jobFile[j].st \in {"absent", "failed"}, ~Alive(j),
         Writes(j, "queued"), Turns(j), Alive(j)'
  PROVE  Promise!Submit(j)
<1>1. ~[k \in Jobs |-> Alive(k)][j]
  BY Zenon
<1>2. [k \in Jobs |-> jobFile[k].st][j] \in {"absent", "failed"}
  OBVIOUS
<1>3. [k \in Jobs |-> jobFile[k].st]' = [[k \in Jobs |-> jobFile[k].st] EXCEPT ![j] = "queued"]
  BY WritesMapped
<1>4. Alive(j)' = TRUE
  BY Zenon
<1>5. [k \in Jobs |-> Alive(k)]' = [[k \in Jobs |-> Alive(k)] EXCEPT ![j] = TRUE]
  BY <1>4, TurnsMapped
<1>6. QED
  BY <1>1, <1>2, <1>3, <1>5, Zenon DEF Promise!Submit

LEMMA StartMapped ==
  ASSUME NEW j \in Jobs, jobFile[j].st = "queued", Alive(j), Writes(j, "running"), Keeps
  PROVE  Promise!Start(j)
<1>1. [k \in Jobs |-> Alive(k)][j]
  BY Zenon
<1>2. [k \in Jobs |-> jobFile[k].st][j] = "queued"
  OBVIOUS
<1>3. QED
  BY <1>1, <1>2, WritesMapped, KeepsMapped, Zenon DEF Promise!Start

LEMMA FinishMapped ==
  ASSUME NEW j \in Jobs, NEW st \in Finished \cup {"failed"}, Alive(j),
         jobFile[j].st = "running" \/ (jobFile[j].st = "queued" /\ st = "failed"),
         Writes(j, st), Turns(j), ~Alive(j)'
  PROVE  Promise!Finish(j)
<1>1. [k \in Jobs |-> Alive(k)][j]
  BY Zenon
<1>2. \/ [k \in Jobs |-> jobFile[k].st][j] = "running"
      \/ [k \in Jobs |-> jobFile[k].st][j] = "queued" /\ st = "failed"
  OBVIOUS
<1>3. [k \in Jobs |-> jobFile[k].st]' = [[k \in Jobs |-> jobFile[k].st] EXCEPT ![j] = st]
  BY WritesMapped
<1>4. Alive(j)' = FALSE
  BY SMT DEF Alive
<1>5. [k \in Jobs |-> Alive(k)]' = [[k \in Jobs |-> Alive(k)] EXCEPT ![j] = FALSE]
  BY <1>4, TurnsMapped
<1>6. st \in Promise!Finished \cup {"failed"}
  BY DEF Promise!Finished
<1>7. QED
  BY <1>1, <1>2, <1>3, <1>5, <1>6, Zenon DEF Promise!Finish

LEMMA InterruptMapped ==
  ASSUME NEW j \in Jobs, jobFile[j].st \in Pending, ~Alive(j), Writes(j, "failed"), Keeps
  PROVE  Promise!Interrupt(j)
<1>1. ~[k \in Jobs |-> Alive(k)][j]
  BY Zenon
<1>2. [k \in Jobs |-> jobFile[k].st][j] \in Promise!Pending
  BY DEF Promise!Pending
<1>3. QED
  BY <1>1, <1>2, WritesMapped, KeepsMapped, Zenon DEF Promise!Interrupt

LEMMA OrphanMapped ==
  ASSUME Reads, \A k \in Jobs : Alive(k)' => Alive(k)
  PROVE  Promise!Orphan
<1> DEFINE L == [k \in Jobs |-> Alive(k)]
           S == {k \in Jobs : Alive(k) /\ ~Alive(k)'}
<1>1. \A k \in Jobs : Alive(k)' <=> Alive(k) /\ k \notin S
  BY Zenon
<1>2. S \in SUBSET {k \in Jobs : L[k]}
  BY Zenon
<1> HIDE DEF S
<1>3. \A k \in Jobs : Alive(k)' = (Alive(k) /\ k \notin S)
  <2> SUFFICES ASSUME NEW k \in Jobs PROVE Alive(k)' = (Alive(k) /\ k \notin S)
    OBVIOUS
  <2>1. Alive(k)' <=> Alive(k) /\ k \notin S
    BY <1>1
  <2>2. CASE Alive(k)'
    <3>1. Alive(k)' = TRUE
      BY <2>2, SMT DEF Alive
    <3>2. (Alive(k) /\ k \notin S) = TRUE
      BY <2>1, <2>2, Zenon
    <3>3. QED
      BY <3>1, <3>2, Zenon
  <2>3. CASE ~Alive(k)'
    <3>1. Alive(k)' = FALSE
      BY <2>3, SMT DEF Alive
    <3>2. (Alive(k) /\ k \notin S) = FALSE
      BY <2>1, <2>3, Zenon
    <3>3. QED
      BY <3>1, <3>2, Zenon
  <2>4. QED
    BY <2>2, <2>3
<1>4. L' = [k \in Jobs |-> L[k] /\ k \notin S]
  <2>1. \A k \in Jobs : L[k] = Alive(k)
    BY Zenon
  <2>2. \A k \in Jobs : Alive(k)' = (L[k] /\ k \notin S)
    BY <1>3, <2>1, Zenon
  <2>3. QED
    BY <2>2, Zenon
<1>5. QED
  BY <1>2, <1>4, ReadsMapped, Zenon DEF Promise!Orphan

\* What a step of the service is, seen from the job files.
Mapped == [Promise!JobsNext]_(Promise!runVars)

\* A thread that leaves its call writes no outcome and takes up no job.
LEMMA LeaveMapped ==
  ASSUME TypeOK, TypeOK', NEW t \in Threads, pc[t] \notin LivePC, Leave(t),
         queued' = queued, UNCHANGED jobFile
  PROVE  Mapped
<1>1. Keeps
  BY Quiet DEF Leave, TypeOK, LivePC, Keeps
<1>2. QED
  BY <1>1, StutterMapped DEF Reads, Mapped

\* So does a thread that goes on without being busy, or goes on being busy.
LEMMA GoMapped ==
  ASSUME TypeOK, TypeOK', NEW t \in Threads, NEW from, NEW to, Step(t, from, to),
         queued' = queued, UNCHANGED jobFile,
         \A u \in Threads \ {t} : job'[u] = job[u],
         \/ from \notin LivePC /\ to \notin LivePC
         \/ from \in LivePC /\ to \in LivePC /\ job'[t] = job[t]
  PROVE  Mapped
<1>1. Keeps
  BY Quiet DEF Step, TypeOK, Keeps
<1>2. QED
  BY <1>1, StutterMapped DEF Reads, Mapped

\* WriteStatus changes the status of one job.
LEMMA WriteStatusWrites ==
  ASSUME TypeOK, NEW j \in Jobs, NEW st, WriteStatus(j, st)
  PROVE  Writes(j, st)
<1>1. \A k \in Jobs : jobFile'[k] = IF k = j THEN [jobFile[j] EXCEPT !.st = st] ELSE jobFile[k]
  BY DEF WriteStatus, TypeOK
<1>2. [jobFile[j] EXCEPT !.st = st].st = st
  BY DEF TypeOK
<1>3. QED
  BY <1>1, <1>2 DEF Writes

LEMMA MarkMapped ==
  ASSUME IInv, IInv', NEW c \in Callers, NEW from \in {"startMark", "getMark"},
         NEW to \in {"startEvent", "getEvent"}, MarkInterrupted(c, from, to)
  PROVE  Mapped
<1>1. pc[c] = from /\ pc[c] \in HoldsLock /\ pc[c] \notin LivePC /\ job[c] \in Jobs
  BY DEF MarkInterrupted, HoldsLock, LivePC, IInv, LockInv
<1>2. queued' = queued
  BY DEF MarkInterrupted, poolVars
<1>3. CASE Leave(c) /\ UNCHANGED jobFile
  BY <1>1, <1>2, <1>3, LeaveMapped DEF IInv
<1>4. CASE WriteStatus(job[c], "failed") /\ Step(c, from, to) /\ UNCHANGED <<lock, task>>
  <2>0. PICK j \in Jobs : j = job[c]
    BY <1>1
  <2>1. Keeps
    BY <2>0, <1>1, <1>2, <1>4, Quiet DEF Step, task, IInv, TypeOK, LivePC, Keeps
  <2>2. Writes(j, "failed")
    BY <2>0, <1>1, <1>4, WriteStatusWrites DEF IInv
  <2>3. ~Alive(j)
    BY <2>0, <1>1, OwnerIdle DEF IInv, LockInv, Busy
  <2>4. jobFile[j].st \in Pending
    BY <2>0, <1>1 DEF IInv, StatusInv
  <2>5. Promise!Interrupt(j)
    BY <2>0, <1>1, <2>1, <2>2, <2>3, <2>4, InterruptMapped
  <2>6. QED
    BY <2>0, <1>1, <2>5, Zenon DEF Mapped, Promise!JobsNext
<1>5. QED
  BY <1>3, <1>4 DEF MarkInterrupted

LEMMA StartMutexMapped ==
  ASSUME IInv, IInv', NEW c \in Callers, StartMutex(c)
  PROVE  Mapped
<1>1. /\ pc[c] = "startMutex" /\ pc[c] \in HoldsLock /\ pc[c] \notin LivePC
      /\ job[c] \in Jobs /\ queued' = queued
  BY DEF StartMutex, HoldsLock, LivePC, IInv, LockInv
<1>2. CASE Leave(c) /\ UNCHANGED jobFile
  BY <1>1, <1>2, LeaveMapped DEF IInv
<1>3. CASE /\ jobFile' = [jobFile EXCEPT ![job[c]] = [st |-> "queued", sha |-> req[c]]]
           /\ Step(c, "startMutex", "submit")
           /\ UNCHANGED <<lock, task>>
  <2>0. PICK j \in Jobs : j = job[c]
    BY <1>1
  <2>1. Writes(j, "queued")
    BY <2>0, <1>1, <1>3 DEF Writes, IInv, TypeOK
  <2>2. ~Alive(j)
    BY <2>0, <1>1, OwnerIdle DEF IInv, LockInv, Busy
  <2>3. jobFile[j].st \in {"absent", "failed"}
    BY <2>0, <1>1 DEF IInv, StatusInv
  <2>4. pc' = [pc EXCEPT ![c] = "submit"] /\ job' = job
    BY <2>0, <1>3 DEF Step, task
  <2>5. Busy(c, j)'
    BY <2>0, <2>4 DEF Busy, LivePC, IInv, TypeOK
  <2>6. Alive(j)'
    BY <2>0, <1>1, <2>4, <2>5 DEF Alive, IInv, TypeOK
  <2>7. Turns(j)
    <3> SUFFICES ASSUME NEW k \in Jobs \ {j} PROVE Alive(k)' <=> Alive(k)
      BY DEF Turns
    <3>1. \A u \in Threads : Busy(u, k)' <=> Busy(u, k)
      BY <1>1, <2>0, <2>4 DEF Busy, LivePC, IInv, TypeOK
    <3>2. InQueue(k)' <=> InQueue(k)
      BY <1>1 DEF InQueue
    <3>3. QED
      BY <3>1, <3>2, AliveMeans, AliveMeansAfter DEF IInv
  <2>8. Promise!Submit(j)
    BY <2>0, <1>1, <2>1, <2>2, <2>3, <2>6, <2>7, SubmitMapped
  <2>9. QED
    BY <2>0, <1>1, <2>8, Zenon DEF Mapped, Promise!JobsNext
<1>4. QED
  BY <1>2, <1>3 DEF StartMutex

LEMMA StartSubmitMapped ==
  ASSUME IInv, IInv', NEW c \in Callers, StartSubmit(c)
  PROVE  Mapped
<1>1. /\ pc[c] = "submit" /\ job[c] \in Jobs /\ Home[c] \in Services
      /\ pc' = [pc EXCEPT ![c] = "idle"] /\ job' = [job EXCEPT ![c] = None]
      /\ queued' = [queued EXCEPT ![Home[c]][job[c]] = @ + 1]
      /\ jobFile' = jobFile
  BY DEF StartSubmit, Step, diskVars, IInv, LockInv
<1>2. Keeps
  <2> SUFFICES ASSUME NEW k \in Jobs PROVE Alive(k)' <=> Alive(k)
    BY DEF Keeps
  <2>1. \A u \in Threads \ {c} : Busy(u, k)' <=> Busy(u, k)
    BY <1>1 DEF Busy, IInv, TypeOK
  <2>2. ~Busy(c, k)' /\ (Busy(c, k) <=> k = job[c])
    BY <1>1 DEF Busy, LivePC, IInv, TypeOK
  <2>3. k # job[c] => (InQueue(k)' <=> InQueue(k))
    BY <1>1 DEF InQueue, IInv, TypeOK
  <2>4. k = job[c] => InQueue(k)'
    BY <1>1 DEF InQueue, IInv, TypeOK
  <2>5. QED
    BY <2>1, <2>2, <2>3, <2>4, AliveMeans, AliveMeansAfter DEF IInv
<1>3. QED
  BY <1>1, <1>2, StutterMapped DEF Reads, Mapped

LEMMA TakeMapped ==
  ASSUME IInv, IInv', NEW w \in Workers, NEW j \in Jobs, Take(w, j)
  PROVE  Mapped
<1>1. /\ pc[w] = "idle" /\ Home[w] \in Services /\ queued[Home[w]][j] > 0
      /\ pc' = [pc EXCEPT ![w] = "begin"] /\ job' = [job EXCEPT ![w] = j]
      /\ queued' = [queued EXCEPT ![Home[w]][j] = @ - 1]
      /\ jobFile' = jobFile
  BY DEF Take, Step, diskVars
<1>2. Keeps
  <2> SUFFICES ASSUME NEW k \in Jobs PROVE Alive(k)' <=> Alive(k)
    BY DEF Keeps
  <2>1. \A u \in Threads \ {w} : Busy(u, k)' <=> Busy(u, k)
    BY <1>1 DEF Busy, IInv, TypeOK
  <2>2. ~Busy(w, k) /\ (Busy(w, k)' <=> k = j)
    BY <1>1 DEF Busy, LivePC, IInv, TypeOK
  <2>3. k # j => (InQueue(k)' <=> InQueue(k))
    BY <1>1 DEF InQueue, IInv, TypeOK
  <2>4. k = j => InQueue(k)
    BY <1>1 DEF InQueue
  <2>5. QED
    BY <2>1, <2>2, <2>3, <2>4, AliveMeans, AliveMeansAfter DEF IInv
<1>3. QED
  BY <1>1, <1>2, StutterMapped DEF Reads, Mapped

LEMMA BeginMapped ==
  ASSUME IInv, IInv', NEW w \in Workers, Begin(w)
  PROVE  Mapped
<1>1. pc[w] = "begin" /\ job[w] \in Jobs /\ queued' = queued /\ job' = job
  BY DEF Begin, Step, poolVars, task, IInv, LockInv
<1>2. CASE Step(w, "begin", "except") /\ UNCHANGED jobFile
  BY <1>1, <1>2, GoMapped DEF LivePC, IInv
<1>3. CASE Step(w, "begin", "started") /\ WriteStatus(job[w], "running")
  <2>0. PICK j \in Jobs : j = job[w]
    BY <1>1
  <2>1. Keeps
    BY <2>0, <1>1, <1>3, Quiet DEF Step, IInv, TypeOK, LivePC, Keeps
  <2>2. Writes(j, "running")
    BY <2>0, <1>1, <1>3, WriteStatusWrites DEF IInv
  <2>3. Alive(j) /\ jobFile[j].st = "queued"
    BY <2>0, <1>1 DEF Alive, Executing, IInv, StatusInv
  <2>4. Promise!Start(j)
    BY <2>0, <1>1, <2>1, <2>2, <2>3, StartMapped
  <2>5. QED
    BY <2>0, <1>1, <2>4, Zenon DEF Mapped, Promise!JobsNext
<1>4. QED
  BY <1>2, <1>3 DEF Begin

LEMMA WriteOutcomeMapped ==
  ASSUME IInv, IInv', NEW w \in Workers, WriteOutcome(w)
  PROVE  Mapped
<1>1. /\ pc[w] = "write" /\ job[w] \in Jobs /\ queued' = queued /\ job' = job /\ lock' = lock
      /\ pc' = [pc EXCEPT ![w] = "release"] /\ result[w] \in Finished \cup {"failed"}
  BY DEF WriteOutcome, Step, poolVars, task, IInv, LockInv, TypeOK
<1> PICK j \in Jobs : j = job[w]
  BY <1>1
<1>2. Alive(j)
  BY <1>1 DEF Alive, Executing
<1>3. ~Alive(j)'
  <2>1. lock'[j] = w /\ ~Busy(w, j)'
    BY <1>1 DEF Busy, LivePC, IInv, LockInv, TypeOK
  <2>2. QED
    BY <1>1, <2>1, OwnerIdleAfter
<1>4. Turns(j)
  <2> SUFFICES ASSUME NEW k \in Jobs \ {j} PROVE Alive(k)' <=> Alive(k)
    BY DEF Turns
  <2>1. \A u \in Threads : Busy(u, k)' <=> Busy(u, k)
    BY <1>1 DEF Busy, IInv, TypeOK
  <2>2. InQueue(k)' <=> InQueue(k)
    BY <1>1 DEF InQueue
  <2>3. QED
    BY <2>1, <2>2, AliveMeans, AliveMeansAfter DEF IInv
<1>5. CASE jobFile' = [jobFile EXCEPT ![j] = [st |-> result[w], sha |-> req[w]]]
  <2>1. Writes(j, result[w])
    BY <1>5 DEF Writes, IInv, TypeOK
  <2>2. \/ jobFile[j].st = "running"
        \/ jobFile[j].st = "queued" /\ result[w] = "failed"
    BY <1>1 DEF IInv, StatusInv
  <2>3. Promise!Finish(j)
    BY <1>1, <1>2, <1>3, <1>4, <2>1, <2>2, FinishMapped
  <2>4. QED
    BY <1>1, <2>3, Zenon DEF Mapped, Promise!JobsNext
<1>6. CASE UNCHANGED jobFile
  <2>1. Promise!Orphan
    BY <1>1, <1>2, <1>3, <1>4, <1>6, OrphanMapped DEF Reads, Turns
  <2>2. QED
    BY <2>1, Zenon DEF Mapped, Promise!JobsNext
<1>7. QED
  BY <1>5, <1>6 DEF WriteOutcome

LEMMA CrashMapped ==
  ASSUME IInv, IInv', NEW s \in Services, Crash(s)
  PROVE  Mapped
<1>1. \A t \in Threads, k \in Jobs : Busy(t, k)' => Busy(t, k)
  BY DEF Crash, Busy, LivePC
<1>2. \A k \in Jobs : InQueue(k)' => InQueue(k)
  BY DEF Crash, InQueue, IInv, TypeOK
<1>3. \A k \in Jobs : Alive(k)' => Alive(k)
  BY <1>1, <1>2, AliveMeans, AliveMeansAfter DEF IInv
<1>4. Promise!Orphan
  BY <1>3, OrphanMapped DEF Crash, diskVars, Reads
<1>5. QED
  BY <1>4, Zenon DEF Mapped, Promise!JobsNext

\* The remaining steps change neither a status nor a life.
LEMMA CallerMapped ==
  ASSUME IInv, IInv', NEW c \in Callers, CallerNext(c)
  PROVE  Mapped
<1> USE DEF diskVars, poolVars, task, IInv
<1>1. ASSUME NEW r \in Requests, StartRun(c, r) PROVE Mapped
  BY <1>1, GoMapped DEF StartRun, LivePC, TypeOK
<1>2. ASSUME NEW j \in Jobs, GetRun(c, j) PROVE Mapped
  BY <1>2, GoMapped DEF GetRun, LivePC, TypeOK
<1>3. CASE StartLock(c)
  BY <1>3, GoMapped DEF StartLock, TryLock, LivePC
<1>4. CASE StartBusy(c)
  BY <1>4, LeaveMapped DEF StartBusy, LivePC
<1>5. CASE StartCheck(c)
  BY <1>5, LeaveMapped, GoMapped DEF StartCheck, LivePC
<1>6. CASE StartEvent(c)
  BY <1>6, LeaveMapped, GoMapped DEF StartEvent, LivePC
<1>7. CASE GetLock(c)
  BY <1>7, LeaveMapped, GoMapped DEF GetLock, TryLock, LivePC
<1>8. CASE GetCheck(c)
  BY <1>8, LeaveMapped, GoMapped DEF GetCheck, LivePC
<1>9. CASE GetEvent(c)
  BY <1>9, LeaveMapped DEF GetEvent, LivePC
<1>10. CASE StartMark(c) \/ GetMark(c)
  BY <1>10, MarkMapped DEF StartMark, GetMark
<1>11. QED
  BY <1>1, <1>2, <1>3, <1>4, <1>5, <1>6, <1>7, <1>8, <1>9, <1>10, StartMutexMapped,
     StartSubmitMapped DEF CallerNext

LEMMA WorkerMapped ==
  ASSUME IInv, IInv', NEW w \in Workers, WorkerNext(w)
  PROVE  Mapped
<1> USE DEF diskVars, poolVars, task, IInv
<1>1. CASE Enter(w)
  BY <1>1, GoMapped DEF Enter, LivePC
<1>2. CASE Started(w)
  BY <1>2, GoMapped DEF Started, LivePC
<1>3. CASE RunPlan(w)
  BY <1>3, GoMapped DEF RunPlan, LivePC
<1>4. CASE FinishedEvent(w)
  BY <1>4, GoMapped DEF FinishedEvent, LivePC
<1>5. CASE Except(w)
  BY <1>5, GoMapped DEF Except, LivePC
<1>6. CASE Release(w)
  BY <1>6, LeaveMapped DEF Release, LivePC
<1>7. QED
  BY <1>1, <1>2, <1>3, <1>4, <1>5, <1>6, TakeMapped, BeginMapped, WriteOutcomeMapped
     DEF WorkerNext, WorkerStep

LEMMA CloseMapped ==
  ASSUME NEW s \in Services, Close(s) \/ CloseEnd(s)
  PROVE  Mapped
<1>1. queued' = queued /\ pc' = pc /\ job' = job /\ jobFile' = jobFile
  BY DEF Close, CloseEnd, task, diskVars
<1>2. Keeps
  BY <1>1 DEF Keeps, Alive, InQueue, Executing
<1>3. QED
  BY <1>1, <1>2, StutterMapped DEF Reads, Mapped

LEMMA NextMapped == IInv /\ IInv' /\ [Next]_vars => Mapped
<1> SUFFICES ASSUME IInv, IInv', [Next]_vars PROVE Mapped
  OBVIOUS
<1>1. CASE UNCHANGED vars
  <2>1. Reads /\ Keeps
    BY <1>1 DEF vars, poolVars, task, diskVars, Reads, Keeps, Alive, InQueue, Executing
  <2>2. QED
    BY <2>1, StutterMapped DEF Mapped
<1>2. QED
  BY <1>1, CallerMapped, WorkerMapped, CloseMapped, CrashMapped DEF Next

LEMMA InitMapped == Init => Promise!JobsInit
<1> SUFFICES ASSUME Init PROVE Promise!JobsInit
  OBVIOUS
<1>1. [j \in Jobs |-> jobFile[j].st] = [j \in Jobs |-> "absent"]
  BY DEF Init
<1>2. \A j \in Jobs : Alive(j) = FALSE
  <2>1. (\A t \in Threads : pc[t] = "idle") /\ \A s \in Services, j \in Jobs : queued[s][j] = 0
    BY DEF Init
  <2>2. \A j \in Jobs : ~Alive(j)
    BY <2>1 DEF Alive, InQueue, Executing
  <2>3. ASSUME NEW j \in Jobs, ~Alive(j) PROVE Alive(j) = FALSE
    BY <2>3, SMT DEF Alive
  <2>4. QED
    BY <2>2, <2>3, Zenon
<1>3. [j \in Jobs |-> Alive(j)] = [j \in Jobs |-> FALSE]
  BY <1>2, Zenon
<1>4. QED
  BY <1>1, <1>3 DEF Promise!JobsInit

(***************************************************************************)
(* The service implements RunJobs, for any number of processes, threads    *)
(* and jobs: a finished job is never run or marked again, only orphans are *)
(* marked interrupted, and no job is submitted while another process is    *)
(* still going to write its outcome (service.py:106-220).                  *)
(***************************************************************************)
THEOREM ServiceImplementsRunJobs == Spec => ImplementsRunJobs
BY Invariance, InitMapped, NextMapped, PTL DEF Spec, ImplementsRunJobs, Promise!JobsSpec, Mapped
=============================================================================
