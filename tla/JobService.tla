----------------------------- MODULE JobService -----------------------------
(***************************************************************************)
(* The REST job service (storycanvas_harness/service.py): several service  *)
(* processes share one root directory; in each, request threads execute    *)
(* start_run and get_run and pool threads execute _run_job.  A job is      *)
(* owned through the lock file jobs/<job>.lock, which the submitting       *)
(* thread hands over to the worker.  The kernel drops the locks of a       *)
(* process that dies; the files stay.                                      *)
(***************************************************************************)
EXTENDS Naturals

CONSTANTS
  Jobs,      \* job ids: the first 16 digits of the execution fingerprint
  Requests,  \* execution fingerprints
  JobOf,     \* JobOf[r]: the job id of fingerprint r
  Services,  \* service processes on the same root
  Callers,   \* threads that serve HTTP requests
  Workers,   \* pool threads (max_workers of each process)
  Home,      \* Home[t]: the process of thread t
  None

Threads == Callers \cup Workers

ASSUME ConstantsAssumption ==
  /\ JobOf \in [Requests -> Jobs]
  /\ Home \in [Threads -> Services]
  /\ Callers \cap Workers = {}
  /\ Threads \cap Services = {}
  /\ None \notin Threads \cup Services \cup Jobs \cup Requests

VARIABLES
  jobFile,    \* jobFile[j]: jobs/<job>.json, its status and execution_sha256
  lastEvent,  \* lastEvent[j]: the last row of events/<job>.jsonl
  lock,       \* lock[j]: the thread that holds jobs/<job>.lock, or the process
              \* whose pool queue carries it
  mutex,      \* mutex[s]: the thread inside "with self._mutex"
  closing,    \* closing[s]: self._closing
  closed,     \* closed[s]: close() has returned, the engine is closed
  queued,     \* queued[s][j]: tasks for job j in the pool's queue
  pc,         \* pc[t]: where thread t is
  job,        \* job[t]: the job_id thread t works on
  req,        \* req[t]: the fingerprint that thread t knows: of the start_run it
              \* serves, or execution_sha256 in the state of _run_job
  result      \* result[w]: state["status"] in _run_job

diskVars == <<jobFile, lastEvent>>
poolVars == <<mutex, closing, closed, queued>>
task == <<job, req>>   \* what the threads work on
vars == <<diskVars, lock, poolVars, pc, task, result>>

Finished == {"complete", "partial"}
Pending == {"queued", "running"}
Status == Finished \cup Pending \cup {"absent", "failed"}
Events == {"none", "run_started", "run_failed", "run_interrupted", "complete", "partial", "failed"}

CallerPC == {"idle", "startLock", "startBusy", "startCheck", "startMark", "startEvent",
             "startMutex", "submit", "getLock", "getCheck", "getMark", "getEvent"}
WorkerPC == {"idle", "begin", "started", "enter", "engine", "finished", "except",
             "write", "release"}

TypeOK ==
  /\ jobFile \in [Jobs -> [st: Status, sha: Requests \cup {None}]]
  /\ lastEvent \in [Jobs -> Events]
  /\ lock \in [Jobs -> Threads \cup Services \cup {None}]
  /\ mutex \in [Services -> Callers \cup {None}]
  /\ closing \in [Services -> BOOLEAN]
  /\ closed \in [Services -> BOOLEAN]
  /\ queued \in [Services -> [Jobs -> Nat]]
  /\ pc \in [Threads -> CallerPC \cup WorkerPC]
  /\ \A c \in Callers : pc[c] \in CallerPC
  /\ \A w \in Workers : pc[w] \in WorkerPC
  /\ job \in [Threads -> Jobs \cup {None}]
  /\ req \in [Threads -> Requests \cup {None}]
  /\ result \in [Workers -> Finished \cup {"failed"}]

Init ==
  /\ jobFile = [j \in Jobs |-> [st |-> "absent", sha |-> None]]
  /\ lastEvent = [j \in Jobs |-> "none"]
  /\ lock = [j \in Jobs |-> None]
  /\ mutex = [s \in Services |-> None]
  /\ closing = [s \in Services |-> FALSE]
  /\ closed = [s \in Services |-> FALSE]
  /\ queued = [s \in Services |-> [j \in Jobs |-> 0]]
  /\ pc = [t \in Threads |-> "idle"]
  /\ job = [t \in Threads |-> None]
  /\ req = [t \in Threads |-> None]
  /\ result = [w \in Workers |-> "failed"]

Step(t, from, to) ==
  /\ pc[t] = from
  /\ pc' = [pc EXCEPT ![t] = to]

\* The thread leaves its call: FileLock.release() where it holds the lock.
Leave(t) ==
  /\ pc' = [pc EXCEPT ![t] = "idle"]
  /\ job' = [job EXCEPT ![t] = None]
  /\ req' = [req EXCEPT ![t] = None]
  /\ lock' = [j \in Jobs |-> IF lock[j] = t THEN None ELSE lock[j]]

WriteStatus(j, st) == jobFile' = [jobFile EXCEPT ![j].st = st]

Append(j, e) == lastEvent' = [lastEvent EXCEPT ![j] = e]

-----------------------------------------------------------------------------
(* start_run *)

StartRun(c, r) ==
  /\ Step(c, "idle", "startLock")
  /\ job' = [job EXCEPT ![c] = JobOf[r]]
  /\ req' = [req EXCEPT ![c] = r]
  /\ UNCHANGED <<diskVars, lock, poolVars, result>>

\* lock.acquire(timeout=0), also of get_run: it succeeds or raises Timeout at once.
TryLock(t, from, locked, busy) ==
  /\ pc[t] = from
  /\ \/ /\ lock[job[t]] = None
        /\ Step(t, from, locked)
        /\ lock' = [lock EXCEPT ![job[t]] = t]
        /\ UNCHANGED task
     \/ /\ lock[job[t]] # None
        /\ IF busy = "idle" THEN Leave(t) ELSE (Step(t, from, busy) /\ UNCHANGED <<task, lock>>)

StartLock(c) ==
  /\ TryLock(c, "startLock", "startCheck", "startBusy")
  /\ UNCHANGED <<diskVars, poolVars, result>>

\* Another thread owns the job: answer with its file, or with a "queued" state nobody wrote.
BusyAnswer(c) == IF jobFile[job[c]].st = "absent" THEN "queued" ELSE jobFile[job[c]].st

StartBusy(c) ==
  /\ pc[c] = "startBusy"
  /\ Leave(c)
  /\ UNCHANGED <<diskVars, poolVars, result>>

\* Mutant: the identity of the job file is not compared with the request's.
StartCheckAnyIdentity(c) ==
  LET file == jobFile[job[c]] IN
  /\ pc[c] = "startCheck"
  /\ \/ file.st \in Finished /\ Leave(c)
     \/ file.st \in Pending /\ Step(c, "startCheck", "startMark") /\ UNCHANGED <<lock, task>>
     \/ file.st \in {"absent", "failed"} /\ Step(c, "startCheck", "startMutex")
        /\ UNCHANGED <<lock, task>>
  /\ UNCHANGED <<diskVars, poolVars, result>>

\* Under the lock: refuse another identity, return a finished job, else go on to queue it.
\* A file that cannot be read ends the call.
StartCheck(c) ==
  LET file == jobFile[job[c]] IN
  /\ pc[c] = "startCheck"
  /\ \/ /\ file.st # "absent"
        /\ Leave(c)
     \/ /\ file.st # "absent"
        /\ file.sha # req[c]
        /\ Leave(c)
     \/ /\ file.st \in Finished
        /\ file.sha = req[c]
        /\ Leave(c)
     \/ /\ file.st \in Pending
        /\ file.sha = req[c]
        /\ Step(c, "startCheck", "startMark")
        /\ UNCHANGED <<lock, task>>
     \/ /\ file.st = "absent" \/ (file.st = "failed" /\ file.sha = req[c])
        /\ Step(c, "startCheck", "startMutex")
        /\ UNCHANGED <<lock, task>>
  /\ UNCHANGED <<diskVars, poolVars, result>>

\* _mark_interrupted, first half: the state file.  An OSError leaves the call.
MarkInterrupted(c, from, to) ==
  /\ pc[c] = from
  /\ \/ /\ WriteStatus(job[c], "failed")
        /\ Step(c, from, to)
        /\ UNCHANGED <<lock, task>>
     \/ /\ Leave(c)
        /\ UNCHANGED jobFile
  /\ UNCHANGED <<lastEvent, poolVars, result>>

StartMark(c) == MarkInterrupted(c, "startMark", "startEvent")

\* _mark_interrupted, second half: the event row.
StartEvent(c) ==
  /\ pc[c] = "startEvent"
  /\ \/ /\ Append(job[c], "run_interrupted")
        /\ Step(c, "startEvent", "startMutex")
        /\ UNCHANGED <<lock, task>>
     \/ /\ Leave(c)
        /\ UNCHANGED lastEvent
  /\ UNCHANGED <<jobFile, poolVars, result>>

\* "with self._mutex": refuse while closing, else write the request and the queued state.
StartMutex(c) ==
  LET s == Home[c] IN
  /\ pc[c] = "startMutex"
  /\ mutex[s] = None
  /\ \/ /\ closing[s]
        /\ Leave(c)
        /\ UNCHANGED <<jobFile, mutex>>
     \/ /\ ~closing[s]
        /\ jobFile' = [jobFile EXCEPT ![job[c]] = [st |-> "queued", sha |-> req[c]]]
        /\ mutex' = [mutex EXCEPT ![s] = c]
        /\ Step(c, "startMutex", "submit")
        /\ UNCHANGED <<lock, task>>
     \/ /\ ~closing[s]
        /\ Leave(c)
        /\ UNCHANGED <<jobFile, mutex>>
  /\ UNCHANGED <<lastEvent, closing, closed, queued, result>>

\* Mutant: handed_off is not set, so the finally clause releases the lock.
SubmitWithoutHandOff(c) ==
  /\ pc[c] = "submit"
  /\ queued' = [queued EXCEPT ![Home[c]][job[c]] = @ + 1]
  /\ mutex' = [mutex EXCEPT ![Home[c]] = None]
  /\ Leave(c)
  /\ UNCHANGED <<diskVars, closing, closed, result>>

\* self._pool.submit(...): from here the lock belongs to the queued task.
StartSubmit(c) ==
  LET s == Home[c]  j == job[c] IN
  /\ Step(c, "submit", "idle")
  /\ queued' = [queued EXCEPT ![s][j] = @ + 1]
  /\ lock' = [lock EXCEPT ![j] = s]
  /\ mutex' = [mutex EXCEPT ![s] = None]
  /\ job' = [job EXCEPT ![c] = None]
  /\ req' = [req EXCEPT ![c] = None]
  /\ UNCHANGED <<diskVars, closing, closed, result>>

-----------------------------------------------------------------------------
(* get_run *)

\* The unlocked read; a job that is not pending is returned as it is.
GetRun(c, j) ==
  /\ jobFile[j].st \in Pending
  /\ Step(c, "idle", "getLock")
  /\ job' = [job EXCEPT ![c] = j]
  /\ UNCHANGED <<diskVars, lock, poolVars, result, req>>

GetLock(c) ==
  /\ TryLock(c, "getLock", "getCheck", "idle")
  /\ UNCHANGED <<diskVars, poolVars, result>>

\* Mutant: the state read before the lock was taken is believed.
GetCheckStale(c) ==
  /\ Step(c, "getCheck", "getMark")
  /\ UNCHANGED <<diskVars, lock, poolVars, task, result>>

\* The second read, under the lock: it fails, or finds the job pending, or finds it ended.
GetCheck(c) ==
  /\ pc[c] = "getCheck"
  /\ \/ /\ jobFile[job[c]].st \in Pending
        /\ Step(c, "getCheck", "getMark")
        /\ UNCHANGED <<lock, task>>
     \/ Leave(c)
  /\ UNCHANGED <<diskVars, poolVars, result>>

GetMark(c) == MarkInterrupted(c, "getMark", "getEvent")

GetEvent(c) ==
  /\ pc[c] = "getEvent"
  /\ (Append(job[c], "run_interrupted") \/ UNCHANGED lastEvent)
  /\ Leave(c)
  /\ UNCHANGED <<jobFile, poolVars, result>>

-----------------------------------------------------------------------------
(* _run_job, on a pool thread *)

\* Mutant: an idle thread runs a job that is not in the queue.
TakeUnqueued(w, j) ==
  /\ Step(w, "idle", "begin")
  /\ queued' = [queued EXCEPT ![Home[w]][j] = @ - 1]
  /\ lock' = [lock EXCEPT ![j] = w]
  /\ job' = [job EXCEPT ![w] = j]
  /\ UNCHANGED <<diskVars, mutex, closing, closed, req, result>>

\* The executor hands the queued task, and with it the job's lock, to an idle thread.
Take(w, j) ==
  LET s == Home[w] IN
  /\ Step(w, "idle", "begin")
  /\ queued[s][j] > 0
  /\ queued' = [queued EXCEPT ![s][j] = @ - 1]
  /\ lock' = [lock EXCEPT ![j] = w]
  /\ job' = [job EXCEPT ![w] = j]
  /\ UNCHANGED <<diskVars, mutex, closing, closed, req, result>>

\* Read the state and write "running".  An OSError goes to the except clause: of the
\* write with the state that was read, of the read with a state of job_id and plan_id.
Begin(w) ==
  LET sha == jobFile[job[w]].sha IN
  /\ \/ /\ Step(w, "begin", "started")
        /\ WriteStatus(job[w], "running")
        /\ req' = [req EXCEPT ![w] = sha]
     \/ /\ Step(w, "begin", "except")
        /\ req' = [req EXCEPT ![w] = sha]
        /\ UNCHANGED jobFile
     \/ /\ Step(w, "begin", "except")
        /\ UNCHANGED <<jobFile, req>>
  /\ UNCHANGED <<lastEvent, lock, poolVars, job, result>>

Started(w) ==
  /\ \/ Step(w, "started", "enter") /\ Append(job[w], "run_started")
     \/ Step(w, "started", "except") /\ UNCHANGED lastEvent
  /\ UNCHANGED <<jobFile, lock, poolVars, task, result>>

\* The engine property takes the service mutex before run_plan is called.
Enter(w) ==
  /\ mutex[Home[w]] = None
  /\ Step(w, "enter", "engine")
  /\ UNCHANGED <<diskVars, lock, poolVars, task, result>>

\* run_plan returns a manifest status, raises an Exception, or is interrupted
\* (BaseException: no event, straight to finally).
RunPlan(w) ==
  /\ \/ /\ Step(w, "engine", "finished")
        /\ \E st \in Finished \cup {"failed"} : result' = [result EXCEPT ![w] = st]
     \/ Step(w, "engine", "except") /\ UNCHANGED result
     \/ Step(w, "engine", "write") /\ result' = [result EXCEPT ![w] = "failed"]
  /\ UNCHANGED <<diskVars, lock, poolVars, task>>

\* Mutant: the state is written first, and the event row is lost with the process.
FinishedWithoutEvent(w) ==
  /\ Step(w, "finished", "write")
  /\ UNCHANGED <<diskVars, lock, poolVars, task, result>>

\* The run_finished row carries the manifest status.
FinishedEvent(w) ==
  /\ \/ Step(w, "finished", "write") /\ Append(job[w], result[w])
     \/ Step(w, "finished", "except") /\ UNCHANGED lastEvent
  /\ UNCHANGED <<jobFile, lock, poolVars, task, result>>

Except(w) ==
  /\ Step(w, "except", "write")
  /\ result' = [result EXCEPT ![w] = "failed"]
  /\ (Append(job[w], "run_failed") \/ UNCHANGED lastEvent)
  /\ UNCHANGED <<jobFile, lock, poolVars, task>>

\* finally: the last state, with the identity that Begin read; whether or not it could
\* be written, the lock is released.
WriteOutcome(w) ==
  /\ Step(w, "write", "release")
  /\ \/ jobFile' = [jobFile EXCEPT ![job[w]] = [st |-> result[w], sha |-> req[w]]]
     \/ UNCHANGED jobFile
  /\ UNCHANGED <<lastEvent, lock, poolVars, task, result>>

Release(w) ==
  /\ pc[w] = "release"
  /\ Leave(w)
  /\ result' = [result EXCEPT ![w] = "failed"]
  /\ UNCHANGED <<diskVars, poolVars>>

-----------------------------------------------------------------------------
(* close, and the death of a process *)

\* Mutant: close() waits for the pool inside "with self._mutex".
CloseHoldingMutex(s) ==
  /\ ~closing[s]
  /\ mutex[s] = None
  /\ closing' = [closing EXCEPT ![s] = TRUE]
  /\ \E c \in Callers : mutex' = [mutex EXCEPT ![s] = c]
  /\ UNCHANGED <<diskVars, lock, closed, queued, pc, task, result>>

\* close(): set _closing under the mutex.
Close(s) ==
  /\ ~closing[s]
  /\ mutex[s] = None
  /\ closing' = [closing EXCEPT ![s] = TRUE]
  /\ UNCHANGED <<diskVars, lock, mutex, closed, queued, pc, task, result>>

\* Mutant: shutdown(wait=False).
CloseEndAtOnce(s) ==
  /\ closing[s] /\ ~closed[s]
  /\ closed' = [closed EXCEPT ![s] = TRUE]
  /\ UNCHANGED <<diskVars, lock, mutex, closing, queued, pc, task, result>>

\* shutdown(wait=True) lets queued tasks run and joins the pool, then the engine is closed.
CloseEnd(s) ==
  /\ closing[s] /\ ~closed[s]
  /\ \A j \in Jobs : queued[s][j] = 0
  /\ \A w \in Workers : Home[w] = s => pc[w] = "idle"
  /\ closed' = [closed EXCEPT ![s] = TRUE]
  /\ UNCHANGED <<diskVars, lock, mutex, closing, queued, pc, task, result>>

\* The process dies, and a new one is started on the same root.
Crash(s) ==
  /\ lock' = [j \in Jobs |-> IF lock[j] = s \/ (\E t \in Threads : Home[t] = s /\ lock[j] = t)
                              THEN None ELSE lock[j]]
  /\ mutex' = [mutex EXCEPT ![s] = None]
  /\ closing' = [closing EXCEPT ![s] = FALSE]
  /\ closed' = [closed EXCEPT ![s] = FALSE]
  /\ queued' = [queued EXCEPT ![s] = [j \in Jobs |-> 0]]
  /\ pc' = [t \in Threads |-> IF Home[t] = s THEN "idle" ELSE pc[t]]
  /\ job' = [t \in Threads |-> IF Home[t] = s THEN None ELSE job[t]]
  /\ req' = [t \in Threads |-> IF Home[t] = s THEN None ELSE req[t]]
  /\ result' = [w \in Workers |-> IF Home[w] = s THEN "failed" ELSE result[w]]
  /\ UNCHANGED diskVars

-----------------------------------------------------------------------------
CallerNext(c) ==
  \/ \E r \in Requests : StartRun(c, r)
  \/ \E j \in Jobs : GetRun(c, j)
  \/ StartLock(c) \/ StartBusy(c) \/ StartCheck(c) \/ StartMark(c) \/ StartEvent(c)
  \/ StartMutex(c) \/ StartSubmit(c)
  \/ GetLock(c) \/ GetCheck(c) \/ GetMark(c) \/ GetEvent(c)

\* The steps of a worker that already has a task.
WorkerStep(w) ==
  \/ Begin(w) \/ Started(w) \/ RunPlan(w) \/ FinishedEvent(w) \/ Except(w)
  \/ WriteOutcome(w) \/ Release(w)

WorkerNext(w) ==
  \/ \E j \in Jobs : Take(w, j)
  \/ Enter(w)
  \/ WorkerStep(w)

Next ==
  \/ \E c \in Callers : CallerNext(c)
  \/ \E w \in Workers : WorkerNext(w)
  \/ \E s \in Services : Close(s) \/ CloseEnd(s) \/ Crash(s)

Spec == Init /\ [][Next]_vars

(***************************************************************************)
(* Threads that run keep running, and a thread that waits for a mutex that *)
(* is always freed again gets it.  The pool's FIFO queue is a bag here, so *)
(* strong fairness stands for its order.  Nobody is obliged to make a      *)
(* request, to close a service or to crash it.                             *)
(***************************************************************************)
Fairness ==
  /\ \A w \in Workers : WF_vars(WorkerStep(w)) /\ SF_vars(Enter(w))
  /\ \A w \in Workers, j \in Jobs : SF_vars(Take(w, j))
  /\ \A c \in Callers : WF_vars(StartSubmit(c))
  /\ \A s \in Services : WF_vars(CloseEnd(s))

FairSpec == Spec /\ Fairness
-----------------------------------------------------------------------------
(* What the service guarantees *)

Executing(w, j) == job[w] = j /\ pc[w] # "idle"

\* Job j is queued in some pool: its lock travels with the task.
InQueue(j) == \E s \in Services : queued[s][j] > 0

\* Someone is still going to write the outcome of job j.
Alive(j) ==
  \/ InQueue(j)
  \/ \E w \in Workers : Executing(w, j) /\ pc[w] # "release"
  \/ \E c \in Callers : pc[c] = "submit" /\ job[c] = j

(***************************************************************************)
(* File locks prevent duplicate workers across service processes: over all *)
(* pools there is at most one task or worker for a job, and the job's lock *)
(* is with it (service.py:113-115, 162-192).                               *)
(***************************************************************************)
OneExecution ==
  \A j \in Jobs :
    /\ \A v, w \in Workers : Executing(v, j) /\ Executing(w, j) => v = w
    /\ \A w \in Workers, s \in Services : Executing(w, j) => queued[s][j] = 0
    /\ \A s \in Services : queued[s][j] <= 1
    /\ \A s, u \in Services : queued[s][j] > 0 /\ queued[u][j] > 0 => s = u
    /\ \A w \in Workers : Executing(w, j) => lock[j] = w

(***************************************************************************)
(* The job file and the event log tell one story although they are written *)
(* in different steps: while the engine runs, nobody else has touched      *)
(* either, and a finished job's last event is the run_finished row of the  *)
(* same status (service.py:117-147, 200-208).                              *)
(***************************************************************************)
LogMatchesState ==
  /\ \A w \in Workers : pc[w] \in {"enter", "engine", "finished"} =>
        jobFile[job[w]].st = "running" /\ lastEvent[job[w]] = "run_started"
  /\ \A j \in Jobs : jobFile[j].st \in Finished => lastEvent[j] = jobFile[j].st

(***************************************************************************)
(* close() never strands work: once it has returned nothing of that        *)
(* process is queued or running, and nothing can be submitted to the pool  *)
(* that was shut down (service.py:66-71, 179-188).                         *)
(***************************************************************************)
ShutdownDrains ==
  \A s \in Services : closed[s] =>
    /\ \A j \in Jobs : queued[s][j] = 0
    /\ \A w \in Workers : Home[w] = s => pc[w] = "idle"
    /\ \A c \in Callers : Home[c] = s => pc[c] # "submit"

(***************************************************************************)
(* A job file never passes to another execution, even when two             *)
(* fingerprints share the 16 digits of a job id (service.py:173-174): it   *)
(* keeps its identity, or a worker that could not read it writes it        *)
(* without one (service.py:119-121, 143-145), and then it has none for     *)
(* ever: no request, not even its own, is accepted for it again.           *)
(***************************************************************************)
IdentityKept ==
  [][\A j \in Jobs : jobFile[j].st # "absent" =>
        jobFile'[j].sha \in {jobFile[j].sha, None}]_vars

(***************************************************************************)
(* The service implements RunJobs: a finished job is never run or marked   *)
(* again, only orphans are marked interrupted, and no job is submitted     *)
(* while another process is still going to write its outcome.              *)
(***************************************************************************)
Promise == INSTANCE RunJobs WITH
  status <- [j \in Jobs |-> jobFile[j].st],
  alive <- [j \in Jobs |-> Alive(j)]

ImplementsRunJobs == Promise!JobsSpec

(***************************************************************************)
(* Every queued or running job ends, or its process dies; and close()      *)
(* always returns: the worker needs the mutex that close() took, so close  *)
(* must not wait for the pool while it holds it (service.py:61, 67-69).    *)
(***************************************************************************)
JobsEnd == \A j \in Jobs : Alive(j) ~> ~Alive(j)

CloseReturns == \A s \in Services : closing[s] ~> (closed[s] \/ ~closing[s])

(***************************************************************************)
(* docs/API.md:109: "Repeating the same request returns the existing       *)
(* queued/running/complete/partial state."  Any other request for a job    *)
(* starts it again: start_run never answers "failed".                      *)
(***************************************************************************)
ResubmissionAnswered == [][\A c \in Callers : StartBusy(c) => BusyAnswer(c) # "failed"]_vars
=============================================================================
