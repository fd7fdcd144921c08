----------------------------- MODULE VideoTask ------------------------------
(***************************************************************************)
(* MiniMaxH3CompatibleProvider.generate (providers/video.py) for one state *)
(* file: several processes call it, for requests that may differ, while    *)
(* processes die, transport fails at any call and the remote task runs.    *)
(* The remote service is external and modelled from how the code uses it.  *)
(***************************************************************************)
EXTENDS Naturals

CONSTANTS
  Clients,   \* threads that call generate(), each may die at any step
  Requests,  \* request_sha256 values: prompt, model and reference hashes
  TaskIds,   \* ids the remote service gives
  None

ASSUME NoneAssumption == None \notin Clients \cup Requests \cup TaskIds

VARIABLES
  disk,    \* the state file: status, request_sha256, task_id, video_sha256
  dest,    \* the content of the destination file
  remote,  \* remote[t]: the remote task's status
  posts,   \* how many create requests were sent, the billable act
  lock,    \* who holds <state file>.lock
  pc,      \* pc[p]: where client p is
  want,    \* want[p]: the request of client p's call
  mem      \* mem[p]: the dictionary "state" in _generate

vars == <<disk, dest, remote, posts, lock, pc, want, mem>>

Content == {"none", "good", "bad", "damaged"}  \* only "good" passes full_decode
DiskStatus == {"absent", "creating", "create_ambiguous", "submitted", "polling",
               "polling_interrupted", "failed", "succeeded"}
State == [status: DiskStatus, req: Requests \cup {None}, task: TaskIds \cup {None}, sha: Content]
NoState == [status |-> "absent", req |-> None, task |-> None, sha |-> "none"]
Creating(r) == [status |-> "creating", req |-> r, task |-> None, sha |-> "none"]
RemoteStatus == {"none", "pending", "url", "no_url", "failed"}
PC == {"idle", "lock", "check", "upload", "post", "accepted", "ambiguous", "poll",
       "download", "record"}

TypeOK ==
  /\ disk \in State
  /\ dest \in Content
  /\ remote \in [TaskIds -> RemoteStatus]
  /\ posts \in Nat
  /\ lock \in Clients \cup {None}
  /\ pc \in [Clients -> PC]
  /\ want \in [Clients -> Requests \cup {None}]
  /\ mem \in [Clients -> State]

Init ==
  /\ disk = NoState
  /\ dest = "none"
  /\ remote = [t \in TaskIds |-> "none"]
  /\ posts = 0
  /\ lock = None
  /\ pc = [p \in Clients |-> "idle"]
  /\ want = [p \in Clients |-> None]
  /\ mem = [p \in Clients |-> NoState]

Step(p, from, to) ==
  /\ pc[p] = from
  /\ pc' = [pc EXCEPT ![p] = to]
  /\ UNCHANGED <<lock, want>>

\* generate() returns or raises: the lock is released, the local state is gone.
Exit(p) ==
  /\ pc' = [pc EXCEPT ![p] = "idle"]
  /\ want' = [want EXCEPT ![p] = None]
  /\ mem' = [mem EXCEPT ![p] = NoState]
  /\ lock' = IF lock = p THEN None ELSE lock

\* state.update(...); atomic_write_json(state_path, state)
Persist(p, state) == disk' = state /\ mem' = [mem EXCEPT ![p] = state]

-----------------------------------------------------------------------------
Call(p, r) ==
  /\ pc[p] = "idle"
  /\ pc' = [pc EXCEPT ![p] = "lock"]
  /\ want' = [want EXCEPT ![p] = r]
  /\ UNCHANGED <<disk, dest, remote, posts, lock, mem>>

\* FileLock without a timeout: the caller waits.
Acquire(p) ==
  /\ pc[p] = "lock"
  /\ lock = None
  /\ lock' = p
  /\ pc' = [pc EXCEPT ![p] = "check"]
  /\ UNCHANGED <<disk, dest, remote, posts, want, mem>>

\* Mutant: the cached video is not decoded again.
ReusableUndecoded == disk.status = "succeeded" /\ dest = disk.sha

\* The cached video can be returned: hash and full decode agree.
Reusable == disk.status = "succeeded" /\ dest = disk.sha /\ dest = "good"

\* Mutant: a state file without a task id is taken for a task that was never created.
CheckRetriesAmbiguous(p) ==
  /\ pc[p] = "check"
  /\ \/ /\ disk.status # "absent"
        /\ disk.req # want[p]
        /\ Exit(p)
     \/ /\ disk.req = want[p] /\ disk.task # None /\ ~Reusable
        /\ mem' = [mem EXCEPT ![p] = disk]
        /\ Step(p, "check", "poll")
     \/ /\ disk.status = "absent" \/ (disk.req = want[p] /\ disk.task = None)
        /\ Step(p, "check", "upload")
        /\ UNCHANGED mem
  /\ UNCHANGED <<disk, dest, remote, posts>>

\* What the persisted state allows: return the cached video ...
ReturnCached(p) ==
  /\ pc[p] = "check"
  /\ disk.req = want[p] /\ disk.task # None /\ Reusable
  /\ Exit(p)
  /\ UNCHANGED <<disk, dest, remote, posts>>

\* ... or refuse, resume the task, or create one.
Check(p) ==
  /\ pc[p] = "check"
  /\ \/ /\ disk.status # "absent"
        /\ disk.req # want[p] \/ disk.task = None
        /\ Exit(p)
     \/ /\ disk.status # "absent"
        /\ disk.req = want[p] /\ disk.task # None /\ ~Reusable
        /\ mem' = [mem EXCEPT ![p] = disk]
        /\ Step(p, "check", "poll")
     \/ /\ disk.status = "absent"
        /\ Step(p, "check", "upload")
        /\ UNCHANGED mem
  /\ UNCHANGED <<disk, dest, remote, posts>>

\* Mutant: the create request is sent before the intent is written.
UploadWithoutIntent(p) ==
  /\ pc[p] = "upload"
  /\ \/ Exit(p)
     \/ /\ mem' = [mem EXCEPT ![p] = Creating(want[p])]
        /\ Step(p, "upload", "post")
  /\ UNCHANGED <<disk, dest, remote, posts>>

\* A failed upload leaves no state; after the last one the intent to create is written.
Upload(p) ==
  /\ pc[p] = "upload"
  /\ \/ Exit(p) /\ UNCHANGED disk
     \/ /\ Persist(p, Creating(want[p]))
        /\ Step(p, "upload", "post")
  /\ UNCHANGED <<dest, remote, posts>>

\* The remote service accepts the task and the id arrives, accepts it and the response is
\* lost or has no id, or rejects it.
Post(p) ==
  /\ pc[p] = "post"
  /\ posts' = posts + 1
  /\ \/ \E t \in TaskIds :
          /\ remote[t] = "none"
          /\ remote' = [remote EXCEPT ![t] = "pending"]
          /\ \/ Step(p, "post", "accepted") /\ mem' = [mem EXCEPT ![p].task = t]
             \/ Step(p, "post", "ambiguous") /\ UNCHANGED mem
     \/ Step(p, "post", "ambiguous") /\ UNCHANGED <<remote, mem>>
  /\ UNCHANGED <<disk, dest>>

Submitted(p) ==
  /\ Step(p, "accepted", "poll")
  /\ Persist(p, [mem[p] EXCEPT !.status = "submitted"])
  /\ UNCHANGED <<dest, remote, posts>>

\* Mutant: a failed creation removes the state file so that the call can be repeated.
AmbiguousForgets(p) ==
  /\ pc[p] = "ambiguous"
  /\ disk' = NoState
  /\ Exit(p)
  /\ UNCHANGED <<dest, remote, posts>>

Ambiguous(p) ==
  /\ pc[p] = "ambiguous"
  /\ disk' = [mem[p] EXCEPT !.status = "create_ambiguous"]
  /\ Exit(p)
  /\ UNCHANGED <<dest, remote, posts>>

\* The query fails, or the task is still pending: remember that and poll again.
PollAgain(p) ==
  /\ Step(p, "poll", "poll")
  /\ \/ Persist(p, [mem[p] EXCEPT !.status = "polling_interrupted"])
     \/ /\ remote[mem[p].task] = "pending"
        /\ Persist(p, [mem[p] EXCEPT !.status = "polling"])
  /\ UNCHANGED <<dest, remote, posts>>

\* A URL is downloaded at once; "polling" is not written first.
PollUrl(p) ==
  /\ Step(p, "poll", "download")
  /\ remote[mem[p].task] = "url"
  /\ mem' = [mem EXCEPT ![p].status = "polling"]
  /\ UNCHANGED <<disk, dest, remote, posts>>

PollFailed(p) ==
  /\ pc[p] = "poll"
  /\ remote[mem[p].task] \in {"failed", "no_url"}
  /\ disk' = [mem[p] EXCEPT !.status = "failed"]
  /\ Exit(p)
  /\ UNCHANGED <<dest, remote, posts>>

\* Mutant: the deadline is looked at only when the remote task has ended.
PollTimeoutAtEnd(p) ==
  /\ pc[p] = "poll"
  /\ remote[mem[p].task] # "pending"
  /\ disk' = [mem[p] EXCEPT !.status = "polling_interrupted"]
  /\ Exit(p)
  /\ UNCHANGED <<dest, remote, posts>>

\* The deadline has passed.
PollTimeout(p) ==
  /\ pc[p] = "poll"
  /\ disk' = [mem[p] EXCEPT !.status = "polling_interrupted"]
  /\ Exit(p)
  /\ UNCHANGED <<dest, remote, posts>>

\* .part, then os.replace; the bytes need not be a video.  A failed download persists nothing.
Download(p) ==
  /\ pc[p] = "download"
  /\ \/ Step(p, "download", "record") /\ dest' \in {"good", "bad"} /\ UNCHANGED mem
     \/ Exit(p) /\ UNCHANGED dest
  /\ UNCHANGED <<disk, remote, posts>>

\* Mutant: the hash of the video is not recorded.
RecordWithoutHash(p) ==
  /\ pc[p] = "record"
  /\ disk' = [mem[p] EXCEPT !.status = "succeeded", !.sha = None]
  /\ Exit(p)
  /\ UNCHANGED <<dest, remote, posts>>

Record(p) ==
  /\ pc[p] = "record"
  /\ disk' = [mem[p] EXCEPT !.status = "succeeded", !.sha = dest]
  /\ Exit(p)
  /\ UNCHANGED <<dest, remote, posts>>

Crash(p) ==
  /\ pc[p] # "idle"
  /\ Exit(p)
  /\ UNCHANGED <<disk, dest, remote, posts>>

\* The remote service ends a task: with a video URL, without one, or as failed.
RemoteEnds(t) ==
  /\ remote[t] = "pending"
  /\ \E end \in {"url", "no_url", "failed"} : remote' = [remote EXCEPT ![t] = end]
  /\ UNCHANGED <<disk, dest, posts, lock, pc, want, mem>>

\* The destination is damaged between two calls (tests/test_provider_recovery.py:132).
Damage ==
  /\ lock = None
  /\ dest # "none"
  /\ dest' = "damaged"
  /\ UNCHANGED <<disk, remote, posts, lock, pc, want, mem>>

-----------------------------------------------------------------------------
\* The steps of a call that holds the lock and is not polling.
Running(p) ==
  \/ ReturnCached(p) \/ Check(p) \/ Upload(p) \/ Post(p) \/ Submitted(p) \/ Ambiguous(p)
  \/ Download(p) \/ Record(p)

Polling(p) == PollAgain(p) \/ PollUrl(p) \/ PollFailed(p) \/ PollTimeout(p)

Next ==
  \/ \E p \in Clients :
       \/ \E r \in Requests : Call(p, r)
       \/ Acquire(p) \/ Running(p) \/ Polling(p) \/ Crash(p)
  \/ \E t \in TaskIds : RemoteEnds(t)
  \/ Damage

Spec == Init /\ [][Next]_vars

(***************************************************************************)
(* A call that runs keeps running, its poll deadline passes although the   *)
(* remote task may never end, and a waiting caller gets a lock that is     *)
(* freed again and again.                                                  *)
(***************************************************************************)
Fairness ==
  \A p \in Clients : WF_vars(Running(p)) /\ WF_vars(PollTimeout(p)) /\ SF_vars(Acquire(p))

FairSpec == Spec /\ Fairness

-----------------------------------------------------------------------------
(***************************************************************************)
(* docs/ARCHITECTURE.md:95: no duplicate paid task.  However the calls     *)
(* interleave, crash and are repeated, at most one creation is ever sent   *)
(* for a state file (video.py:226-300).                                    *)
(***************************************************************************)
AtMostOneCreation == posts <= 1

(***************************************************************************)
(* A creation that was sent has left its trace, so that no later call can  *)
(* take it for a fresh start; and a remote task id on disk is the id of a  *)
(* task that was created for the request on disk (video.py:277-300).       *)
(***************************************************************************)
DurableTrace ==
  /\ posts > 0 => disk.status # "absent"
  /\ disk.task # None => remote[disk.task] # "none" /\ disk.req # None
  /\ disk.status \in {"submitted", "polling", "polling_interrupted", "failed", "succeeded"}
       => disk.task # None

(***************************************************************************)
(* A call returns only what was earned: the task of this request ended     *)
(* with a video, the state file says so, and the file has the hash that is *)
(* recorded there; a file the call did not download itself decodes too, so *)
(* a damaged or undecodable one is never handed out from the cache         *)
(* (video.py:236-258, 322-329).  And an earned video is final: as long as  *)
(* nobody damages the file, no call, of whatever request, writes over it   *)
(* or changes what is recorded of it.                                      *)
(***************************************************************************)
Returns(p) == ReturnCached(p) \/ Record(p)

SuccessIsEarned ==
  [][/\ \A p \in Clients : Returns(p) =>
          /\ disk'.status = "succeeded" /\ disk'.req = want[p]
          /\ remote[disk'.task] = "url"
          /\ dest' = disk'.sha
          /\ dest' = "good" \/ pc[p] = "record"
     /\ disk.status = "succeeded" /\ dest = disk.sha /\ dest = "good" =>
          UNCHANGED <<disk, dest>> \/ Damage]_vars

\* The provider implements PaidTask.
Phase ==
  CASE disk.status = "absent" -> "none"
    [] disk.status = "creating" -> "intent"
    [] disk.status = "create_ambiguous" -> "ambiguous"
    [] OTHER -> "known"

Paid == INSTANCE PaidTask WITH
  NoTask <- None, phase <- Phase, paid <- posts, id <- disk.task

ImplementsPaidTask == Paid!PaidSpec

(***************************************************************************)
(* Every call returns or raises, and no caller waits for ever behind a     *)
(* remote task that never ends (video.py:203, 302-303, 357-359).           *)
(***************************************************************************)
CallsReturn == \A p \in Clients : pc[p] # "idle" ~> pc[p] = "idle"
=============================================================================
