------------------------------ MODULE RunJobs ------------------------------
(***************************************************************************)
(* What the job service promises about run jobs, seen from the job files   *)
(* alone.  A job has a persisted status and may or may not be alive, that  *)
(* is, owned by a submission, a queued pool task or a worker that has not  *)
(* yet written its last state.  JobService implements this specification.  *)
(***************************************************************************)
CONSTANT Jobs

VARIABLES
  status,  \* status[j]: what jobs/<job>.json says, "absent" before it exists
  alive    \* alive[j]: some process is still going to write this job's outcome

runVars == <<status, alive>>

Finished == {"complete", "partial"}
Pending == {"queued", "running"}
Status == Finished \cup Pending \cup {"absent", "failed"}

JobsInit ==
  /\ status = [j \in Jobs |-> "absent"]
  /\ alive = [j \in Jobs |-> FALSE]

\* Only a job that never ran, or whose last execution failed, is submitted.
Submit(j) ==
  /\ ~alive[j]
  /\ status[j] \in {"absent", "failed"}
  /\ status' = [status EXCEPT ![j] = "queued"]
  /\ alive' = [alive EXCEPT ![j] = TRUE]

Start(j) ==
  /\ alive[j]
  /\ status[j] = "queued"
  /\ status' = [status EXCEPT ![j] = "running"]
  /\ UNCHANGED alive

\* The owner writes the outcome; a job that never reached "running" only fails.
Finish(j) ==
  /\ alive[j]
  /\ \E outcome \in Finished \cup {"failed"} :
       /\ status[j] = "running" \/ (status[j] = "queued" /\ outcome = "failed")
       /\ status' = [status EXCEPT ![j] = outcome]
  /\ alive' = [alive EXCEPT ![j] = FALSE]

\* Processes die, or fail to write the outcome: several jobs may be orphaned at once.
Orphan ==
  /\ \E S \in SUBSET {j \in Jobs : alive[j]} :
       alive' = [j \in Jobs |-> alive[j] /\ j \notin S]
  /\ UNCHANGED status

\* An orphan, and nothing but an orphan, is marked interrupted.
Interrupt(j) ==
  /\ ~alive[j]
  /\ status[j] \in Pending
  /\ status' = [status EXCEPT ![j] = "failed"]
  /\ UNCHANGED alive

JobsNext ==
  \/ \E j \in Jobs : Submit(j) \/ Start(j) \/ Finish(j) \/ Interrupt(j)
  \/ Orphan

JobsSpec == JobsInit /\ [][JobsNext]_runVars
=============================================================================
