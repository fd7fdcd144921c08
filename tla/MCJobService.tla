---------------------------- MODULE MCJobService ----------------------------
(* Instances of JobService.  Processes: two processes on one root, two       *)
(* request threads and a pool thread in the first, one of each in the        *)
(* second, two fingerprints that share the digits of one job id.  Pool: one  *)
(* process whose single pool thread is shared by two jobs.                   *)
EXTENDS JobService, TLC

CONSTANTS c1, c2, c3, w1, w2, s1, s2

TwoHomes == [t \in Threads |-> IF t \in {c1, c3, w1} THEN s1 ELSE s2]

SameId == [r \in Requests |-> CHOOSE j \in Jobs : TRUE]

OneHome == [t \in Threads |-> s1]

OwnId == CHOOSE f \in [Requests -> Jobs] : \A j \in Jobs : \E r \in Requests : f[r] = j

\* The fingerprints, and the two request threads of the first process, are interchangeable.
Sym == Permutations(Requests) \cup Permutations({c1, c3})
=============================================================================
