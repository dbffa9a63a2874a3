------------------------------ MODULE JobBoard ------------------------------
(***************************************************************************)
(* What the matrix recompute queue promises to the administrator who       *)
(* watches it: a job is submitted once, started at most once and in the    *)
(* order of submission, finished at most once with one outcome, and can be *)
(* removed only after that.  Nothing here says who does the work or how:   *)
(* MatrixJobs is the implementation.                                       *)
(***************************************************************************)
EXTENDS Integers

CONSTANT MaxJobs    \* how many jobs may ever be submitted

Jobs == 1..MaxJobs

Outcomes == {"completed", "partial", "failed"}

Phases == {"absent", "pending", "running"} \cup Outcomes

VARIABLES
    phase,      \* phase[j]: where job j stands; jobs are numbered by createdAt
    submitted   \* how many jobs have been submitted

vars == <<phase, submitted>>

Init ==
    /\ phase = [j \in Jobs |-> "absent"]
    /\ submitted = 0

Submit ==
    /\ submitted < MaxJobs
    /\ submitted' = submitted + 1
    /\ phase' = [phase EXCEPT ![submitted + 1] = "pending"]

\* The oldest pending job is the one that starts.
Start(j) ==
    /\ phase[j] = "pending"
    /\ \A k \in Jobs : k < j => phase[k] # "pending"
    /\ phase' = [phase EXCEPT ![j] = "running"]
    /\ UNCHANGED submitted

Finish(j) ==
    /\ phase[j] = "running"
    /\ \E o \in Outcomes : phase' = [phase EXCEPT ![j] = o]
    /\ UNCHANGED submitted

Remove(j) ==
    /\ phase[j] \in Outcomes
    /\ phase' = [phase EXCEPT ![j] = "absent"]
    /\ UNCHANGED submitted

Next ==
    \/ Submit
    \/ \E j \in Jobs : Start(j) \/ Finish(j) \/ Remove(j)

Spec == Init /\ [][Next]_vars

=============================================================================
