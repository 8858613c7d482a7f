---------------------------- MODULE ImportLifecycle ----------------------------
(* What an import promises its submitter.  An upload is applied at most once,   *)
(* either at once or by its job; a job goes from pending through running to one *)
(* of two ends, done exactly when its rows are in and failed exactly when none  *)
(* of them is.                                                                  *)
CONSTANT Uploads

VARIABLES
    status,   \* per upload, its job's recorded state, or "none"
    applied   \* per upload, how often its rows were committed

vars == <<status, applied>>

Init ==
    /\ status = [j \in Uploads |-> "none"]
    /\ applied = [j \in Uploads |-> 0]

Move(j, from, to) ==
    /\ status[j] = from
    /\ status' = [status EXCEPT ![j] = to]
    /\ UNCHANGED applied

\* the rows go in while the job runs, or directly when there is no job
Apply(j) ==
    /\ status[j] \in {"none", "RUNNING"}
    /\ applied[j] = 0
    /\ applied' = [applied EXCEPT ![j] = 1]
    /\ UNCHANGED status

Next ==
    \E j \in Uploads :
        \/ applied[j] = 0 /\ Move(j, "none", "PENDING")
        \/ Move(j, "PENDING", "RUNNING")
        \/ Apply(j)
        \/ applied[j] = 1 /\ Move(j, "RUNNING", "DONE")
        \/ applied[j] = 0 /\ Move(j, "RUNNING", "FAILED")

Spec == Init /\ [][Next]_vars
================================================================================
