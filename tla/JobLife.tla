------------------------------- MODULE JobLife -------------------------------
(***************************************************************************)
(* What the coordinator promises about one job, without saying how: the    *)
(* job's command runs at most once and only while the job counts as        *)
(* running, a verdict is given once and only when nothing of the command   *)
(* is left or it is noted that the rest could not be ended, and a job that *)
(* was stopped on request has published nothing.                           *)
(***************************************************************************)

VARIABLES
    status,     \* of the job
    begun,      \* the command was started
    alive,      \* some process of the command exists
    published,  \* the job has changed the forge
    noted       \* the job's receipt says that its processes could not be ended

vars == <<status, begun, alive, published, noted>>

Verdicts == {"passed", "failed", "cancelled", "interrupted"}

Init ==
    /\ status = "queued"
    /\ begun = FALSE
    /\ alive = FALSE
    /\ published = FALSE
    /\ noted = FALSE

Withdraw ==
    /\ status = "queued"
    /\ status' = "cancelled"
    /\ UNCHANGED <<begun, alive, published, noted>>

Admit ==
    /\ status = "queued"
    /\ status' = "running"
    /\ UNCHANGED <<begun, alive, published, noted>>

Begin ==
    /\ status = "running"
    /\ ~begun
    /\ begun' = TRUE
    /\ alive' = TRUE
    /\ UNCHANGED <<status, published, noted>>

Publish ==
    /\ status = "running"
    /\ alive
    /\ published' = TRUE
    /\ UNCHANGED <<status, begun, alive, noted>>

Vanish ==
    /\ alive
    /\ alive' = FALSE
    /\ UNCHANGED <<status, begun, published, noted>>

\* The processes could not all be ended; perhaps they are gone all the same.
Note ==
    /\ status = "running"
    /\ noted' = TRUE
    /\ alive' \in {alive, FALSE}
    /\ UNCHANGED <<status, begun, published>>

End ==
    /\ status = "running"
    /\ ~alive \/ noted
    /\ \/ status' = "passed" /\ begun
       \/ status' = "failed"
       \/ status' = "cancelled" /\ ~published
       \/ status' = "interrupted"
    /\ UNCHANGED <<begun, alive, published, noted>>

Next == Withdraw \/ Admit \/ Begin \/ Publish \/ Vanish \/ Note \/ End

Spec == Init /\ [][Next]_vars
=============================================================================
