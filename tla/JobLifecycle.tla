---------------------------- MODULE JobLifecycle ----------------------------
(***************************************************************************)
(* What the job service promises a client about the status it reports for  *)
(* a job: a job is submitted once, starts at most once, gets one outcome,  *)
(* and an outcome is final.  A crash of the server fails running jobs, and *)
(* may lose the record of the single job whose status file was being       *)
(* written.                                                                *)
(***************************************************************************)
CONSTANT Jobs           \* the identifiers create_job can draw

VARIABLE status         \* status[j]: what GET /v1/jobs/{j} answers

Outcomes == {"COMPLETED", "FAILED", "TIMEOUT"}
Statuses == {"PENDING", "RUNNING"} \cup Outcomes

\* "none": no such job yet; "LOST": its record can no longer be read.
Answers == Statuses \cup {"none", "LOST"}

Init == status = [j \in Jobs |-> "none"]

Submit(j) ==
    /\ status[j] = "none"
    /\ status' = [status EXCEPT ![j] = "PENDING"]

Start(j) ==
    /\ status[j] = "PENDING"
    /\ status' = [status EXCEPT ![j] = "RUNNING"]

\* A job that cannot be started fails at once.
Refuse(j) ==
    /\ status[j] = "PENDING"
    /\ status' = [status EXCEPT ![j] = "FAILED"]

Finish(j) ==
    /\ status[j] = "RUNNING"
    /\ \E v \in Outcomes : status' = [status EXCEPT ![j] = v]

\* A crash or a restart: some running jobs become FAILED, and the record of
\* at most one unfinished job is lost.
Interrupt(failed, lost) ==
    /\ \A j \in failed : status[j] = "RUNNING"
    /\ \A j \in lost : status[j] \in {"PENDING", "RUNNING"}
    /\ \A j, k \in lost : j = k
    /\ status' = [j \in Jobs |-> IF j \in lost THEN "LOST"
                                 ELSE IF j \in failed THEN "FAILED"
                                 ELSE status[j]]

Next ==
    \/ \E j \in Jobs : Submit(j) \/ Start(j) \/ Refuse(j) \/ Finish(j)
    \/ \E failed, lost \in SUBSET Jobs : Interrupt(failed, lost)

Spec == Init /\ [][Next]_status
=============================================================================
