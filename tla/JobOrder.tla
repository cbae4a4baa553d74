------------------------------ MODULE JobOrder ------------------------------
(***************************************************************************)
(* The job service of JobServer with a history variable that remembers,    *)
(* for every job, who was waiting for a slot when the job was marked       *)
(* running: the order the semaphore of ClaudeRunner has to respect, for    *)
(* jobs that wait and for newcomers that find a slot free.                 *)
(***************************************************************************)
EXTENDS JobServer

VARIABLE ahead  \* ahead[j]: the jobs that waited when j was marked running

orderVars == <<vars, ahead>>

Waiting == {k \in Jobs : task[k] = "queued"}

OrderInit == Init /\ ahead = [j \in Jobs |-> {}]

\* j is marked running in this step, and asks for a slot.
Enters(j) == task[j] = "scheduled" /\ task'[j] \in Started

OrderNext ==
    /\ Next
    /\ ahead' = [j \in Jobs |-> IF Enters(j) THEN Waiting
                                ELSE IF task'[j] = "none" THEN {} ELSE ahead[j]]

OrderSpec == OrderInit /\ [][OrderNext]_orderVars
-----------------------------------------------------------------------------
\* Jobs get their slots in the order in which they were marked running: nobody
\* has one while a job waits that already waited when it was marked running,
\* neither a later waiter nor a newcomer that found a slot just released.
FirstComeFirstServed ==
    \A j \in Holders : \A k \in ahead[j] : task[k] # "queued"
=============================================================================
