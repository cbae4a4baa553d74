------------------------------ MODULE JobIntake ------------------------------
(***************************************************************************)
(* How archives become the input of jobs: uploads (upload_handler.py), the *)
(* creation of a job from them (create_job in job_manager.py) and the      *)
(* periodic removal of uploads (cleanup.py).                               *)
(*                                                                         *)
(* Every operation runs to its end without an await, so one at a time uses *)
(* the files; each of its steps may fail, and the process may die between  *)
(* two of them.  What happens to a job after its creation is JobServer,    *)
(* seen here through the life cycle that JobServer implements.             *)
(***************************************************************************)
EXTENDS Naturals, Sequences, SequencesExt

CONSTANTS
    Clients,            \* client identifiers
    Watched,            \* the client whose answers are followed
    MaxUploads,         \* bound on the uploads
    MaxJobs,            \* bound on the jobs
    None,               \* no client, no operation
    MaxDisturbances     \* bound on the failed steps, stops and crashes

ASSUME ClientsAssumption ==
    /\ Watched \in Clients
    /\ None \notin Clients \cup [client : Clients, names : Seq(1..MaxUploads)]
ASSUME BoundsAssumption ==
    MaxUploads \in Nat /\ MaxJobs \in Nat /\ MaxDisturbances \in Nat

VARIABLES
    up,             \* the server runs
    op,             \* the operation that is using the files, or Idle
    files,          \* files[u]: what is in the directory of upload u
    owner,          \* owner[u]: the client that made upload u
    accepted,       \* uploads whose meta.json was written
    expired,        \* uploads whose time to live is over
    creation,       \* creation[j]: the request that made job j, or None
    input,          \* input[j]: the archives extracted into the input of j
    status,         \* status[j]: what the server answers about j
    answer,         \* how the last operation of Watched ended
    kept,           \* archives still there after a creation deleted them
    disturbances    \* bounded by MaxDisturbances

uploads == <<files, owner, accepted, expired>>
jobs == <<creation, input, status>>
serverVars == <<up, op, uploads, jobs, answer, kept, disturbances>>

Uploads == 1..MaxUploads
Jobs == 1..MaxJobs

Lifecycle == INSTANCE JobLifecycle
Registered(j) == status[j] \in Lifecycle!Statuses

\* "bare": no meta.json; "torn": one that was cut off; "gutted": meta.json
\* without the archive.
Contents == {"none", "bare", "torn", "ready", "gutted"}

\* The upload_ids of a request are distinct.
Requests == {s \in UNION {[1..n -> Uploads] : n \in 0..2} : IsInjective(s)}

Idle == [kind |-> "idle"]

ServerInit ==
    /\ up = TRUE /\ op = Idle
    /\ files = [u \in Uploads |-> "none"]
    /\ owner = [u \in Uploads |-> None]
    /\ accepted = {} /\ expired = {}
    /\ creation = [j \in Jobs |-> None]
    /\ input = [j \in Jobs |-> << >>]
    /\ Lifecycle!Init
    /\ answer = "none" /\ kept = {} /\ disturbances = 0
-----------------------------------------------------------------------------
Serving == up /\ op = Idle

Disturbance ==
    /\ disturbances < MaxDisturbances
    /\ disturbances' = disturbances + 1

\* The operation goes on, or ends with an answer.
Continue(next) == op' = next /\ UNCHANGED answer
End(what) ==
    /\ op' = Idle
    /\ answer' = IF op.by = Watched THEN what ELSE answer

Begin(next) ==
    /\ Serving
    /\ op' = next
    /\ answer' = IF next.by = Watched THEN "none" ELSE answer
    /\ UNCHANGED <<up, kept, disturbances>>

\* rmtree of an upload's directory raises, which is only logged: nothing or
\* some of it is gone.
Remains(u) ==
    {files[u], "bare"} \cup (IF files[u] = "ready" THEN {"gutted"} ELSE {})
-----------------------------------------------------------------------------
(* save_upload                                                             *)

Fresh(u) == owner[u] = None /\ \A v \in 1..(u - 1) : owner[v] # None

\* The archive was read and validated, and is written to a new directory.
SaveUpload(c, u) ==
    /\ Fresh(u)
    /\ Begin([kind |-> "save", by |-> c, upload |-> u])
    /\ owner' = [owner EXCEPT ![u] = c]
    /\ files' = [files EXCEPT ![u] = "bare"]
    /\ UNCHANGED <<accepted, expired, jobs>>

WriteMeta ==
    /\ op.kind = "save"
    /\ files' = [files EXCEPT ![op.upload] = "ready"]
    /\ accepted' = accepted \cup {op.upload}
    /\ End("ok")
    /\ UNCHANGED <<up, owner, expired, jobs, kept, disturbances>>

\* No acceptable archive, or a write raised: the directory is removed, or not.
SaveFails ==
    /\ op.kind = "save"
    /\ \/ /\ files' = [files EXCEPT ![op.upload] = "none"]
          /\ UNCHANGED disturbances
       \/ /\ Disturbance
          /\ files' \in {[files EXCEPT ![op.upload] = f] : f \in {"bare", "torn"}}
    /\ End("error")
    /\ UNCHANGED <<up, owner, accepted, expired, jobs, kept>>

\* The time to live of an upload passes.
Expire(u) ==
    /\ files[u] # "none" /\ u \notin expired
    /\ ~(op.kind = "save" /\ op.upload = u)
    /\ expired' = expired \cup {u}
    /\ UNCHANGED <<up, op, files, owner, accepted, jobs, answer, kept, disturbances>>
-----------------------------------------------------------------------------
(* create_job                                                              *)

\* Below the pending limit; the directories of the job are made.
CreateJob(c, j, names) ==
    /\ creation[j] = None /\ \A k \in 1..(j - 1) : creation[k] # None
    /\ Begin([kind |-> "create", by |-> c, job |-> j, left |-> names, extracted |-> FALSE])
    /\ creation' = [creation EXCEPT ![j] = [client |-> c, names |-> names]]
    /\ UNCHANGED <<uploads, input, status>>

Creating == op.kind = "create"
Taking == Creating /\ op.left # << >>
NextUpload == Head(op.left)

\* Mutant: any client may use an archive.
Usable_Anyone(u) == files[u] = "ready" /\ u \notin expired

\* get_upload finds it, it is the client's, and the archive is there.  Every
\* upload has a client; of one without, anybody could use the archive.
Usable(u) == files[u] = "ready" /\ u \notin expired /\ owner[u] = op.by

Extract ==
    /\ Taking /\ ~op.extracted
    /\ Usable(NextUpload)
    /\ input' = [input EXCEPT ![op.job] = Append(@, NextUpload)]
    /\ Continue([op EXCEPT !.extracted = TRUE])
    /\ UNCHANGED <<up, uploads, creation, status, kept, disturbances>>

Delete ==
    /\ Taking /\ op.extracted
    /\ \/ /\ files' = [files EXCEPT ![NextUpload] = "none"]
          /\ UNCHANGED <<kept, disturbances>>
       \/ /\ Disturbance
          /\ files' \in {[files EXCEPT ![NextUpload] = f] : f \in Remains(NextUpload)}
          /\ kept' = IF files'[NextUpload] = "ready" THEN kept \cup {NextUpload} ELSE kept
    /\ Continue([op EXCEPT !.extracted = FALSE, !.left = Tail(@)])
    /\ UNCHANGED <<up, owner, accepted, expired, jobs>>

Extracted == Creating /\ op.left = << >>

\* status.json is written, the job enters _active_jobs.
Register ==
    /\ Extracted
    /\ Lifecycle!Submit(op.job)
    /\ End("ok")
    /\ UNCHANGED <<up, uploads, creation, input, kept, disturbances>>

\* Mutant: the archives of the refused request are deleted with the job.
CreateFails_DeleteAll ==
    /\ Taking /\ ~op.extracted /\ ~Usable(NextUpload)
    /\ input' = [input EXCEPT ![op.job] = << >>]
    /\ files' = [u \in Uploads |-> IF u \in Range(op.left) THEN "none" ELSE files[u]]
    /\ End("error")
    /\ UNCHANGED <<up, owner, accepted, expired, creation, status, kept, disturbances>>

\* An archive cannot be used, or a step raises: the job's directory is removed
\* with what was extracted.  If that raises too, a cut-off status.json may stay.
CreateFails ==
    /\ Creating /\ ~op.extracted
    /\ \/ Taking /\ ~Usable(NextUpload) /\ UNCHANGED disturbances
       \/ Disturbance
    /\ \/ input' = [input EXCEPT ![op.job] = << >>] /\ UNCHANGED status
       \/ /\ Extracted
          /\ status' = [status EXCEPT ![op.job] = "LOST"]
          /\ UNCHANGED input
    /\ End("error")
    /\ UNCHANGED <<up, uploads, creation, kept>>
-----------------------------------------------------------------------------
(* cleanup_expired                                                         *)

\* Mutant: a directory without a readable meta.json is not listed.
Sweepable_Readable(u) == u \in expired /\ files[u] \in {"ready", "gutted"}

Sweepable(u) ==
    \/ files[u] \in {"bare", "torn"}
    \/ files[u] # "none" /\ u \in expired

Sweep ==
    /\ \E u \in Uploads : Sweepable(u)
    /\ Begin([kind |-> "sweep", by |-> None,
              left |-> {u \in Uploads : Sweepable(u)}])
    /\ UNCHANGED <<uploads, jobs>>

SweepOne(u) ==
    /\ op.kind = "sweep" /\ u \in op.left
    /\ \/ files' = [files EXCEPT ![u] = "none"] /\ UNCHANGED disturbances
       \/ /\ Disturbance
          /\ files' \in {[files EXCEPT ![u] = f] : f \in Remains(u)}
    /\ Continue(IF op.left = {u} THEN Idle ELSE [op EXCEPT !.left = @ \ {u}])
    /\ UNCHANGED <<up, owner, accepted, expired, jobs, kept>>
-----------------------------------------------------------------------------
(* The jobs, and crashes                                                   *)

\* JobServer goes on with a job, while no operation uses the files; only the
\* jobs of Watched are followed.
JobRuns(j) ==
    /\ Serving
    /\ creation[j] # None /\ creation[j].client = Watched
    /\ Lifecycle!Start(j) \/ Lifecycle!Finish(j)
    /\ UNCHANGED <<up, op, uploads, creation, input, answer, kept, disturbances>>

Running == {j \in Jobs : status[j] = "RUNNING"}

\* Uploads whose directories the operation may be removing now.
InRemoval ==
    CASE op.kind = "sweep" -> op.left
      [] Taking /\ op.extracted -> {NextUpload}
      [] OTHER -> {}

\* A crash leaves a file that is written whole, cut off, or not there, and a
\* directory that is removed half empty.
CutOffFiles ==
    \/ UNCHANGED files
    \/ /\ op.kind = "save"
       /\ files' \in {[files EXCEPT ![op.upload] = f] : f \in {"torn", "ready"}}
    \/ \E u \in InRemoval : files' \in {[files EXCEPT ![u] = f] : f \in Remains(u)}

\* status.json of the job that is created was written, in part or whole.
CutOffRecord(s) ==
    /\ Extracted
    /\ status' = [j \in Jobs |-> IF j = op.job THEN s
                                 ELSE IF j \in Running THEN "FAILED" ELSE status[j]]

\* Jobs that were running fail at the next start; a crash may destroy a record
\* of JobServer.
Crash ==
    /\ up
    /\ Disturbance
    /\ up' = FALSE
    /\ op' = Idle
    /\ answer' = IF op # Idle /\ op.by = Watched THEN "error" ELSE answer
    /\ CutOffFiles
    /\ \/ \E lost \in SUBSET Jobs : Lifecycle!Interrupt(Running, lost)
       \/ CutOffRecord("LOST") \/ CutOffRecord("PENDING")
    /\ UNCHANGED <<owner, accepted, expired, creation, input, kept>>

Stop ==
    /\ Serving
    /\ Disturbance
    /\ up' = FALSE
    /\ Lifecycle!Interrupt(Running, {})
    /\ UNCHANGED <<op, uploads, creation, input, answer, kept>>

Start ==
    /\ ~up
    /\ up' = TRUE
    /\ UNCHANGED <<op, uploads, jobs, answer, kept, disturbances>>
-----------------------------------------------------------------------------
ClientRequest(c) ==
    \/ \E u \in Uploads : SaveUpload(c, u)
    \/ \E j \in Jobs, names \in Requests : CreateJob(c, j, names)

ServerStep ==
    \/ WriteMeta \/ SaveFails
    \/ Extract \/ Delete \/ Register \/ CreateFails
    \/ \E u \in Uploads : SweepOne(u)

Environment ==
    \/ \E u \in Uploads : Expire(u)
    \/ \E j \in Jobs : JobRuns(j)
    \/ Sweep \/ Crash \/ Stop \/ Start

ServerFairness ==
    /\ WF_serverVars(Start) /\ WF_serverVars(ServerStep) /\ WF_serverVars(Sweep)
    /\ \A u \in Uploads : WF_serverVars(Expire(u))
-----------------------------------------------------------------------------
(* Properties                                                              *)

ServerTypeOK ==
    /\ up \in BOOLEAN
    /\ files \in [Uploads -> Contents]
    /\ owner \in [Uploads -> Clients \cup {None}]
    /\ accepted \subseteq Uploads /\ expired \subseteq Uploads /\ kept \subseteq Uploads
    /\ creation \in [Jobs -> {None} \cup [client : Clients, names : Seq(Uploads)]]
    /\ input \in [Jobs -> Seq(Uploads)]
    /\ status \in [Jobs -> Lifecycle!Answers]
    /\ answer \in {"none", "ok", "error"}
    /\ disturbances \in 0..MaxDisturbances

\* A job that exists, also after a crash inside its creation, has all the
\* archives it was created from in its input, in the order in which they
\* overlay each other; they are its client's, and no archive is in the input of
\* two jobs, unless it could not be deleted after the first.
JobInputsAreTheirOwn ==
    \A j \in Jobs : Registered(j) =>
        /\ input[j] = creation[j].names
        /\ \A u \in Range(input[j]) :
             /\ owner[u] = creation[j].client
             /\ \A k \in Jobs \ {j} : Registered(k) /\ u \in Range(input[k]) => u \in kept

\* An archive that was accepted is there until it expires, whatever other
\* clients, the cleanup and crashes do, unless its own client named it in a
\* request (which may have failed after it took the archive).
AcceptedUploadsAreKept ==
    \A u \in Uploads :
        \/ files[u] = "ready" \/ u \notin accepted \/ u \in expired
        \/ \E j \in Jobs :
             /\ creation[j] # None
             /\ creation[j].client = owner[u] /\ u \in Range(creation[j].names)

\* Every upload directory is removed in the end, also one that a crash or a
\* failed removal left half empty: it is used, or it expires.
UploadDirsAreRemoved ==
    \A u \in Uploads : files[u] # "none" ~> files[u] = "none"
=============================================================================
