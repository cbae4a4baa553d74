------------------------------ MODULE JobServer ------------------------------
(***************************************************************************)
(* The job service: JobManager (job_manager.py), the background task that  *)
(* executes a job (execute_job_background in main.py), the concurrency     *)
(* semaphore and the agent loop of ClaudeRunner (claude_runner.py), and    *)
(* the cleanup of job inputs (cleanup.py), over a data directory that      *)
(* survives a crash of the server process.                                 *)
(*                                                                         *)
(* The server is one asyncio event loop: a handler runs without a break    *)
(* between two awaits that suspend, so each stretch of code between such   *)
(* awaits is one action.  A crash may also come inside a stretch; Crash    *)
(* enumerates what the stretch can have left on disk by then.              *)
(***************************************************************************)
EXTENDS Naturals, Sequences, FiniteSets

CONSTANTS
    Jobs,               \* job identifiers (uuid4: never drawn twice)
    MaxConcurrentJobs,  \* settings.max_concurrent_jobs
    MaxPendingJobs,     \* settings.max_pending_jobs
    MaxCrashes,         \* bound on the times the process goes down
    DiskFaults          \* TRUE: writing status.json may fail (disk full)

ASSUME JobsAssumption == IsFiniteSet(Jobs)
ASSUME LimitsAssumption ==
    /\ MaxConcurrentJobs \in Nat \ {0}
    /\ MaxPendingJobs \in Nat \ {0}
ASSUME BoundsAssumption == MaxCrashes \in Nat /\ DiskFaults \in BOOLEAN

VARIABLES
    mgr,        \* the process: "down"; "unloaded": up, JobManager not built
                \* yet; "ready"; "stopping": SIGTERM; "forced": second signal
    crashes,    \* times the process went down (bounded by MaxCrashes)
    disk,       \* disk[j]: status.json of j on disk
    input,      \* input[j]: the directory input/, "dirty" once the agent wrote
    output,     \* output[j]: the agent's files were copied to output/
    cache,      \* cache[j]: JobMeta of j in JobManager._active_jobs
    task,       \* task[j]: where j's background task is
    queue,      \* tasks waiting for the semaphore, first come first
    slots,      \* value of the semaphore
    late,       \* late[j]: the deadline of j's agent has passed
    result      \* result[j]: how j's agent loop ended

durable == <<disk, input, output>>
memory  == <<cache, task, queue, slots, late, result>>
vars    == <<mgr, crashes, disk, input, output, cache, task, queue, slots,
             late, result>>

Outcomes == {"COMPLETED", "FAILED", "TIMEOUT"}
Statuses == {"PENDING", "RUNNING"} \cup Outcomes

\* "none": no job directory; "dir": a directory without a readable status
\* file, as a crash inside create_job leaves; "torn": a cut-off status file.
OnDisk == Statuses \cup {"none", "dir", "torn"}

\* "scheduled": added to BackgroundTasks; "queued": waits for the semaphore;
\* "setup": profile, proxy and sandbox; "agent": consuming messages;
\* "closing": disconnecting and stopping the proxy.
Stages == {"none", "scheduled", "queued", "setup", "agent", "closing"}
HoldsSlot == {"setup", "agent", "closing"}
Started == {"queued"} \cup HoldsSlot

Up == mgr \in {"ready", "stopping", "forced"}
Holders == {j \in Jobs : task[j] \in HoldsSlot}
NoTasks == [j \in Jobs |-> "none"]

Init ==
    /\ mgr = "down"
    /\ crashes = 0
    /\ disk = [j \in Jobs |-> "none"]
    /\ input = [j \in Jobs |-> "absent"]
    /\ output = [j \in Jobs |-> FALSE]
    /\ cache = [j \in Jobs |-> "none"]
    /\ task = NoTasks
    /\ queue = << >>
    /\ slots = MaxConcurrentJobs
    /\ late = [j \in Jobs |-> FALSE]
    /\ result = [j \in Jobs |-> "none"]
-----------------------------------------------------------------------------
(* Writing status.json                                                     *)

\* What a write of j's status file that raises can leave behind: the old
\* file, or a truncated one.
AfterFailedWrite(j) == IF DiskFaults THEN {disk[j], "torn"} ELSE {}

\* Mutant: when both writes raise, the entry keeps the status it had.
OutcomeWrites_KeepEntry(j, v) ==
    {[file |-> v, entry |-> "none"]}
    \cup {[file |-> "FAILED", entry |-> "none"] : f \in AfterFailedWrite(j)}
    \cup {[file |-> f, entry |-> cache[j]] : f \in AfterFailedWrite(j)}

\* mark_completed or mark_timeout, and mark_failed if that raises: the file and the cached
\* entry of j afterwards.  An entry whose last write failed is never popped.
OutcomeWrites(j, v) ==
    {[file |-> v, entry |-> "none"]}
    \cup {[file |-> "FAILED", entry |-> "none"] : f \in AfterFailedWrite(j)}
    \cup {[file |-> f, entry |-> "FAILED"] : f \in AfterFailedWrite(j)}

\* Mutant: the finished job is not popped from _active_jobs.
RecordOutcome_NoPop(j, v) ==
    /\ disk' = [disk EXCEPT ![j] = v]
    /\ cache' = [cache EXCEPT ![j] = v]

RecordOutcome(j, v) ==
    \E o \in OutcomeWrites(j, v) :
        /\ disk' = [disk EXCEPT ![j] = o.file]
        /\ cache' = [cache EXCEPT ![j] = o.entry]
-----------------------------------------------------------------------------
(* Start-up                                                                *)

StartServer ==
    /\ mgr = "down"
    /\ mgr' = "unloaded"
    /\ UNCHANGED <<crashes, durable, memory>>

WasRunning == {j \in Jobs : disk[j] = "RUNNING"}

\* Mutant: running jobs of the previous process are left as they are.
LoadExistingJobs_LeaveRunning ==
    /\ mgr = "unloaded"
    /\ mgr' = "ready"
    /\ cache' = [j \in Jobs |-> IF disk[j] = "PENDING" THEN "PENDING" ELSE "none"]
    /\ UNCHANGED <<crashes, durable, task, queue, slots, late, result>>

\* Mutant: running jobs are put back to PENDING.
LoadExistingJobs_Requeue ==
    /\ mgr = "unloaded"
    /\ mgr' = "ready"
    /\ disk' = [j \in Jobs |-> IF j \in WasRunning THEN "PENDING" ELSE disk[j]]
    /\ cache' = [j \in Jobs |-> IF disk'[j] = "PENDING" THEN "PENDING" ELSE "none"]
    /\ UNCHANGED <<crashes, input, output, task, queue, slots, late, result>>

\* JobManager is built by the first request that needs it: running jobs of
\* the previous process become FAILED (an entry that cannot be saved is
\* skipped), pending ones are cached, and nobody schedules them.
LoadExistingJobs ==
    /\ mgr = "unloaded"
    /\ mgr' = "ready"
    /\ \E unsaved \in (IF DiskFaults THEN SUBSET WasRunning ELSE {{}}) :
       \E torn \in SUBSET unsaved :
         disk' = [j \in Jobs |-> IF j \in torn THEN "torn"
                                 ELSE IF j \in WasRunning \ unsaved THEN "FAILED"
                                 ELSE disk[j]]
    /\ cache' = [j \in Jobs |-> IF disk[j] = "PENDING" THEN "PENDING" ELSE "none"]
    /\ UNCHANGED <<crashes, input, output, task, queue, slots, late, result>>
-----------------------------------------------------------------------------
(* POST /v1/jobs                                                           *)

PendingCount == Cardinality({j \in Jobs : cache[j] = "PENDING"})

\* Mutant: the limit is compared with > instead of >=.
CreateJob_OffByOne(j) ==
    /\ mgr = "ready"
    /\ disk[j] = "none"
    /\ PendingCount <= MaxPendingJobs
    /\ disk' = [disk EXCEPT ![j] = "PENDING"]
    /\ cache' = [cache EXCEPT ![j] = "PENDING"]
    /\ input' = [input EXCEPT ![j] = "clean"]
    /\ task' = [task EXCEPT ![j] = "scheduled"]
    /\ UNCHANGED <<mgr, crashes, output, queue, slots, late, result>>

CreateJob(j) ==
    /\ mgr = "ready"
    /\ disk[j] = "none"
    /\ PendingCount < MaxPendingJobs
    /\ disk' = [disk EXCEPT ![j] = "PENDING"]
    /\ cache' = [cache EXCEPT ![j] = "PENDING"]
    /\ input' = [input EXCEPT ![j] = "clean"]
    /\ task' = [task EXCEPT ![j] = "scheduled"]
    /\ UNCHANGED <<mgr, crashes, output, queue, slots, late, result>>

\* create_job raises (an upload is missing, the status cannot be saved) and
\* _cleanup_job_dir cannot remove the directory; when it can, nothing stays.
CreateJobFails(j) ==
    /\ mgr = "ready"
    /\ disk[j] = "none"
    /\ PendingCount < MaxPendingJobs
    /\ DiskFaults
    /\ disk' = [disk EXCEPT ![j] = "dir"]
    /\ input' = [input EXCEPT ![j] = "clean"]
    /\ UNCHANGED <<mgr, crashes, output, memory>>
-----------------------------------------------------------------------------
(* execute_job_background                                                  *)

\* Mutant: a free slot is taken although others wait for one.
StartAndEnter_Barge(j) ==
    /\ disk' = [disk EXCEPT ![j] = "RUNNING"]
    /\ cache' = [cache EXCEPT ![j] = "RUNNING"]
    /\ IF slots > 0
       THEN /\ slots' = slots - 1
            /\ task' = [task EXCEPT ![j] = "setup"]
            /\ UNCHANGED queue
       ELSE /\ queue' = Append(queue, j)
            /\ task' = [task EXCEPT ![j] = "queued"]
            /\ UNCHANGED slots

\* mark_running, then "async with self._semaphore": a free slot is taken
\* without suspending unless someone already waits.
StartAndEnter(j) ==
    /\ disk' = [disk EXCEPT ![j] = "RUNNING"]
    /\ cache' = [cache EXCEPT ![j] = "RUNNING"]
    /\ IF slots > 0 /\ queue = << >>
       THEN /\ slots' = slots - 1
            /\ task' = [task EXCEPT ![j] = "setup"]
            /\ UNCHANGED queue
       ELSE /\ queue' = Append(queue, j)
            /\ task' = [task EXCEPT ![j] = "queued"]
            /\ UNCHANGED slots

\* mark_running, the input snapshot or the check for the SDK raises: the job
\* fails without having competed for a slot.  If mark_running had saved it and
\* mark_failed cannot, the file says RUNNING and the entry FAILED.
StartFails(j) ==
    /\ \/ RecordOutcome(j, "FAILED")
       \/ /\ DiskFaults
          /\ disk' = [disk EXCEPT ![j] = "RUNNING"]
          /\ cache' = [cache EXCEPT ![j] = "FAILED"]
    /\ task' = [task EXCEPT ![j] = "none"]
    /\ UNCHANGED <<queue, slots>>

BackgroundStart(j) ==
    /\ mgr \in {"ready", "stopping"}
    /\ task[j] = "scheduled"
    /\ StartAndEnter(j) \/ StartFails(j)
    /\ UNCHANGED <<mgr, crashes, input, output, late, result>>

\* Mutant: the last waiter is served first.
Acquire_LastFirst(j) ==
    /\ mgr \in {"ready", "stopping"}
    /\ queue # << >> /\ j = queue[Len(queue)]
    /\ slots > 0
    /\ queue' = SubSeq(queue, 1, Len(queue) - 1)
    /\ slots' = slots - 1
    /\ task' = [task EXCEPT ![j] = "setup"]
    /\ UNCHANGED <<mgr, crashes, durable, cache, late, result>>

\* Mutant: the waiter that got its slot stays in line.
Acquire_StayInLine(j) ==
    /\ mgr \in {"ready", "stopping"}
    /\ queue # << >> /\ j = Head(queue)
    /\ slots > 0
    /\ slots' = slots - 1
    /\ task' = [task EXCEPT ![j] = "setup"]
    /\ UNCHANGED <<mgr, crashes, durable, cache, queue, late, result>>

\* The semaphore hands a released slot to the waiter that came first.
Acquire(j) ==
    /\ mgr \in {"ready", "stopping"}
    /\ queue # << >> /\ j = Head(queue)
    /\ slots > 0
    /\ queue' = Tail(queue)
    /\ slots' = slots - 1
    /\ task' = [task EXCEPT ![j] = "setup"]
    /\ UNCHANGED <<mgr, crashes, durable, cache, late, result>>

\* The deadline of the agent is set when its setup is done.
SetupDone(j) ==
    /\ mgr \in {"ready", "stopping"}
    /\ task[j] = "setup"
    /\ task' = [task EXCEPT ![j] = "agent"]
    /\ UNCHANGED <<mgr, crashes, durable, cache, queue, slots, late, result>>

\* Mutant: acquire() without "async with": a failed setup keeps the slot.
SetupFails_KeepSlot(j) ==
    /\ mgr \in {"ready", "stopping"}
    /\ task[j] = "setup"
    /\ RecordOutcome(j, "FAILED")
    /\ task' = [task EXCEPT ![j] = "none"]
    /\ UNCHANGED <<mgr, crashes, input, output, queue, slots, late, result>>

\* Mutant: the error handler releases the semaphore once more.
SetupFails_ReleaseTwice(j) ==
    /\ mgr \in {"ready", "stopping"}
    /\ task[j] = "setup"
    /\ RecordOutcome(j, "FAILED")
    /\ task' = [task EXCEPT ![j] = "none"]
    /\ slots' = slots + 2
    /\ UNCHANGED <<mgr, crashes, input, output, queue, late, result>>

\* Mutant: the exception is swallowed before mark_failed.
SetupFails_NoOutcome(j) ==
    /\ mgr \in {"ready", "stopping"}
    /\ task[j] = "setup"
    /\ task' = [task EXCEPT ![j] = "none"]
    /\ slots' = slots + 1
    /\ UNCHANGED <<mgr, crashes, durable, cache, queue, late, result>>

\* _execute raises before the agent loop (proxy or sandbox unavailable): the
\* slot is released and the job fails; no output is collected.
SetupFails(j) ==
    /\ mgr \in {"ready", "stopping"}
    /\ task[j] = "setup"
    /\ RecordOutcome(j, "FAILED")
    /\ task' = [task EXCEPT ![j] = "none"]
    /\ slots' = slots + 1
    /\ UNCHANGED <<mgr, crashes, input, output, queue, late, result>>

\* Time passes: the monotonic clock goes past the deadline.
Tick(j) ==
    /\ task[j] = "agent"
    /\ ~late[j]
    /\ late' = [late EXCEPT ![j] = TRUE]
    /\ UNCHANGED <<mgr, crashes, durable, cache, task, queue, slots, result>>

\* The agent's tools write to the job's working directory, input/.
AgentWrites(j) ==
    /\ task[j] = "agent"
    /\ input[j] = "clean"
    /\ input' = [input EXCEPT ![j] = "dirty"]
    /\ UNCHANGED <<mgr, crashes, disk, output, memory>>

LeaveAgentLoop(j, r) ==
    /\ mgr \in {"ready", "stopping"}
    /\ task[j] = "agent"
    /\ result' = [result EXCEPT ![j] = r]
    /\ task' = [task EXCEPT ![j] = "closing"]
    /\ UNCHANGED <<mgr, crashes, durable, cache, queue, slots, late>>

\* The deadline is looked at when a message arrives, the final one included;
\* client.interrupt() is awaited before is_timeout is set, and may raise.
MessageAfterDeadline(j) ==
    /\ late[j]
    /\ LeaveAgentLoop(j, "timeout") \/ LeaveAgentLoop(j, "error")

\* The ResultMessage in time.
AgentResult(j) == ~late[j] /\ LeaveAgentLoop(j, "done")

\* The stream ends without another message, however late.
StreamEnds(j) == LeaveAgentLoop(j, "done")

\* The SDK client, the stream or the disconnect raises.
AgentError(j) == LeaveAgentLoop(j, "error")

OutcomeOf(r) == CASE r = "timeout" -> "TIMEOUT"
                  [] r = "error" -> "FAILED"
                  [] r = "done" -> "COMPLETED"

\* New and changed files are copied to output/; a failure is only logged.
CollectFiles(j) ==
    \/ output' = [output EXCEPT ![j] = (input[j] = "dirty")]
    \/ DiskFaults /\ UNCHANGED output

\* The proxy is stopped, the semaphore released, the files collected and then
\* the outcome recorded.
Finish(j) ==
    /\ Up
    /\ task[j] = "closing"
    /\ slots' = slots + 1
    /\ CollectFiles(j)
    /\ RecordOutcome(j, OutcomeOf(result[j]))
    /\ task' = [task EXCEPT ![j] = "none"]
    /\ UNCHANGED <<mgr, crashes, input, queue, late, result>>
-----------------------------------------------------------------------------
(* Cleanup                                                                 *)

\* Mutant: the age of the directory is looked at, the job's status is not.
CleanupInput_AnyStatus(j) ==
    /\ mgr \notin {"down", "forced"}
    /\ input[j] # "absent"
    /\ disk[j] \in Statuses
    /\ input' = [input EXCEPT ![j] = "absent"]
    /\ UNCHANGED <<mgr, crashes, disk, output, memory>>

\* Mutant: only completed jobs are cleaned up.
CleanupInput_CompletedOnly(j) ==
    /\ mgr \notin {"down", "forced"}
    /\ input[j] # "absent"
    /\ disk[j] = "COMPLETED"
    /\ input' = [input EXCEPT ![j] = "absent"]
    /\ UNCHANGED <<mgr, crashes, disk, output, memory>>

\* CleanupManager removes input/ of the jobs whose outcome on disk is older
\* than the delay; each removal may fail and is retried in the next round.
CleanupInput(j) ==
    /\ mgr \notin {"down", "forced"}
    /\ input[j] # "absent"
    /\ disk[j] \in Outcomes
    /\ input' = [input EXCEPT ![j] = "absent"]
    /\ UNCHANGED <<mgr, crashes, disk, output, memory>>
-----------------------------------------------------------------------------
(* The process goes down                                                   *)

ForgetMemory ==
    /\ cache' = [j \in Jobs |-> "none"]
    /\ task' = NoTasks
    /\ queue' = << >>
    /\ slots' = MaxConcurrentJobs
    /\ late' = [j \in Jobs |-> FALSE]
    /\ result' = [j \in Jobs |-> "none"]

\* Mutant: Finish records the outcome before it copies the files.
CutOff_OutcomeFirst(j) ==
    /\ task[j] = "closing"
    /\ disk' = [disk EXCEPT ![j] = OutcomeOf(result[j])]
    /\ UNCHANGED <<input, output>>

\* What a crash inside the stretch of code that handles j now can leave of j:
\* a directory without status file (in create_job), a status file cut off in
\* the middle, and, in Finish, files already copied but no outcome recorded.
CutOff(j) ==
    \/ /\ mgr = "ready" /\ disk[j] = "none"
       /\ disk' = [disk EXCEPT ![j] = "dir"]
       /\ input' = [input EXCEPT ![j] = "clean"]
       /\ UNCHANGED output
    \/ /\ task[j] \in {"scheduled", "setup"}
       /\ disk' = [disk EXCEPT ![j] = "torn"]
       /\ UNCHANGED <<input, output>>
    \/ /\ task[j] = "closing"
       /\ CollectFiles(j)
       /\ UNCHANGED disk \/ disk' = [disk EXCEPT ![j] = "torn"]
       /\ UNCHANGED input

ProcessDies ==
    /\ mgr # "down"
    /\ crashes < MaxCrashes
    /\ mgr' = "down"
    /\ crashes' = crashes + 1
    /\ ForgetMemory

\* One event loop runs one stretch at a time: a crash cuts off at most one.
Crash ==
    /\ ProcessDies
    /\ \/ UNCHANGED durable
       \/ \E j \in Jobs : CutOff(j)

\* A crash inside LoadExistingJobs, when it had failed the jobs in swept and
\* was writing the status file of torn's only member.
CrashWhileLoading(swept, torn) ==
    /\ mgr = "unloaded"
    /\ ProcessDies
    /\ swept \subseteq WasRunning
    /\ torn \subseteq WasRunning \ swept
    /\ \A j, k \in torn : j = k
    /\ disk' = [j \in Jobs |-> IF j \in torn THEN "torn"
                               ELSE IF j \in swept THEN "FAILED"
                               ELSE disk[j]]
    /\ UNCHANGED <<input, output>>

\* SIGTERM: uvicorn takes no more requests and waits for background tasks.
BeginShutdown ==
    /\ mgr = "ready"
    /\ crashes < MaxCrashes
    /\ mgr' = "stopping"
    /\ crashes' = crashes + 1
    /\ UNCHANGED <<durable, memory>>

\* A second signal: the event loop cancels every task.  Before or inside the
\* setup a task just dies; the agent loop turns the cancellation into an
\* error; while disconnecting it does the same (a timeout stays a timeout),
\* and while awaiting stop_proxy the task dies without recording anything.
ForceQuit ==
    /\ mgr = "stopping"
    /\ mgr' = "forced"
    /\ \E dead \in SUBSET {j \in Jobs : task[j] = "closing"} :
         LET alive == {j \in Jobs : task[j] \in {"agent", "closing"}} \ dead
         IN  /\ task' = [j \in Jobs |-> IF j \in alive THEN "closing" ELSE "none"]
             /\ result' = [j \in Jobs |->
                   IF j \in alive /\ result[j] # "timeout" THEN "error"
                   ELSE result[j]]
             /\ slots' = MaxConcurrentJobs - Cardinality(alive)
    /\ queue' = << >>
    /\ UNCHANGED <<crashes, durable, cache, late>>

Exit ==
    /\ mgr \in {"stopping", "forced"}
    /\ task = NoTasks
    /\ mgr' = "down"
    /\ ForgetMemory
    /\ UNCHANGED <<crashes, durable>>
-----------------------------------------------------------------------------
JobStep(j) ==
    \/ BackgroundStart(j) \/ Acquire(j) \/ SetupDone(j) \/ SetupFails(j)
    \/ MessageAfterDeadline(j) \/ AgentResult(j) \/ StreamEnds(j)
    \/ AgentError(j) \/ Finish(j)

ProcessStep ==
    \/ StartServer \/ LoadExistingJobs \/ BeginShutdown \/ ForceQuit \/ Exit
    \/ Crash
    \/ \E swept, torn \in SUBSET Jobs : CrashWhileLoading(swept, torn)

Next ==
    \/ ProcessStep
    \/ \E j \in Jobs :
         \/ CreateJob(j) \/ CreateJobFails(j) \/ JobStep(j)
         \/ Tick(j) \/ AgentWrites(j) \/ CleanupInput(j)

Spec == Init /\ [][Next]_vars

\* The event loop runs every ready task, the clock advances, the process is
\* restarted and clients keep asking (the first request builds JobManager).
ServerFairness ==
    /\ WF_vars(StartServer) /\ WF_vars(LoadExistingJobs) /\ WF_vars(Exit)
    /\ \A j \in Jobs :
         /\ WF_vars(BackgroundStart(j)) /\ WF_vars(Acquire(j))
         /\ WF_vars(SetupDone(j) \/ SetupFails(j))
         /\ WF_vars(Tick(j)) /\ WF_vars(Finish(j)) /\ WF_vars(CleanupInput(j))

\* An agent past its deadline sends one more message, or its stream ends.
AgentFairness ==
    \A j \in Jobs :
        WF_vars(MessageAfterDeadline(j) \/ (late[j] /\ (StreamEnds(j) \/ AgentError(j))))

FairSpec == Spec /\ ServerFairness /\ AgentFairness
-----------------------------------------------------------------------------
(* Properties                                                              *)

TypeOK ==
    /\ mgr \in {"down", "unloaded", "ready", "stopping", "forced"}
    /\ crashes \in 0..MaxCrashes
    /\ disk \in [Jobs -> OnDisk]
    /\ input \in [Jobs -> {"absent", "clean", "dirty"}]
    /\ output \in [Jobs -> BOOLEAN]
    /\ cache \in [Jobs -> Statuses \cup {"none"}]
    /\ task \in [Jobs -> Stages]
    /\ queue \in Seq(Jobs)
    /\ slots \in 0..MaxConcurrentJobs
    /\ late \in [Jobs -> BOOLEAN]
    /\ result \in [Jobs -> {"none", "done", "error", "timeout"}]

\* GET /v1/jobs/{j}: the cached entry first, then the file.
Answer(j) ==
    CASE cache[j] # "none" -> cache[j]
      [] cache[j] = "none" /\ disk[j] \in Statuses -> disk[j]
      [] cache[j] = "none" /\ disk[j] = "torn" -> "LOST"
      [] OTHER -> "none"

\* Every semaphore slot is free or held by exactly one job past the
\* semaphore, on every way out of run() (setup failure, cancellation, end).
SlotsAccounted == slots + Cardinality(Holders) = MaxConcurrentJobs

\* The semaphore's waiters are exactly the queued jobs, each once: no
\* job waits without being in line, and none is in line twice.
QueueExact ==
    /\ \A j \in Jobs : task[j] = "queued" <=> \E i \in DOMAIN queue : queue[i] = j
    /\ \A i, k \in DOMAIN queue : queue[i] = queue[k] => i = k

\* The semaphore of ClaudeRunner, with the tasks that hold or await it.
SemaphoreExact == SlotsAccounted /\ QueueExact

\* A job whose task is alive has its input directory and no outcome on disk:
\* cleanup, which looks only at the files, never pulls it from under an agent.
LiveJobKeepsInput ==
    \A j \in Jobs : task[j] # "none" => input[j] # "absent" /\ disk[j] \notin Outcomes

\* Even when status files cannot be written, memory, disk and background task
\* of a live job agree, nothing is remembered before JobManager is built, and
\* memory shows no running job without a task until tasks are cancelled.
TaskMatchesRecord ==
    /\ mgr \in {"down", "unloaded"} =>
         \A j \in Jobs : cache[j] = "none" /\ task[j] = "none"
    /\ \A j \in Jobs :
         /\ task[j] = "scheduled" => cache[j] = "PENDING" /\ disk[j] = "PENDING"
         /\ task[j] \in Started => cache[j] = "RUNNING" /\ disk[j] = "RUNNING"
         /\ cache[j] = "RUNNING" /\ mgr # "forced" => task[j] \in Started
         /\ task[j] = "closing" => result[j] # "none"

\* While the server serves requests, a job it reports as RUNNING has a live
\* background task, and a live task past mark_running belongs to such a job
\* (provided that status files can be written).
RunningIsExecuted ==
    mgr \in {"ready", "stopping"} =>
        \A j \in Jobs :
            (Answer(j) = "RUNNING") <=> task[j] \in Started

\* Memory and disk agree: the cache holds exactly the unfinished jobs, with
\* the status their files have, so count_active and the pending limit count
\* what a restart would find.
CacheMirrorsDisk ==
    Up =>
        \A j \in Jobs :
            cache[j] = IF disk[j] \in {"PENDING", "RUNNING"} THEN disk[j] ELSE "none"

\* What the server says of a job is on disk, and what it calls running runs.
ReportsAreTrue == CacheMirrorsDisk /\ RunningIsExecuted

\* The pending limit holds across restarts, which bring pending jobs back.
PendingBounded == PendingCount <= MaxPendingJobs

\* A job that reports success or a timeout has its files in output/, even if
\* the server crashed between copying them and recording the outcome before.
OutcomeHasOutput ==
    \A j \in Jobs :
        disk[j] \in {"COMPLETED", "TIMEOUT"} /\ input[j] = "dirty" => output[j]

\* The server implements the abstract job life cycle: an outcome is final
\* across crashes and restarts, and a crash loses at most one record.
LifecycleStatus == [j \in Jobs |-> Answer(j)]
Lifecycle == INSTANCE JobLifecycle WITH status <- LifecycleStatus
ImplementsLifecycle == Lifecycle!Spec

\* The last write of j's status file failed: the file is behind.
Unwritten(j) ==
    DiskFaults /\ Up /\ disk[j] \notin Outcomes /\ cache[j] # disk[j]

\* A job reported as RUNNING eventually gets an outcome, whatever crashes and
\* shutdowns come in between, or its record is the one a crash destroyed, or
\* one that could not be written.
RunningEnds ==
    \A j \in Jobs :
        Answer(j) = "RUNNING" ~> Answer(j) \in Outcomes \cup {"LOST"} \/ Unwritten(j)

\* A job reported as PENDING eventually leaves that state.
PendingEventuallyStarts ==
    \A j \in Jobs : Answer(j) = "PENDING" ~> Answer(j) # "PENDING"

\* The input directory of a job that was started is eventually removed,
\* whatever crashes and shutdowns come in between, unless one destroyed the
\* record that cleanup decides from, or it could not be written.
InputEventuallyRemoved ==
    \A j \in Jobs :
        Answer(j) \in {"RUNNING"} \cup Outcomes ~>
            input[j] = "absent" \/ Answer(j) = "LOST" \/ Unwritten(j)
=============================================================================
