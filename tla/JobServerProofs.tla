--------------------------- MODULE JobServerProofs ---------------------------
(***************************************************************************)
(* Proofs about JobServer and JobOrder, for every set of jobs, every limit *)
(* and every number of crashes.                                            *)
(*                                                                         *)
(* TypeOK is not inductive: that releasing the semaphore keeps it within   *)
(* its bound needs SlotsAccounted; that the job which gets a slot does not *)
(* hold one already needs QueueExact and TaskMatchesRecord.  Their         *)
(* conjunction, SlotInv, is inductive.                                     *)
(***************************************************************************)
EXTENDS JobOrder, FiniteSetTheorems, SequenceTheorems, TLAPS

SlotInv == TypeOK /\ SlotsAccounted /\ TaskMatchesRecord /\ QueueExact

\* A set of jobs is finite, and no bigger than one that contains it.
LEMMA JobSetsFinite ==
    ASSUME NEW S \in SUBSET Jobs
    PROVE  IsFiniteSet(S) /\ Cardinality(S) \in Nat
BY JobsAssumption, FS_Subset, FS_CardinalityType

\* The number of slot holders when j starts holding one.
LEMMA HolderAdded ==
    ASSUME NEW S \in SUBSET Jobs, NEW j \in Jobs, j \notin S
    PROVE  Cardinality(S \cup {j}) = Cardinality(S) + 1
BY JobSetsFinite, FS_AddElement

\* The number of slot holders when j stops holding one.
LEMMA HolderRemoved ==
    ASSUME NEW S \in SUBSET Jobs, NEW j \in S
    PROVE  /\ Cardinality(S \ {j}) = Cardinality(S) - 1
           /\ Cardinality(S) \in Nat
           /\ Cardinality(S) >= 1
<1>1. Cardinality(S \ {j}) = Cardinality(S) - 1 /\ IsFiniteSet(S)
  BY JobSetsFinite, FS_RemoveElement
<1>2. Cardinality(S) \in Nat /\ Cardinality(S \ {j}) \in Nat
  BY JobSetsFinite
<1>3. QED BY <1>1, <1>2

\* What recording an outcome leaves of the job's file and cached entry.
LEMMA RecordOutcomeType ==
    ASSUME TypeOK, NEW j \in Jobs, NEW v \in Outcomes, RecordOutcome(j, v)
    PROVE  /\ disk' \in [Jobs -> OnDisk]
           /\ cache' \in [Jobs -> Statuses \cup {"none"}]
           /\ cache'[j] \in {"none", "FAILED"}
           /\ \A k \in Jobs \ {j} : disk'[k] = disk[k] /\ cache'[k] = cache[k]
BY DEF TypeOK, RecordOutcome, OutcomeWrites, AfterFailedWrite, OnDisk,
       Statuses, Outcomes

\* The same for a start that fails, whichever of its writes was made.
LEMMA StartFailsType ==
    ASSUME TypeOK, NEW j \in Jobs, StartFails(j)
    PROVE  /\ disk' \in [Jobs -> OnDisk]
           /\ cache' \in [Jobs -> Statuses \cup {"none"}]
           /\ cache'[j] \in {"none", "FAILED"}
           /\ \A k \in Jobs \ {j} : disk'[k] = disk[k] /\ cache'[k] = cache[k]
<1>1. CASE RecordOutcome(j, "FAILED")
  BY <1>1, RecordOutcomeType DEF Outcomes
<1>2. CASE /\ disk' = [disk EXCEPT ![j] = "RUNNING"]
           /\ cache' = [cache EXCEPT ![j] = "FAILED"]
  BY <1>2 DEF TypeOK, OnDisk, Statuses, Outcomes
<1>3. QED BY <1>1, <1>2 DEF StartFails

\* A job with a live task is neither unknown nor already decided.
LEMMA LiveTaskRecord ==
    ASSUME TypeOK, TaskMatchesRecord, NEW j \in Jobs, task[j] # "none"
    PROVE  /\ disk[j] \in {"PENDING", "RUNNING"}
           /\ mgr \in {"ready", "stopping", "forced"}
BY DEF TypeOK, TaskMatchesRecord, Stages, Started, HoldsSlot

\* A data directory without jobs and a process that is down satisfy SlotInv.
LEMMA InitSlotInv == Init => SlotInv
<1> SUFFICES ASSUME Init PROVE SlotInv
  OBVIOUS
<1>1. TypeOK
  BY LimitsAssumption, BoundsAssumption, EmptySeq
     DEF Init, TypeOK, OnDisk, Statuses, Stages, NoTasks
<1>2. Holders = {}
  BY DEF Init, Holders, NoTasks, HoldsSlot
<1>3. SlotsAccounted
  BY <1>2, FS_EmptySet, LimitsAssumption DEF SlotsAccounted, Init
<1>4. TaskMatchesRecord
  BY DEF Init, TaskMatchesRecord, NoTasks, Started, HoldsSlot
<1>5. QueueExact
  BY DEF Init, QueueExact, NoTasks
<1>6. QED BY <1>1, <1>3, <1>4, <1>5 DEF SlotInv

\* A process that forgets its memory holds no slot.
LEMMA ForgetMemorySlots ==
    ASSUME ForgetMemory
    PROVE  /\ cache' \in [Jobs -> Statuses \cup {"none"}]
           /\ task' \in [Jobs -> Stages]
           /\ queue' \in Seq(Jobs)
           /\ slots' \in 0..MaxConcurrentJobs
           /\ late' \in [Jobs -> BOOLEAN]
           /\ result' \in [Jobs -> {"none", "done", "error", "timeout"}]
           /\ SlotsAccounted'
           /\ QueueExact'
           /\ \A j \in Jobs : cache'[j] = "none" /\ task'[j] = "none"
<1>1. Holders' = {}
  BY DEF ForgetMemory, Holders, NoTasks, HoldsSlot
<1>2. SlotsAccounted'
  BY <1>1, FS_EmptySet, LimitsAssumption DEF SlotsAccounted, ForgetMemory
<1>3. QueueExact'
  BY DEF ForgetMemory, QueueExact, NoTasks
<1>4. QED
  BY <1>2, <1>3, LimitsAssumption, EmptySeq DEF ForgetMemory, NoTasks, Stages

\* Recording an outcome and ending the task keeps TaskMatchesRecord.
LEMMA OutcomeKeepsRecord ==
    ASSUME TypeOK, TaskMatchesRecord, NEW j \in Jobs, task[j] # "none",
           cache'[j] \in {"none", "FAILED"},
           \A k \in Jobs \ {j} : disk'[k] = disk[k] /\ cache'[k] = cache[k],
           task' = [task EXCEPT ![j] = "none"], UNCHANGED <<mgr, result>>
    PROVE  TaskMatchesRecord'
<1>1. \A k \in Jobs \ {j} : task'[k] = task[k]
  BY DEF TypeOK
<1>2. task'[j] = "none"
  BY DEF TypeOK
<1>3. mgr' \notin {"down", "unloaded"}
  BY LiveTaskRecord
<1>4. QED
  BY <1>1, <1>2, <1>3 DEF TaskMatchesRecord, Started, HoldsSlot

\* The line is exact as long as it stays and nobody enters or leaves "queued".
LEMMA QueueKept ==
    ASSUME QueueExact, queue' = queue,
           \A j \in Jobs : task'[j] = "queued" <=> task[j] = "queued"
    PROVE  QueueExact'
BY DEF QueueExact

\* One job changes stage without holding a slot before or after.
LEMMA HoldersKept ==
    ASSUME TypeOK, NEW j \in Jobs, NEW st,
           task' = [task EXCEPT ![j] = st],
           task[j] \in HoldsSlot <=> st \in HoldsSlot
    PROVE  Holders' = Holders
BY DEF Holders, TypeOK

\* One job takes the slot it was counted free before.
LEMMA SlotTaken ==
    ASSUME TypeOK, SlotsAccounted, NEW j \in Jobs, NEW st \in HoldsSlot,
           task[j] \notin HoldsSlot, task' = [task EXCEPT ![j] = st],
           slots > 0, slots' = slots - 1
    PROVE  slots' \in 0..MaxConcurrentJobs /\ SlotsAccounted'
<1>1. Holders \in SUBSET Jobs /\ Holders' = Holders \cup {j} /\ j \notin Holders
  BY DEF Holders, TypeOK
<1>2. Cardinality(Holders') = Cardinality(Holders) + 1 /\ Cardinality(Holders) \in Nat
  BY <1>1, HolderAdded, JobSetsFinite
<1>3. QED
  BY <1>2, LimitsAssumption DEF SlotsAccounted, TypeOK

\* One job gives its slot back.
LEMMA SlotReleased ==
    ASSUME TypeOK, SlotsAccounted, NEW j \in Jobs,
           task[j] \in HoldsSlot, task' = [task EXCEPT ![j] = "none"],
           slots' = slots + 1
    PROVE  slots' \in 0..MaxConcurrentJobs /\ SlotsAccounted'
<1>1. Holders \in SUBSET Jobs /\ Holders' = Holders \ {j} /\ j \in Holders
  BY DEF Holders, TypeOK, HoldsSlot
<1>2. /\ Cardinality(Holders') = Cardinality(Holders) - 1
      /\ Cardinality(Holders) \in Nat /\ Cardinality(Holders) >= 1
  BY <1>1, HolderRemoved
<1>3. QED
  BY <1>2, LimitsAssumption DEF SlotsAccounted, TypeOK

\* A job is added at the end of the line.
LEMMA QueueGrows ==
    ASSUME TypeOK, QueueExact, NEW j \in Jobs, task[j] # "queued",
           task' = [task EXCEPT ![j] = "queued"], queue' = Append(queue, j)
    PROVE  QueueExact' /\ queue' \in Seq(Jobs)
<1>1. /\ Len(queue') = Len(queue) + 1 /\ queue' \in Seq(Jobs)
      /\ \A i \in 1..Len(queue) : queue'[i] = queue[i]
      /\ queue'[Len(queue) + 1] = j /\ Len(queue) \in Nat
  BY AppendProperties, LenProperties DEF TypeOK
<1>2. DOMAIN queue = 1..Len(queue) /\ DOMAIN queue' = 1..(Len(queue) + 1)
  BY <1>1, LenProperties DEF TypeOK
<1>3. \A i \in 1..Len(queue) : queue[i] \in Jobs /\ task[queue[i]] = "queued"
  BY <1>2, ElementOfSeq DEF TypeOK, QueueExact
<1>4. \A i, k \in DOMAIN queue' : queue'[i] = queue'[k] => i = k
  BY <1>1, <1>2, <1>3 DEF QueueExact
<1>5. ASSUME NEW k \in Jobs
      PROVE  task'[k] = "queued" <=> \E i \in DOMAIN queue' : queue'[i] = k
  <2>1. CASE k = j
    BY <1>1, <1>2, <2>1 DEF TypeOK
  <2>2. CASE k # j
    <3>1. task'[k] = task[k]
      BY <2>2 DEF TypeOK
    <3>2. (\E i \in DOMAIN queue' : queue'[i] = k) <=> \E i \in DOMAIN queue : queue[i] = k
      BY <1>1, <1>2, <2>2
    <3>3. QED BY <3>1, <3>2 DEF QueueExact
  <2>3. QED BY <2>1, <2>2
<1>6. QED BY <1>1, <1>4, <1>5 DEF QueueExact

\* The first in line leaves it.
LEMMA QueueShrinks ==
    ASSUME TypeOK, QueueExact, queue # << >>, NEW st \in HoldsSlot,
           task' = [task EXCEPT ![Head(queue)] = st], queue' = Tail(queue)
    PROVE  /\ QueueExact' /\ queue' \in Seq(Jobs)
           /\ Head(queue) \in Jobs /\ task[Head(queue)] = "queued"
<1>1. /\ Head(queue) = queue[1] /\ Head(queue) \in Jobs /\ queue' \in Seq(Jobs)
      /\ Len(queue') = Len(queue) - 1 /\ Len(queue) \in Nat /\ Len(queue) >= 1
      /\ \A i \in 1..Len(queue') : queue'[i] = queue[i + 1]
  BY HeadTailProperties, LenProperties, EmptySeq DEF TypeOK
<1>2. DOMAIN queue = 1..Len(queue) /\ DOMAIN queue' = 1..(Len(queue) - 1)
  BY <1>1, LenProperties DEF TypeOK
<1>3. task[Head(queue)] = "queued"
  BY <1>1, <1>2 DEF QueueExact
<1>4. \A i, k \in DOMAIN queue' : queue'[i] = queue'[k] => i = k
  <2> TAKE i, k \in DOMAIN queue'
  <2> HAVE queue'[i] = queue'[k]
  <2>1. queue[i + 1] = queue[k + 1] /\ i + 1 \in DOMAIN queue /\ k + 1 \in DOMAIN queue
    BY <1>1, <1>2
  <2>2. i + 1 = k + 1
    BY <2>1 DEF QueueExact
  <2>3. QED BY <2>2, <1>1, <1>2
<1>5. ASSUME NEW k \in Jobs
      PROVE  task'[k] = "queued" <=> \E i \in DOMAIN queue' : queue'[i] = k
  <2>1. CASE k = Head(queue)
    <3>1. task'[k] # "queued"
      BY <1>1, <2>1 DEF TypeOK, HoldsSlot
    <3>2. ASSUME NEW i \in DOMAIN queue', queue'[i] = k PROVE FALSE
      <4>1. queue[i + 1] = queue[1] /\ i + 1 \in DOMAIN queue /\ 1 \in DOMAIN queue
        BY <1>1, <1>2, <2>1, <3>2
      <4>2. i + 1 = 1
        BY <4>1 DEF QueueExact
      <4>3. QED BY <4>2, <1>1, <1>2
    <3>3. QED BY <3>1, <3>2
  <2>2. CASE k # Head(queue)
    <3>1. task'[k] = task[k]
      BY <1>1, <2>2 DEF TypeOK
    <3>2. ASSUME NEW i \in DOMAIN queue, queue[i] = k
          PROVE  \E m \in DOMAIN queue' : queue'[m] = k
      <4>1. i - 1 \in DOMAIN queue' /\ queue'[i - 1] = queue[(i - 1) + 1]
        BY <1>1, <1>2, <2>2, <3>2
      <4>2. QED BY <4>1, <1>2, <3>2
    <3>3. (\E i \in DOMAIN queue' : queue'[i] = k) => \E i \in DOMAIN queue : queue[i] = k
      BY <1>1, <1>2
    <3>4. QED BY <3>1, <3>2, <3>3 DEF QueueExact
  <2>3. QED BY <2>1, <2>2
<1>6. QED BY <1>1, <1>3, <1>4, <1>5 DEF QueueExact

\* One step per action: each keeps the inductive invariant.
LEMMA SlotInvStep == SlotInv /\ [Next]_vars => SlotInv'
<1> SUFFICES ASSUME TypeOK, SlotsAccounted, TaskMatchesRecord, QueueExact,
                    [Next]_vars
             PROVE  SlotInv'
  BY DEF SlotInv
<1> USE DEF Started, HoldsSlot
<1>1. CASE StartServer
  BY <1>1 DEF StartServer, SlotInv, TypeOK, durable, memory, SlotsAccounted,
              Holders, TaskMatchesRecord, QueueExact
<1>2. CASE LoadExistingJobs
  <2>1. TypeOK'
    BY <1>2 DEF LoadExistingJobs, TypeOK, WasRunning, OnDisk, Statuses, Outcomes
  <2>2. SlotsAccounted' /\ QueueExact'
    BY <1>2 DEF LoadExistingJobs, SlotsAccounted, Holders, QueueExact
  <2>3. TaskMatchesRecord'
    BY <1>2 DEF LoadExistingJobs, TaskMatchesRecord
  <2>4. QED BY <2>1, <2>2, <2>3 DEF SlotInv
<1>3. ASSUME NEW j \in Jobs, CreateJob(j) PROVE SlotInv'
  <2>1. TypeOK'
    BY <1>3 DEF CreateJob, TypeOK, OnDisk, Statuses, Stages
  <2>2. task[j] = "none"
    BY <1>3, LiveTaskRecord DEF CreateJob
  <2>3. Holders' = Holders
    BY <1>3, <2>2, HoldersKept DEF CreateJob
  <2>4. SlotsAccounted' /\ QueueExact'
    BY <1>3, <2>2, <2>3, QueueKept DEF CreateJob, SlotsAccounted, TypeOK
  <2>5. TaskMatchesRecord'
    BY <1>3 DEF CreateJob, TaskMatchesRecord, TypeOK
  <2>6. QED BY <2>1, <2>4, <2>5 DEF SlotInv
<1>4. ASSUME NEW j \in Jobs, CreateJobFails(j) PROVE SlotInv'
  <2>1. TypeOK'
    BY <1>4 DEF CreateJobFails, memory, TypeOK, OnDisk
  <2>2. SlotsAccounted' /\ QueueExact'
    BY <1>4 DEF CreateJobFails, memory, SlotsAccounted, Holders, QueueExact
  <2>3. TaskMatchesRecord'
    BY <1>4 DEF CreateJobFails, memory, TaskMatchesRecord, TypeOK
  <2>4. QED BY <2>1, <2>2, <2>3 DEF SlotInv
<1>5. ASSUME NEW j \in Jobs, BackgroundStart(j) PROVE SlotInv'
  <2> task[j] = "scheduled" /\ UNCHANGED <<mgr, result>>
    BY <1>5 DEF BackgroundStart
  <2>1. CASE StartAndEnter(j) /\ slots > 0 /\ queue = << >>
    <3>1. task' = [task EXCEPT ![j] = "setup"] /\ slots' = slots - 1
      BY <2>1 DEF StartAndEnter
    <3>2. slots' \in 0..MaxConcurrentJobs /\ SlotsAccounted'
      BY <2>1, <3>1, SlotTaken
    <3>3. TypeOK'
      BY <1>5, <2>1, <3>2 DEF BackgroundStart, StartAndEnter, TypeOK, OnDisk,
                              Statuses, Stages
    <3>4. QueueExact'
      BY <2>1, <3>1, QueueKept DEF StartAndEnter, TypeOK
    <3>5. TaskMatchesRecord'
      BY <1>5, <2>1 DEF BackgroundStart, StartAndEnter, TaskMatchesRecord, TypeOK
    <3>6. QED BY <3>2, <3>3, <3>4, <3>5 DEF SlotInv
  <2>2. CASE StartAndEnter(j) /\ ~(slots > 0 /\ queue = << >>)
    <3>1. task' = [task EXCEPT ![j] = "queued"] /\ slots' = slots
          /\ queue' = Append(queue, j)
      BY <2>2 DEF StartAndEnter
    <3>2. QueueExact' /\ queue' \in Seq(Jobs)
      BY <3>1, QueueGrows
    <3>3. TypeOK'
      BY <1>5, <2>2, <3>1, <3>2
         DEF BackgroundStart, StartAndEnter, TypeOK, OnDisk, Statuses, Stages
    <3>4. SlotsAccounted'
      BY <3>1, HoldersKept DEF SlotsAccounted
    <3>5. TaskMatchesRecord'
      BY <1>5, <2>2, <3>1
         DEF BackgroundStart, StartAndEnter, TaskMatchesRecord, TypeOK
    <3>6. QED BY <3>2, <3>3, <3>4, <3>5 DEF SlotInv
  <2>3. CASE StartFails(j)
    <3>1. task' = [task EXCEPT ![j] = "none"] /\ slots' = slots /\ queue' = queue
      BY <2>3 DEF StartFails
    <3>2. TypeOK'
      BY <1>5, <2>3, <3>1, StartFailsType DEF BackgroundStart, TypeOK, Stages
    <3>3. SlotsAccounted'
      BY <3>1, HoldersKept DEF SlotsAccounted
    <3>4. QueueExact'
      BY <3>1, QueueKept DEF TypeOK
    <3>5. TaskMatchesRecord'
      BY <2>3, <3>1, StartFailsType, OutcomeKeepsRecord
    <3>6. QED BY <3>2, <3>3, <3>4, <3>5 DEF SlotInv
  <2>4. QED BY <1>5, <2>1, <2>2, <2>3 DEF BackgroundStart
<1>6. ASSUME NEW j \in Jobs, Acquire(j) PROVE SlotInv'
  <2>1. j = Head(queue) /\ queue # << >> /\ slots > 0 /\ slots' = slots - 1
        /\ task' = [task EXCEPT ![j] = "setup"] /\ queue' = Tail(queue)
    BY <1>6 DEF Acquire
  <2>2. QueueExact' /\ queue' \in Seq(Jobs) /\ task[j] = "queued"
    BY <2>1, QueueShrinks
  <2>3. slots' \in 0..MaxConcurrentJobs /\ SlotsAccounted'
    BY <2>1, <2>2, SlotTaken
  <2>4. TypeOK'
    BY <1>6, <2>2, <2>3 DEF Acquire, durable, TypeOK, Stages
  <2>5. TaskMatchesRecord'
    BY <1>6, <2>2 DEF Acquire, durable, TaskMatchesRecord, TypeOK
  <2>6. QED BY <2>2, <2>3, <2>4, <2>5 DEF SlotInv
<1>7. ASSUME NEW j \in Jobs, SetupDone(j) PROVE SlotInv'
  <2>1. TypeOK' /\ TaskMatchesRecord'
    BY <1>7 DEF SetupDone, durable, TypeOK, Stages, TaskMatchesRecord
  <2>2. SlotsAccounted' /\ QueueExact'
    BY <1>7, HoldersKept, QueueKept DEF SetupDone, SlotsAccounted, TypeOK
  <2>3. QED BY <2>1, <2>2 DEF SlotInv
<1>8. ASSUME NEW j \in Jobs, SetupFails(j) PROVE SlotInv'
  <2>1. RecordOutcome(j, "FAILED") /\ task' = [task EXCEPT ![j] = "none"]
        /\ task[j] = "setup" /\ slots' = slots + 1 /\ queue' = queue /\ UNCHANGED <<mgr, result>>
    BY <1>8 DEF SetupFails
  <2>2. slots' \in 0..MaxConcurrentJobs /\ SlotsAccounted'
    BY <2>1, SlotReleased
  <2>3. TypeOK'
    BY <1>8, <2>1, <2>2, RecordOutcomeType DEF SetupFails, TypeOK, Stages, Outcomes
  <2>4. QueueExact'
    BY <2>1, QueueKept DEF TypeOK
  <2>5. TaskMatchesRecord'
    BY <2>1, RecordOutcomeType, OutcomeKeepsRecord DEF Outcomes
  <2>6. QED BY <2>2, <2>3, <2>4, <2>5 DEF SlotInv
<1>9. ASSUME NEW j \in Jobs, NEW r \in {"done", "error", "timeout"},
             LeaveAgentLoop(j, r)
      PROVE  SlotInv'
  <2>1. TypeOK' /\ TaskMatchesRecord'
    BY <1>9 DEF LeaveAgentLoop, durable, TypeOK, Stages, TaskMatchesRecord
  <2>2. SlotsAccounted' /\ QueueExact'
    BY <1>9, HoldersKept, QueueKept DEF LeaveAgentLoop, SlotsAccounted, TypeOK
  <2>3. QED BY <2>1, <2>2 DEF SlotInv
<1>10. ASSUME NEW j \in Jobs, Finish(j) PROVE SlotInv'
  <2>1. task' = [task EXCEPT ![j] = "none"] /\ task[j] = "closing"
        /\ slots' = slots + 1 /\ queue' = queue /\ UNCHANGED <<mgr, result>>
    BY <1>10 DEF Finish
  <2>2. PICK v \in Outcomes : RecordOutcome(j, v)
    <3>1. result[j] \in {"done", "error", "timeout"}
      BY <2>1 DEF TypeOK, TaskMatchesRecord
    <3>2. OutcomeOf(result[j]) \in Outcomes
      BY <3>1 DEF OutcomeOf, Outcomes
    <3>3. QED BY <1>10, <3>2 DEF Finish
  <2>3. slots' \in 0..MaxConcurrentJobs /\ SlotsAccounted'
    BY <2>1, SlotReleased
  <2>4. output' \in [Jobs -> BOOLEAN]
    BY <1>10 DEF Finish, CollectFiles, TypeOK
  <2>5. TypeOK'
    BY <1>10, <2>1, <2>2, <2>3, <2>4, RecordOutcomeType DEF Finish, TypeOK, Stages
  <2>6. QueueExact'
    BY <2>1, QueueKept DEF TypeOK
  <2>7. TaskMatchesRecord'
    BY <2>1, <2>2, RecordOutcomeType, OutcomeKeepsRecord
  <2>8. QED BY <2>3, <2>5, <2>6, <2>7 DEF SlotInv
<1>11. ASSUME NEW j \in Jobs, Tick(j) \/ AgentWrites(j) \/ CleanupInput(j)
       PROVE  SlotInv'
  <2>1. UNCHANGED <<mgr, crashes, disk, output, cache, task, queue, slots, result>>
    BY <1>11 DEF Tick, AgentWrites, CleanupInput, durable, memory
  <2>2. late' \in [Jobs -> BOOLEAN]
    BY <1>11 DEF Tick, AgentWrites, CleanupInput, memory, TypeOK
  <2>3. input' \in [Jobs -> {"absent", "clean", "dirty"}]
    BY <1>11 DEF Tick, AgentWrites, CleanupInput, durable, TypeOK
  <2>4. TypeOK'
    BY <2>1, <2>2, <2>3 DEF TypeOK
  <2>5. SlotsAccounted' /\ TaskMatchesRecord' /\ QueueExact'
    BY <2>1 DEF SlotsAccounted, Holders, TaskMatchesRecord, QueueExact
  <2>6. QED BY <2>4, <2>5 DEF SlotInv
<1>12. CASE Crash
  <2>1. ForgetMemory /\ mgr' = "down" /\ crashes' = crashes + 1
        /\ crashes < MaxCrashes
    BY <1>12 DEF Crash, ProcessDies
  <2>2. disk' \in [Jobs -> OnDisk] /\ input' \in [Jobs -> {"absent", "clean", "dirty"}]
        /\ output' \in [Jobs -> BOOLEAN]
    <3>1. CASE UNCHANGED durable
      BY <3>1 DEF durable, TypeOK
    <3>2. ASSUME NEW j \in Jobs, CutOff(j)
          PROVE  /\ disk' \in [Jobs -> OnDisk]
                 /\ input' \in [Jobs -> {"absent", "clean", "dirty"}]
                 /\ output' \in [Jobs -> BOOLEAN]
      BY <3>2 DEF CutOff, CollectFiles, TypeOK, OnDisk
    <3>3. QED BY <1>12, <3>1, <3>2 DEF Crash
  <2>3. crashes' \in 0..MaxCrashes
    BY <2>1, BoundsAssumption DEF TypeOK
  <2>4. TypeOK'
    BY <2>1, <2>2, <2>3, ForgetMemorySlots DEF TypeOK
  <2>5. TaskMatchesRecord'
    BY <2>1, ForgetMemorySlots DEF TaskMatchesRecord
  <2>6. QED
    BY <2>1, <2>4, <2>5, ForgetMemorySlots DEF SlotInv
<1>13. ASSUME NEW swept \in SUBSET Jobs, NEW torn \in SUBSET Jobs,
              CrashWhileLoading(swept, torn)
       PROVE  SlotInv'
  <2>1. ForgetMemory /\ mgr' = "down" /\ crashes' = crashes + 1
        /\ crashes < MaxCrashes
    BY <1>13 DEF CrashWhileLoading, ProcessDies
  <2>2. disk' \in [Jobs -> OnDisk] /\ UNCHANGED <<input, output>>
    BY <1>13 DEF CrashWhileLoading, TypeOK, OnDisk, Statuses, Outcomes
  <2>3. crashes' \in 0..MaxCrashes
    BY <2>1, BoundsAssumption DEF TypeOK
  <2>4. TypeOK'
    BY <2>1, <2>2, <2>3, ForgetMemorySlots DEF TypeOK
  <2>5. TaskMatchesRecord'
    BY <2>1, ForgetMemorySlots DEF TaskMatchesRecord
  <2>6. QED
    BY <2>1, <2>4, <2>5, ForgetMemorySlots DEF SlotInv
<1>14. CASE BeginShutdown
  <2>1. TypeOK'
    BY <1>14, BoundsAssumption DEF BeginShutdown, durable, memory, TypeOK
  <2>2. SlotsAccounted' /\ TaskMatchesRecord' /\ QueueExact'
    BY <1>14 DEF BeginShutdown, durable, memory, SlotsAccounted, Holders,
                 TaskMatchesRecord, QueueExact
  <2>3. QED BY <2>1, <2>2 DEF SlotInv
<1>15. CASE ForceQuit
  <2>1. PICK dead \in SUBSET {j \in Jobs : task[j] = "closing"} :
          LET alive == {j \in Jobs : task[j] \in {"agent", "closing"}} \ dead
          IN  /\ task' = [j \in Jobs |-> IF j \in alive THEN "closing" ELSE "none"]
              /\ result' = [j \in Jobs |->
                    IF j \in alive /\ result[j] # "timeout" THEN "error"
                    ELSE result[j]]
              /\ slots' = MaxConcurrentJobs - Cardinality(alive)
    BY <1>15 DEF ForceQuit
  <2> DEFINE alive == {j \in Jobs : task[j] \in {"agent", "closing"}} \ dead
  <2>2. /\ task' = [j \in Jobs |-> IF j \in alive THEN "closing" ELSE "none"]
        /\ slots' = MaxConcurrentJobs - Cardinality(alive)
        /\ result' \in [Jobs -> {"none", "done", "error", "timeout"}]
    BY <2>1 DEF TypeOK
  <2>3. Holders' = alive /\ alive \in SUBSET Holders /\ Holders \in SUBSET Jobs
    BY <2>2 DEF Holders
  <2>4. /\ Cardinality(alive) <= Cardinality(Holders)
        /\ Cardinality(alive) \in Nat /\ Cardinality(Holders) \in Nat
    BY <2>3, JobSetsFinite, FS_Subset
  <2>5. slots' \in 0..MaxConcurrentJobs /\ SlotsAccounted'
    BY <2>2, <2>3, <2>4, LimitsAssumption DEF SlotsAccounted, TypeOK
  <2>6. TypeOK'
    BY <1>15, <2>2, <2>5, EmptySeq DEF ForceQuit, durable, TypeOK, Stages
  <2>7. QueueExact'
    BY <1>15, <2>2 DEF ForceQuit, QueueExact
  <2>8. TaskMatchesRecord'
    BY <1>15, <2>2 DEF ForceQuit, durable, TaskMatchesRecord
  <2>9. QED BY <2>5, <2>6, <2>7, <2>8 DEF SlotInv
<1>16. CASE Exit
  BY <1>16, ForgetMemorySlots DEF Exit, durable, SlotInv, TypeOK, TaskMatchesRecord
<1>17. CASE UNCHANGED vars
  BY <1>17 DEF vars, SlotInv, TypeOK, SlotsAccounted, Holders, TaskMatchesRecord,
               QueueExact
<1>18. QED
  BY <1>1, <1>2, <1>3, <1>4, <1>5, <1>6, <1>7, <1>8, <1>9, <1>10, <1>11, <1>12,
     <1>13, <1>14, <1>15, <1>16, <1>17
     DEF Next, ProcessStep, JobStep, MessageAfterDeadline, AgentResult, StreamEnds,
         AgentError

-----------------------------------------------------------------------------
(* Invariants that hold even when status files cannot be written           *)

\* The inductive invariant of the specification.
THEOREM SlotInvariant == Spec => []SlotInv
BY InitSlotInv, SlotInvStep, PTL DEF Spec

\* The types of the server's variables; in particular the semaphore's value
\* stays between 0 and MaxConcurrentJobs.
THEOREM TypeCorrect == Spec => []TypeOK
BY SlotInvariant, PTL DEF SlotInv

\* No way out of ClaudeRunner.run leaks a semaphore slot or gives it back
\* twice: free slots and slot holders always add up to MaxConcurrentJobs, and
\* the semaphore's waiters are exactly the queued jobs, each once.
THEOREM SemaphoreIsExact == Spec => []SemaphoreExact
BY SlotInvariant, PTL DEF SlotInv, SemaphoreExact

\* Memory, disk and background task of a live job agree, whatever writes fail.
THEOREM TasksMatchRecords == Spec => []TaskMatchesRecord
BY SlotInvariant, PTL DEF SlotInv

\* A task starts only with its input directory there, and cleanup looks for a
\* outcome on disk, which a live job has not got.
LEMMA InputKeptStep == SlotInv /\ LiveJobKeepsInput /\ [Next]_vars => LiveJobKeepsInput'
<1> SUFFICES ASSUME SlotInv, LiveJobKeepsInput, [Next]_vars
             PROVE  LiveJobKeepsInput'
  OBVIOUS
<1>a. SlotInv'
  BY SlotInvStep
<1>b. \A j \in Jobs : task'[j] # "none" => disk'[j] \in {"PENDING", "RUNNING"}
  BY <1>a DEF SlotInv, TypeOK, TaskMatchesRecord, Stages, Started, HoldsSlot
<1> SUFFICES \A j \in Jobs : task'[j] # "none" => input'[j] # "absent"
  BY <1>b DEF LiveJobKeepsInput, Outcomes
<1> USE DEF SlotInv, TypeOK, LiveJobKeepsInput
<1>1. ASSUME UNCHANGED input, \A j \in Jobs : task[j] = "none" => task'[j] = "none"
      PROVE  \A j \in Jobs : task'[j] # "none" => input'[j] # "absent"
  BY <1>1
<1>2. CASE StartServer \/ LoadExistingJobs \/ BeginShutdown \/ ForceQuit \/ Exit
  BY <1>1, <1>2 DEF StartServer, LoadExistingJobs, BeginShutdown, ForceQuit, Exit,
                    ForgetMemory, NoTasks, durable, memory
<1>3. CASE ProcessDies
  BY <1>3 DEF ProcessDies, ForgetMemory, NoTasks
<1>4. ASSUME NEW j \in Jobs, CreateJob(j) \/ CreateJobFails(j)
      PROVE  \A k \in Jobs : task'[k] # "none" => input'[k] # "absent"
  BY <1>4 DEF CreateJob, CreateJobFails, memory
<1>5. ASSUME NEW j \in Jobs, BackgroundStart(j)
      PROVE  \A k \in Jobs : task'[k] # "none" => input'[k] # "absent"
  BY <1>1, <1>5 DEF BackgroundStart, StartAndEnter, StartFails
<1>6. ASSUME NEW j \in Jobs, Acquire(j)
      PROVE  \A k \in Jobs : task'[k] # "none" => input'[k] # "absent"
  BY <1>1, <1>6, QueueShrinks DEF Acquire, durable, HoldsSlot
<1>7. ASSUME NEW j \in Jobs, SetupDone(j) \/ SetupFails(j) \/ Finish(j) \/ Tick(j)
      PROVE  \A k \in Jobs : task'[k] # "none" => input'[k] # "absent"
  BY <1>1, <1>7 DEF SetupDone, SetupFails, Finish, Tick, durable
<1>8. ASSUME NEW j \in Jobs, NEW r, LeaveAgentLoop(j, r)
      PROVE  \A k \in Jobs : task'[k] # "none" => input'[k] # "absent"
  BY <1>1, <1>8 DEF LeaveAgentLoop, durable
<1>9. ASSUME NEW j \in Jobs, AgentWrites(j) \/ CleanupInput(j)
      PROVE  \A k \in Jobs : task'[k] # "none" => input'[k] # "absent"
  BY <1>9 DEF AgentWrites, CleanupInput, memory, Outcomes
<1>10. CASE UNCHANGED vars
  BY <1>1, <1>10 DEF vars
<1>11. QED
  BY <1>2, <1>3, <1>4, <1>5, <1>6, <1>7, <1>8, <1>9, <1>10
     DEF Next, ProcessStep, JobStep, MessageAfterDeadline, AgentResult, StreamEnds,
         AgentError, Crash, CrashWhileLoading

\* CleanupManager never removes the input directory of a job whose background
\* task is alive, in any interleaving of cleanup, tasks, crashes and restarts.
THEOREM CleanupSparesLiveJobs == Spec => []LiveJobKeepsInput
<1>1. Init => LiveJobKeepsInput
  BY DEF Init, LiveJobKeepsInput, NoTasks
<1>2. LiveJobKeepsInput /\ UNCHANGED vars => LiveJobKeepsInput'
  BY DEF LiveJobKeepsInput, vars
<1>3. QED
  BY <1>1, <1>2, InputKeptStep, SlotInvariant, PTL DEF Spec

-----------------------------------------------------------------------------
(* Invariants that need writable status files: ~DiskFaults                 *)

\* The inductive invariant: on top of SlotInv, memory mirrors the disk.
ReliableInv == SlotInv /\ CacheMirrorsDisk

\* With reliable writes an outcome is on disk and the entry is gone.
LEMMA ReliableOutcome ==
    ASSUME ~DiskFaults, TypeOK, NEW j \in Jobs, NEW v \in Outcomes, RecordOutcome(j, v)
    PROVE  /\ disk' = [disk EXCEPT ![j] = v]
           /\ cache' = [cache EXCEPT ![j] = "none"]
<1>1. AfterFailedWrite(j) = {}
  BY DEF AfterFailedWrite
<1>2. PICK o \in OutcomeWrites(j, v) :
        /\ disk' = [disk EXCEPT ![j] = o.file]
        /\ cache' = [cache EXCEPT ![j] = o.entry]
  BY DEF RecordOutcome
<1>3. o = [file |-> v, entry |-> "none"]
  BY <1>1 DEF OutcomeWrites
<1>4. o.file = v /\ o.entry = "none"
  BY <1>3
<1>5. QED BY <1>2, <1>4

\* The outcome that Finish records.
LEMMA FinishOutcome ==
    ASSUME SlotInv, NEW j \in Jobs, Finish(j)
    PROVE  OutcomeOf(result[j]) \in Outcomes /\ RecordOutcome(j, OutcomeOf(result[j]))
<1>1. result[j] \in {"done", "error", "timeout"}
  BY DEF Finish, SlotInv, TypeOK, TaskMatchesRecord
<1>2. OutcomeOf(result[j]) \in Outcomes
  BY <1>1 DEF OutcomeOf, Outcomes
<1>3. QED BY <1>2 DEF Finish

\* With reliable writes every step keeps the cache a mirror of the files.
LEMMA CacheMirrorsStep ==
    ASSUME ~DiskFaults
    PROVE  ReliableInv /\ [Next]_vars => CacheMirrorsDisk'
<1> SUFFICES ASSUME SlotInv, CacheMirrorsDisk, [Next]_vars
             PROVE  CacheMirrorsDisk'
  BY DEF ReliableInv
<1> USE DEF SlotInv, TypeOK, CacheMirrorsDisk, Up
<1>1. CASE LoadExistingJobs
  BY <1>1 DEF LoadExistingJobs, WasRunning
<1>2. CASE StartServer \/ Crash \/ Exit
  BY <1>2 DEF StartServer, Crash, ProcessDies, Exit
<1>3. CASE BeginShutdown \/ ForceQuit \/ UNCHANGED vars
  BY <1>3 DEF BeginShutdown, ForceQuit, vars, durable, memory
<1>4. ASSUME NEW swept, NEW torn, CrashWhileLoading(swept, torn)
      PROVE  CacheMirrorsDisk'
  BY <1>4 DEF CrashWhileLoading, ProcessDies
<1>5. ASSUME NEW j \in Jobs, CreateJob(j) \/ CreateJobFails(j)
      PROVE  CacheMirrorsDisk'
  BY <1>5 DEF CreateJob, CreateJobFails
<1>6. ASSUME NEW j \in Jobs, NEW v \in Outcomes, RecordOutcome(j, v), UNCHANGED mgr
      PROVE  CacheMirrorsDisk'
  BY <1>6, ReliableOutcome DEF Outcomes
<1>7. ASSUME NEW j \in Jobs, BackgroundStart(j)
      PROVE  CacheMirrorsDisk'
  <2>1. CASE StartAndEnter(j)
    BY <1>7, <2>1 DEF BackgroundStart, StartAndEnter
  <2>2. CASE StartFails(j)
    BY <1>6, <1>7, <2>2 DEF BackgroundStart, StartFails, Outcomes
  <2>3. QED BY <1>7, <2>1, <2>2 DEF BackgroundStart
<1>8. ASSUME NEW j \in Jobs, SetupFails(j) \/ Finish(j)
      PROVE  CacheMirrorsDisk'
  <2>1. UNCHANGED mgr
    BY <1>8 DEF SetupFails, Finish
  <2>2. CASE SetupFails(j)
    BY <1>6, <2>1, <2>2 DEF SetupFails, Outcomes
  <2>3. CASE Finish(j)
    BY <1>6, <2>1, <2>3, FinishOutcome
  <2>4. QED BY <1>8, <2>2, <2>3
<1>9. ASSUME NEW j \in Jobs, Acquire(j) \/ SetupDone(j) \/ Tick(j) \/ AgentWrites(j)
                             \/ CleanupInput(j)
      PROVE  CacheMirrorsDisk'
  BY <1>9 DEF Acquire, SetupDone, Tick, AgentWrites, CleanupInput, durable, memory
<1>10. ASSUME NEW j \in Jobs, NEW r, LeaveAgentLoop(j, r)
       PROVE  CacheMirrorsDisk'
  BY <1>10 DEF LeaveAgentLoop, durable
<1>11. QED
  BY <1>1, <1>2, <1>3, <1>4, <1>5, <1>7, <1>8, <1>9, <1>10
     DEF Next, ProcessStep, JobStep, MessageAfterDeadline, AgentResult, StreamEnds,
         AgentError

\* With reliable writes, memory and disk agree in every reachable state.
THEOREM ReliableInvariant == ASSUME ~DiskFaults PROVE Spec => []ReliableInv
<1>1. Init => ReliableInv
  BY InitSlotInv DEF ReliableInv, Init, CacheMirrorsDisk, Up
<1>2. ReliableInv /\ [Next]_vars => ReliableInv'
  BY CacheMirrorsStep, SlotInvStep DEF ReliableInv
<1>3. QED BY <1>1, <1>2, PTL DEF Spec

\* The cache holds exactly the unfinished jobs, as their files have them.
THEOREM CacheIsMirror == ASSUME ~DiskFaults PROVE Spec => []CacheMirrorsDisk
BY ReliableInvariant, PTL DEF ReliableInv

\* While requests are served, the jobs answered as RUNNING are exactly those
\* with a live task past mark_running: after any history of crashes no job is
\* left RUNNING that nothing will ever finish.
THEOREM NoRunningJobIsAbandoned == ASSUME ~DiskFaults PROVE Spec => []RunningIsExecuted
<1>1. ReliableInv => RunningIsExecuted
  BY DEF ReliableInv, SlotInv, TypeOK, TaskMatchesRecord, CacheMirrorsDisk,
         RunningIsExecuted, Up, Answer, Started, HoldsSlot, Statuses, Outcomes, OnDisk
<1>2. QED BY <1>1, ReliableInvariant, PTL

\* Memory, disk and the tasks agree on every job, after any crashes.
THEOREM ReportsAlwaysTrue == ASSUME ~DiskFaults PROVE Spec => []ReportsAreTrue
BY CacheIsMirror, NoRunningJobIsAbandoned, PTL DEF ReportsAreTrue

-----------------------------------------------------------------------------
(* The order in which jobs get their slots                                 *)

\* A job that waited once is never scheduled anew: create_job draws new names.
LEMMA OnceScheduled ==
    ASSUME SlotInv, [Next]_vars, NEW k \in Jobs, task[k] # "scheduled", disk[k] # "none"
    PROVE  task'[k] # "scheduled" /\ disk'[k] # "none"
<1> DEFINE Kept == task'[k] # "scheduled" /\ disk'[k] # "none"
<1> USE DEF SlotInv, TypeOK
<1>1. ASSUME UNCHANGED task \/ task' = NoTasks, UNCHANGED disk PROVE Kept
  BY <1>1 DEF NoTasks
<1>2. ASSUME NEW j \in Jobs, NEW d, NEW st, d # "none", j # k \/ st # "scheduled",
             disk' = [disk EXCEPT ![j] = d] \/ UNCHANGED disk,
             task' = [task EXCEPT ![j] = st] \/ UNCHANGED task \/ task' = NoTasks
      PROVE  Kept
  BY <1>2 DEF NoTasks
<1>3. CASE LoadExistingJobs
  BY <1>3 DEF LoadExistingJobs
<1>4. ASSUME NEW swept, NEW torn, CrashWhileLoading(swept, torn) PROVE Kept
  BY <1>4 DEF CrashWhileLoading, ProcessDies, ForgetMemory, NoTasks
<1>5. CASE Crash
  <2>1. task' = NoTasks
    BY <1>5 DEF Crash, ProcessDies, ForgetMemory
  <2>2. ASSUME NEW j \in Jobs, CutOff(j) PROVE disk'[k] # "none"
    BY <2>2 DEF CutOff
  <2>3. QED BY <1>1, <1>5, <2>1, <2>2 DEF Crash, NoTasks, durable
<1>6. ASSUME NEW j \in Jobs, CreateJob(j) \/ CreateJobFails(j) PROVE Kept
  BY <1>2, <1>6 DEF CreateJob, CreateJobFails, memory
<1>7. ASSUME NEW j \in Jobs, NEW v \in Outcomes, RecordOutcome(j, v),
             task' = [task EXCEPT ![j] = "none"]
      PROVE  Kept
  <2>1. PICK o \in OutcomeWrites(j, v) : disk' = [disk EXCEPT ![j] = o.file]
    BY <1>7 DEF RecordOutcome
  <2>2. o.file # "none" \/ o.file = disk[j]
    BY <2>1 DEF OutcomeWrites, AfterFailedWrite, Outcomes
  <2>3. QED BY <1>7, <2>1, <2>2
<1>8. ASSUME NEW j \in Jobs, BackgroundStart(j) PROVE Kept
  BY <1>2, <1>7, <1>8 DEF BackgroundStart, StartAndEnter, StartFails, Outcomes
<1>9. ASSUME NEW j \in Jobs, SetupFails(j) \/ Finish(j) PROVE Kept
  <2>1. CASE SetupFails(j)
    BY <1>7, <2>1 DEF SetupFails, Outcomes
  <2>2. CASE Finish(j)
    BY <1>7, <2>2, FinishOutcome DEF Finish
  <2>3. QED BY <1>9, <2>1, <2>2
<1>10. ASSUME NEW j \in Jobs, Acquire(j) \/ SetupDone(j) PROVE Kept
  BY <1>10 DEF Acquire, SetupDone, durable
<1>11. ASSUME NEW j \in Jobs, Tick(j) \/ AgentWrites(j) \/ CleanupInput(j) PROVE Kept
  BY <1>1, <1>11 DEF Tick, AgentWrites, CleanupInput, durable, memory
<1>12. ASSUME NEW j \in Jobs, NEW r, LeaveAgentLoop(j, r) PROVE Kept
  BY <1>12 DEF LeaveAgentLoop, durable
<1>13. CASE ForceQuit
  BY <1>13 DEF ForceQuit, durable
<1>14. CASE StartServer \/ BeginShutdown \/ Exit \/ UNCHANGED vars
  BY <1>1, <1>14 DEF StartServer, BeginShutdown, Exit, ForgetMemory, vars, durable, memory
<1>15. QED
  BY <1>3, <1>4, <1>5, <1>6, <1>8, <1>9, <1>10, <1>11, <1>12, <1>13, <1>14
     DEF Next, ProcessStep, JobStep, MessageAfterDeadline, AgentResult, StreamEnds,
         AgentError

\* Nobody gets a slot or a place in the line, and the line stays or goes.
Calm ==
    /\ \A k \in Jobs : ~Enters(k) /\ (k \in Holders' => k \in Holders)
    /\ \A k \in Jobs : task'[k] = "queued" => task[k] = "queued" /\ queue' = queue

\* Only a job that is marked running and one that acquires move the line.
LEMMA LineMoves ==
    ASSUME SlotInv, [Next]_vars
    PROVE  \/ Calm
           \/ \E j \in Jobs : BackgroundStart(j) /\ StartAndEnter(j)
           \/ \E j \in Jobs : Acquire(j)
<1> USE DEF SlotInv, TypeOK
<1>1. ASSUME UNCHANGED task, UNCHANGED queue PROVE Calm
  BY <1>1 DEF Calm, Enters, Holders, Started, HoldsSlot
<1>2. CASE task' = NoTasks
  BY <1>2 DEF Calm, Enters, Holders, NoTasks, Started, HoldsSlot
<1>3. ASSUME NEW j \in Jobs, NEW st \in Stages, st \notin Started \/ task[j] \in HoldsSlot,
             st # "queued", task' = [task EXCEPT ![j] = st], UNCHANGED queue
      PROVE  Calm
  BY <1>3 DEF Calm, Enters, Holders, Started, HoldsSlot
<1>4. CASE ForceQuit
  BY <1>4 DEF ForceQuit, Calm, Enters, Holders, Started, HoldsSlot
<1>5. CASE StartServer \/ LoadExistingJobs \/ BeginShutdown \/ UNCHANGED vars
  BY <1>1, <1>5 DEF StartServer, LoadExistingJobs, BeginShutdown, memory, vars
<1>6. CASE Exit \/ ProcessDies
  BY <1>2, <1>6 DEF Exit, ProcessDies, ForgetMemory
<1>7. ASSUME NEW j \in Jobs, CreateJob(j) \/ CreateJobFails(j) \/ Tick(j)
                             \/ AgentWrites(j) \/ CleanupInput(j)
      PROVE  Calm
  BY <1>1, <1>3, <1>7 DEF CreateJob, CreateJobFails, Tick, AgentWrites, CleanupInput,
                          memory, Stages, Started, HoldsSlot
<1>8. ASSUME NEW j \in Jobs, StartFails(j) \/ SetupDone(j) \/ SetupFails(j) \/ Finish(j)
      PROVE  Calm
  BY <1>3, <1>8 DEF StartFails, SetupDone, SetupFails, Finish, Stages, Started, HoldsSlot
<1>9. ASSUME NEW j \in Jobs, NEW r, LeaveAgentLoop(j, r) PROVE Calm
  BY <1>3, <1>9 DEF LeaveAgentLoop, Stages, Started, HoldsSlot
<1>10. QED
  BY <1>4, <1>5, <1>6, <1>7, <1>8, <1>9
     DEF Next, ProcessStep, JobStep, BackgroundStart, MessageAfterDeadline, AgentResult,
         StreamEnds, AgentError, Crash, CrashWhileLoading

\* k stands in the line before j.
Before(k, j) == \E i, m \in DOMAIN queue : i < m /\ queue[i] = k /\ queue[m] = j

\* FirstComeFirstServed is not inductive: that the head of the line is the job
\* to serve needs the line to respect ahead, and that a job served once does
\* not wait again needs the jobs in ahead to be past mark_running.
OrderInv ==
    /\ ahead \in [Jobs -> SUBSET Jobs]
    /\ \A j \in Jobs : \A k \in ahead[j] :
         /\ task[k] # "scheduled" /\ disk[k] # "none"
         /\ task[j] = "queued" /\ task[k] = "queued" => Before(k, j)
    /\ FirstComeFirstServed

\* Each step keeps the order: one that moves nobody, an arrival, a grant.
LEMMA OrderStep == SlotInv /\ OrderInv /\ [OrderNext]_orderVars => OrderInv'
<1> SUFFICES ASSUME SlotInv, OrderInv, [OrderNext]_orderVars PROVE OrderInv'
  OBVIOUS
<1>1. CASE UNCHANGED orderVars
  <2>1. UNCHANGED <<task, disk, queue, ahead>>
    BY <1>1 DEF orderVars, vars
  <2>2. FirstComeFirstServed'
    BY <2>1 DEF OrderInv, FirstComeFirstServed, Holders
  <2>3. \A j, k \in Jobs : Before(k, j) => Before(k, j)'
    BY <2>1 DEF Before
  <2>4. QED BY <2>1, <2>2, <2>3 DEF OrderInv
<1>2. CASE OrderNext
  <2>1. /\ ahead' \in [Jobs -> SUBSET Jobs]
        /\ \A j \in Jobs : \/ Enters(j) /\ ahead'[j] = Waiting
                           \/ ~Enters(j) /\ ahead'[j] \subseteq ahead[j]
    BY <1>2 DEF OrderNext, OrderInv, Waiting
  <2>2. \A k \in Waiting : task[k] # "scheduled" /\ disk[k] # "none"
    BY LiveTaskRecord DEF Waiting, SlotInv
  <2>3. \A j \in Jobs : \A k \in ahead'[j] :
          k \in Jobs /\ task[k] # "scheduled" /\ disk[k] # "none"
    BY <2>1, <2>2 DEF OrderInv, Waiting
  <2>4. \A j \in Jobs : \A k \in ahead'[j] : task'[k] # "scheduled" /\ disk'[k] # "none"
    BY <1>2, <2>3, OnceScheduled DEF OrderNext
  <2> DEFINE InOrder(j, k) == /\ task'[j] = "queued" => Before(k, j)'
                              /\ j \notin Holders'
  <2>a. ASSUME \A j \in Jobs : \A k \in ahead'[j] : task'[k] = "queued" => InOrder(j, k)
        PROVE  OrderInv'
    <3>1. FirstComeFirstServed'
      BY <2>a DEF FirstComeFirstServed, Holders
    <3>2. QED BY <2>1, <2>4, <2>a, <3>1 DEF OrderInv
  <2> SUFFICES ASSUME NEW j \in Jobs, NEW k \in ahead'[j], task'[k] = "queued"
               PROVE  InOrder(j, k)
    BY <2>a
  <2>5. k \in Jobs /\ task[k] # "scheduled" /\ disk[k] # "none"
    BY <2>3
  <2>6. CASE Calm
    <3>1. task[k] = "queued" /\ queue' = queue /\ k \in ahead[j]
      BY <2>1, <2>5, <2>6 DEF Calm
    <3>2. j \notin Holders /\ (task'[j] = "queued" => Before(k, j))
      BY <2>6, <3>1 DEF Calm, OrderInv, FirstComeFirstServed
    <3>3. Before(k, j) => Before(k, j)'
      BY <3>1 DEF Before
    <3>4. QED BY <2>6, <3>2, <3>3 DEF Calm
  <2>7. ASSUME NEW n \in Jobs, BackgroundStart(n), StartAndEnter(n)
        PROVE  InOrder(j, k)
    <3>1. /\ task[n] = "scheduled" /\ task'[n] \in Started /\ Enters(n) /\ k # n
          /\ \A i \in Jobs \ {n} : task'[i] = task[i] /\ ~Enters(i)
      BY <2>5, <2>7 DEF BackgroundStart, StartAndEnter, SlotInv, TypeOK, Enters,
                        Started, HoldsSlot
    <3>2. task[k] = "queued" /\ \E i \in DOMAIN queue : queue[i] = k
      BY <2>5, <3>1 DEF SlotInv, QueueExact
    <3>3. queue # << >>
      BY <3>2
    <3>4. task'[n] = "queued" /\ queue' = Append(queue, n)
      BY <2>7, <3>3 DEF StartAndEnter, SlotInv, TypeOK
    <3>5. /\ Len(queue) \in Nat
          /\ DOMAIN queue = 1..Len(queue) /\ DOMAIN queue' = 1..(Len(queue) + 1)
          /\ queue'[Len(queue) + 1] = n
          /\ \A i \in 1..Len(queue) : queue'[i] = queue[i]
      BY <2>7, <3>4, AppendProperties, LenProperties DEF SlotInv, TypeOK
    <3>6. CASE j = n
      <4>1. PICK i \in DOMAIN queue : queue[i] = k
        BY <3>2
      <4>2. /\ i \in DOMAIN queue' /\ Len(queue) + 1 \in DOMAIN queue' /\ i < Len(queue) + 1
            /\ queue'[i] = k /\ queue'[Len(queue) + 1] = j
        BY <3>5, <3>6, <4>1
      <4>3. Before(k, j)'
        BY <4>2 DEF Before
      <4>4. QED BY <3>4, <3>6, <4>3 DEF Holders, HoldsSlot
    <3>7. CASE j # n
      <4>1. task'[j] = task[j] /\ k \in ahead[j]
        BY <2>1, <3>1, <3>7
      <4>2. j \notin Holders /\ (task[j] = "queued" => Before(k, j))
        BY <3>2, <4>1 DEF OrderInv, FirstComeFirstServed
      <4>3. Before(k, j) => Before(k, j)'
        BY <3>5 DEF Before
      <4>4. QED BY <4>1, <4>2, <4>3 DEF Holders
    <3>8. QED BY <3>6, <3>7
  <2>8. ASSUME NEW n \in Jobs, Acquire(n)
        PROVE  InOrder(j, k)
    <3>1. n = Head(queue) /\ queue # << >> /\ queue' = Tail(queue)
          /\ task' = [task EXCEPT ![n] = "setup"]
      BY <2>8 DEF Acquire
    <3>2. task[n] = "queued" /\ task'[n] = "setup" /\ k # n
          /\ \A i \in Jobs \ {n} : task'[i] = task[i]
      BY <3>1, QueueShrinks DEF SlotInv, TypeOK, HoldsSlot
    <3>3. task[k] = "queued" /\ ~Enters(j) /\ k \in ahead[j]
      BY <2>1, <2>5, <3>2 DEF Enters, Started, HoldsSlot
    <3>4. /\ Len(queue) \in Nat /\ DOMAIN queue = 1..Len(queue) /\ 1 \in DOMAIN queue
          /\ DOMAIN queue' = 1..(Len(queue) - 1) /\ queue[1] = n
          /\ \A i \in 1..(Len(queue) - 1) : queue'[i] = queue[i + 1]
      BY <3>1, HeadTailProperties, LenProperties, EmptySeq DEF SlotInv, TypeOK
    <3>5. \A i \in DOMAIN queue : queue[i] = n => i = 1
      BY <3>4 DEF SlotInv, QueueExact
    <3>6. task[j] = "queued" => Before(k, j)
      BY <3>3 DEF OrderInv
    <3>7. CASE j = n
      BY <3>2, <3>4, <3>5, <3>6, <3>7 DEF Before
    <3>8. CASE j # n
      <4>1. task'[j] = task[j] /\ j \notin Holders
        BY <3>2, <3>3, <3>8 DEF OrderInv, FirstComeFirstServed
      <4>2. ASSUME NEW i \in DOMAIN queue, NEW m \in DOMAIN queue, i < m,
                   queue[i] = k, queue[m] = j
            PROVE  Before(k, j)'
        <5>1. i # 1
          BY <3>2, <3>4, <4>2
        <5>2. i - 1 \in DOMAIN queue' /\ m - 1 \in DOMAIN queue' /\ i - 1 < m - 1
          BY <3>4, <4>2, <5>1
        <5>3. queue'[i - 1] = k /\ queue'[m - 1] = j
          BY <3>4, <4>2, <5>2
        <5>4. QED BY <5>2, <5>3 DEF Before
      <4>3. QED BY <3>6, <4>1, <4>2 DEF Before, Holders
    <3>9. QED BY <3>7, <3>8
  <2>9. QED BY <1>2, <2>6, <2>7, <2>8, LineMoves DEF OrderNext
<1>3. QED BY <1>1, <1>2

\* Jobs get their slots in the order in which they were marked running, those
\* that waited and those that found a slot free when they came.
THEOREM SlotsInOrder == OrderSpec => []FirstComeFirstServed
<1>1. OrderInit => Init
  BY DEF OrderInit
<1>2. [OrderNext]_orderVars => [Next]_vars
  BY DEF OrderNext, orderVars
<1>3. OrderInit => OrderInv
  BY DEF OrderInit, Init, OrderInv, FirstComeFirstServed, Holders, NoTasks, HoldsSlot
<1>4. OrderInv => FirstComeFirstServed
  BY DEF OrderInv
<1>5. QED
  BY <1>1, <1>2, <1>3, <1>4, InitSlotInv, SlotInvStep, OrderStep, PTL DEF OrderSpec
-----------------------------------------------------------------------------
(* Outputs                                                                 *)

\* A success or a timeout is recorded only by Finish, after the files were
\* copied; nobody writes to the working directory of such a job any more.
LEMMA OutcomeHasOutputStep ==
    ASSUME ~DiskFaults
    PROVE  ReliableInv /\ OutcomeHasOutput /\ [Next]_vars => OutcomeHasOutput'
<1> SUFFICES ASSUME SlotInv, OutcomeHasOutput, [Next]_vars
             PROVE  OutcomeHasOutput'
  BY DEF ReliableInv
<1> USE DEF SlotInv, TypeOK, OutcomeHasOutput
<1>1. CASE LoadExistingJobs
  BY <1>1 DEF LoadExistingJobs
<1>2. CASE UNCHANGED durable
  BY <1>2 DEF durable
<1>3. ASSUME NEW j \in Jobs, CutOff(j) PROVE OutcomeHasOutput'
  BY <1>3 DEF CutOff, CollectFiles
<1>4. ASSUME NEW swept, NEW torn, CrashWhileLoading(swept, torn)
      PROVE  OutcomeHasOutput'
  BY <1>4 DEF CrashWhileLoading
<1>5. ASSUME NEW j \in Jobs, CreateJob(j) \/ CreateJobFails(j)
      PROVE  OutcomeHasOutput'
  BY <1>5 DEF CreateJob, CreateJobFails
<1>6. ASSUME NEW j \in Jobs, RecordOutcome(j, "FAILED"), UNCHANGED <<input, output>>
      PROVE  OutcomeHasOutput'
  BY <1>6, ReliableOutcome DEF Outcomes
<1>7. ASSUME NEW j \in Jobs, BackgroundStart(j)
      PROVE  OutcomeHasOutput'
  <2>1. CASE StartAndEnter(j)
    BY <1>7, <2>1 DEF BackgroundStart, StartAndEnter
  <2>2. CASE StartFails(j)
    BY <1>6, <1>7, <2>2 DEF BackgroundStart, StartFails
  <2>3. QED BY <1>7, <2>1, <2>2 DEF BackgroundStart
<1>8. ASSUME NEW j \in Jobs, SetupFails(j) PROVE OutcomeHasOutput'
  BY <1>6, <1>8 DEF SetupFails
<1>9. ASSUME NEW j \in Jobs, Finish(j) PROVE OutcomeHasOutput'
  <2>1. disk' = [disk EXCEPT ![j] = OutcomeOf(result[j])]
    BY <1>9, FinishOutcome, ReliableOutcome
  <2>2. output' = [output EXCEPT ![j] = (input[j] = "dirty")] /\ input' = input
    BY <1>9 DEF Finish, CollectFiles
  <2>3. QED BY <2>1, <2>2
<1>10. ASSUME NEW j \in Jobs, AgentWrites(j) PROVE OutcomeHasOutput'
  <2>1. disk[j] = "RUNNING"
    BY <1>10 DEF AgentWrites, TaskMatchesRecord, Started, HoldsSlot
  <2>2. QED BY <1>10, <2>1 DEF AgentWrites
<1>11. ASSUME NEW j \in Jobs, CleanupInput(j) PROVE OutcomeHasOutput'
  BY <1>11 DEF CleanupInput
<1>12. ASSUME NEW j \in Jobs, Acquire(j) \/ SetupDone(j) \/ Tick(j) PROVE OutcomeHasOutput'
  BY <1>2, <1>12 DEF Acquire, SetupDone, Tick
<1>13. ASSUME NEW j \in Jobs, NEW r, LeaveAgentLoop(j, r) PROVE OutcomeHasOutput'
  BY <1>2, <1>13 DEF LeaveAgentLoop
<1>14. CASE StartServer \/ BeginShutdown \/ ForceQuit \/ Exit \/ UNCHANGED vars
  BY <1>2, <1>14 DEF StartServer, BeginShutdown, ForceQuit, Exit, vars, durable
<1>15. QED
  BY <1>1, <1>2, <1>3, <1>4, <1>5, <1>7, <1>8, <1>9, <1>10, <1>11, <1>12, <1>13, <1>14
     DEF Next, ProcessStep, JobStep, MessageAfterDeadline, AgentResult, StreamEnds,
         AgentError, Crash

\* The files of a job reported COMPLETED or TIMEOUT are in output/ as long as
\* input/ has them, wherever crashes came.
THEOREM OutcomesHaveOutput == ASSUME ~DiskFaults PROVE Spec => []OutcomeHasOutput
<1>1. Init => OutcomeHasOutput
  BY DEF Init, OutcomeHasOutput
<1>2. OutcomeHasOutput /\ UNCHANGED vars => OutcomeHasOutput'
  BY DEF OutcomeHasOutput, vars
<1>3. QED
  BY <1>1, <1>2, OutcomeHasOutputStep, ReliableInvariant, PTL DEF Spec

-----------------------------------------------------------------------------
(* The pending limit                                                       *)

PendingOnDisk == {j \in Jobs : disk[j] = "PENDING"}

PendingInv == Cardinality(PendingOnDisk) <= MaxPendingJobs

\* The jobs counted against the limit are those whose file says PENDING.
LEMMA PendingCounted ==
    ASSUME ReliableInv, Up
    PROVE  PendingCount = Cardinality(PendingOnDisk)
<1>1. {j \in Jobs : cache[j] = "PENDING"} = PendingOnDisk
  BY DEF ReliableInv, CacheMirrorsDisk, PendingOnDisk
<1>2. QED BY <1>1 DEF PendingCount

\* Only create_job adds a pending job.
LEMMA PendingShrinks ==
    ASSUME ~DiskFaults, ReliableInv, [Next]_vars
    PROVE  \/ \A j \in Jobs : disk'[j] = "PENDING" => disk[j] = "PENDING"
           \/ \E j \in Jobs : CreateJob(j)
<1> USE DEF ReliableInv, SlotInv, TypeOK
<1> DEFINE Shrinks == \A j \in Jobs : disk'[j] = "PENDING" => disk[j] = "PENDING"
<1>1. CASE UNCHANGED disk
  BY <1>1
<1>2. CASE LoadExistingJobs \/ \E swept, torn \in SUBSET Jobs : CrashWhileLoading(swept, torn)
  BY <1>2 DEF LoadExistingJobs, CrashWhileLoading
<1>3. CASE Crash
  BY <1>3 DEF Crash, CutOff, durable
<1>4. ASSUME NEW j \in Jobs, CreateJobFails(j) PROVE Shrinks
  BY <1>4 DEF CreateJobFails
<1>5. ASSUME NEW j \in Jobs, NEW v \in Outcomes, RecordOutcome(j, v) PROVE Shrinks
  BY <1>5, ReliableOutcome DEF Outcomes
<1>6. ASSUME NEW j \in Jobs, BackgroundStart(j) PROVE Shrinks
  BY <1>5, <1>6 DEF BackgroundStart, StartAndEnter, StartFails, Outcomes
<1>7. ASSUME NEW j \in Jobs, SetupFails(j) \/ Finish(j) PROVE Shrinks
  BY <1>5, <1>7, FinishOutcome DEF SetupFails, Outcomes
<1>8. ASSUME NEW j \in Jobs, Acquire(j) \/ SetupDone(j) \/ Tick(j) \/ AgentWrites(j)
                             \/ CleanupInput(j)
      PROVE  Shrinks
  BY <1>1, <1>8 DEF Acquire, SetupDone, Tick, AgentWrites, CleanupInput, durable
<1>9. ASSUME NEW j \in Jobs, NEW r, LeaveAgentLoop(j, r) PROVE Shrinks
  BY <1>1, <1>9 DEF LeaveAgentLoop, durable
<1>10. CASE StartServer \/ BeginShutdown \/ ForceQuit \/ Exit \/ UNCHANGED vars
  BY <1>1, <1>10 DEF StartServer, BeginShutdown, ForceQuit, Exit, vars, durable
<1>11. QED
  BY <1>2, <1>3, <1>4, <1>6, <1>7, <1>8, <1>9, <1>10
     DEF Next, ProcessStep, JobStep, MessageAfterDeadline, AgentResult, StreamEnds,
         AgentError

\* No step takes the pending count beyond its limit: only create_job adds to
\* it, and looks first.
LEMMA PendingStep ==
    ASSUME ~DiskFaults
    PROVE  ReliableInv /\ PendingInv /\ [Next]_vars => PendingInv'
<1> SUFFICES ASSUME ReliableInv, PendingInv, [Next]_vars PROVE PendingInv'
  OBVIOUS
<1> PendingOnDisk \in SUBSET Jobs /\ PendingOnDisk' \in SUBSET Jobs
  BY DEF PendingOnDisk
<1>1. CASE \A j \in Jobs : disk'[j] = "PENDING" => disk[j] = "PENDING"
  <2>1. PendingOnDisk' \in SUBSET PendingOnDisk
    BY <1>1 DEF PendingOnDisk
  <2>2. Cardinality(PendingOnDisk') <= Cardinality(PendingOnDisk)
    BY <2>1, JobSetsFinite, FS_Subset
  <2>3. QED BY <2>2, JobSetsFinite, LimitsAssumption DEF PendingInv
<1>2. ASSUME NEW j \in Jobs, CreateJob(j) PROVE PendingInv'
  <2>1. PendingOnDisk' = PendingOnDisk \cup {j} /\ j \notin PendingOnDisk
    BY <1>2 DEF CreateJob, PendingOnDisk, ReliableInv, SlotInv, TypeOK
  <2>2. Cardinality(PendingOnDisk') = Cardinality(PendingOnDisk) + 1
    BY <2>1, HolderAdded
  <2>3. Cardinality(PendingOnDisk) < MaxPendingJobs
    BY <1>2, PendingCounted DEF CreateJob, Up
  <2>4. QED BY <2>2, <2>3, JobSetsFinite, LimitsAssumption DEF PendingInv
<1>3. QED BY <1>1, <1>2, PendingShrinks

\* The pending limit holds across crashes and restarts.
THEOREM PendingNeverExceeds == ASSUME ~DiskFaults PROVE Spec => []PendingBounded
<1>1. Init => PendingInv
  <2>1. Init => PendingOnDisk = {}
    BY DEF Init, PendingOnDisk
  <2>2. QED BY <2>1, FS_EmptySet, LimitsAssumption DEF PendingInv
<1>2. PendingInv /\ UNCHANGED vars => PendingInv'
  BY DEF PendingInv, PendingOnDisk, vars
<1>3. ReliableInv /\ PendingInv => PendingBounded
  <2> SUFFICES ASSUME ReliableInv, PendingInv PROVE PendingBounded
    OBVIOUS
  <2>1. CASE Up
    BY <2>1, PendingCounted DEF PendingInv, PendingBounded
  <2>2. CASE ~Up
    <3>1. {j \in Jobs : cache[j] = "PENDING"} = {}
      BY <2>2 DEF ReliableInv, SlotInv, TypeOK, TaskMatchesRecord, Up
    <3>2. QED BY <3>1, FS_EmptySet, LimitsAssumption DEF PendingBounded, PendingCount
  <2>3. QED BY <2>1, <2>2
<1>4. QED
  BY <1>1, <1>2, <1>3, PendingStep, ReliableInvariant, PTL DEF Spec

-----------------------------------------------------------------------------
(* JobServer implements JobLifecycle                                       *)

DiskAnswer(d) == IF d \in Statuses THEN d ELSE IF d = "torn" THEN "LOST" ELSE "none"

DiskAnswers == [j \in Jobs |-> DiskAnswer(disk[j])]
ToldFromDisk == LifecycleStatus = DiskAnswers

\* With reliable writes a client is always told what the file says.
LEMMA AnswerIsDisk == ReliableInv => ToldFromDisk
<1>1. ASSUME ReliableInv, NEW j \in Jobs PROVE Answer(j) = DiskAnswer(disk[j])
  BY <1>1 DEF ReliableInv, SlotInv, TypeOK, TaskMatchesRecord, CacheMirrorsDisk, Up,
         Answer, DiskAnswer, OnDisk, Statuses, Outcomes
<1>2. QED BY <1>1 DEF LifecycleStatus, DiskAnswers, ToldFromDisk

\* The same after a step.
LEMMA NextAnswerIsDisk == ReliableInv' => ToldFromDisk'
BY AnswerIsDisk, PTL

\* One file changes: the answer of one job changes.
LEMMA OneAnswer ==
    ASSUME ReliableInv, ReliableInv', NEW j \in Jobs, NEW d,
           disk' = [disk EXCEPT ![j] = d]
    PROVE  /\ LifecycleStatus' = [LifecycleStatus EXCEPT ![j] = DiskAnswer(d)]
           /\ LifecycleStatus[j] = DiskAnswer(disk[j])
<1>1. /\ LifecycleStatus = [k \in Jobs |-> DiskAnswer(disk[k])]
      /\ LifecycleStatus' = [k \in Jobs |-> DiskAnswer(disk'[k])]
  BY AnswerIsDisk, NextAnswerIsDisk DEF ToldFromDisk, DiskAnswers, DiskAnswer
<1>2. \A k \in Jobs : disk'[k] = IF k = j THEN d ELSE disk[k]
  BY DEF ReliableInv, SlotInv, TypeOK
<1>3. QED BY <1>1, <1>2

\* No job is known at first, as in JobLifecycle.
LEMMA LifecycleInit == ASSUME Init PROVE Lifecycle!Init
BY DEF Init, Lifecycle!Init, LifecycleStatus, Answer, Statuses, Outcomes

\* What a crash or the following start-up changes of the files.
Interrupted(failed, lost) ==
    /\ \A j \in failed : disk[j] = "RUNNING"
    /\ \A j \in lost : disk[j] \in {"PENDING", "RUNNING"}
    /\ \A j, k \in lost : j = k
    /\ \A j \in Jobs : disk'[j] = IF j \in lost THEN "torn"
                                  ELSE IF j \in failed THEN "FAILED"
                                  ELSE disk[j]

\* Every step of the server is a step of the life cycle or changes no answer.
LEMMA LifecycleStep ==
    ASSUME ~DiskFaults, ReliableInv, ReliableInv', [Next]_vars
    PROVE  [Lifecycle!Next]_LifecycleStatus
<1> DEFINE Goal == [Lifecycle!Next]_LifecycleStatus
<1> USE DEF DiskAnswer, Statuses, Outcomes
<1>1. CASE UNCHANGED disk
  <2>1. LifecycleStatus' = LifecycleStatus
    BY <1>1, AnswerIsDisk, NextAnswerIsDisk DEF ToldFromDisk, DiskAnswers, DiskAnswer
  <2>2. QED BY <2>1
<1>2. ASSUME NEW j \in Jobs, disk[j] = "none", disk' = [disk EXCEPT ![j] = "PENDING"]
      PROVE  Goal
  <2>1. Lifecycle!Submit(j)
    BY <1>2, OneAnswer DEF Lifecycle!Submit
  <2>2. QED BY <2>1 DEF Lifecycle!Next
<1>3. ASSUME NEW j \in Jobs, disk[j] = "none", disk' = [disk EXCEPT ![j] = "dir"]
      PROVE  Goal
  <2>1. \A k \in Jobs : DiskAnswer(disk'[k]) = DiskAnswer(disk[k])
    BY <1>3 DEF ReliableInv, SlotInv, TypeOK
  <2>2. DiskAnswers' = DiskAnswers
    BY <2>1 DEF DiskAnswers, DiskAnswer
  <2>3. LifecycleStatus' = LifecycleStatus
    BY <2>2, AnswerIsDisk, NextAnswerIsDisk DEF ToldFromDisk
  <2>4. QED BY <2>3
<1>4. ASSUME NEW j \in Jobs, disk[j] = "PENDING", NEW d \in {"RUNNING", "FAILED"},
             disk' = [disk EXCEPT ![j] = d]
      PROVE  Goal
  <2>1. Lifecycle!Start(j) \/ Lifecycle!Refuse(j)
    BY <1>4, OneAnswer DEF Lifecycle!Start, Lifecycle!Refuse
  <2>2. QED BY <2>1 DEF Lifecycle!Next
<1>5. ASSUME NEW j \in Jobs, disk[j] = "RUNNING", NEW v \in Outcomes,
             disk' = [disk EXCEPT ![j] = v]
      PROVE  Goal
  <2>1. Lifecycle!Finish(j)
    BY <1>5, OneAnswer DEF Lifecycle!Finish, Lifecycle!Outcomes
  <2>2. QED BY <2>1 DEF Lifecycle!Next
<1>6. ASSUME NEW failed \in SUBSET Jobs, NEW lost \in SUBSET Jobs,
             Interrupted(failed, lost)
      PROVE  Goal
  <2>1. /\ LifecycleStatus = [k \in Jobs |-> DiskAnswer(disk[k])]
        /\ LifecycleStatus' = [k \in Jobs |-> DiskAnswer(disk'[k])]
    BY AnswerIsDisk, NextAnswerIsDisk DEF ToldFromDisk, DiskAnswers, DiskAnswer
  <2>2. Lifecycle!Interrupt(failed, lost)
    BY <1>6, <2>1 DEF Lifecycle!Interrupt, Interrupted
  <2>3. QED BY <2>2 DEF Lifecycle!Next
<1> USE DEF ReliableInv, SlotInv
<1>7. CASE LoadExistingJobs
  <2>1. disk' = [j \in Jobs |-> IF j \in WasRunning THEN "FAILED" ELSE disk[j]]
    BY <1>7 DEF LoadExistingJobs
  <2>2. Interrupted(WasRunning, {}) /\ WasRunning \in SUBSET Jobs
    BY <2>1 DEF WasRunning, Interrupted
  <2>3. QED BY <1>6, <2>2
<1>8. ASSUME NEW swept \in SUBSET Jobs, NEW torn \in SUBSET Jobs,
             CrashWhileLoading(swept, torn)
      PROVE  Goal
  <2>1. Interrupted(swept, torn)
    BY <1>8 DEF CrashWhileLoading, WasRunning, Interrupted
  <2>2. QED BY <1>6, <2>1
<1>9. ASSUME NEW j \in Jobs, disk[j] \in {"PENDING", "RUNNING"},
             disk' = [disk EXCEPT ![j] = "torn"]
      PROVE  Goal
  <2>1. Interrupted({}, {j})
    BY <1>9 DEF TypeOK, Interrupted
  <2>2. QED BY <1>6, <2>1
<1>10. CASE Crash
  <2>1. ASSUME NEW j \in Jobs, CutOff(j) PROVE Goal
    <3>1. task[j] # "none" => disk[j] \in {"PENDING", "RUNNING"}
      BY LiveTaskRecord
    <3>2. QED BY <1>1, <1>3, <1>9, <2>1, <3>1 DEF CutOff
  <2>2. QED BY <1>1, <1>10, <2>1 DEF Crash, durable
<1>11. ASSUME NEW j \in Jobs, CreateJob(j) \/ CreateJobFails(j) PROVE Goal
  BY <1>2, <1>3, <1>11 DEF CreateJob, CreateJobFails
<1>12. ASSUME NEW j \in Jobs, BackgroundStart(j) PROVE Goal
  <2>1. disk[j] = "PENDING"
    BY <1>12 DEF BackgroundStart, TaskMatchesRecord
  <2>2. CASE StartAndEnter(j)
    BY <1>4, <2>1, <2>2 DEF StartAndEnter
  <2>3. CASE StartFails(j)
    BY <1>4, <2>1, <2>3, ReliableOutcome DEF StartFails
  <2>4. QED BY <1>12, <2>2, <2>3 DEF BackgroundStart
<1>13. ASSUME NEW j \in Jobs, SetupFails(j) \/ Finish(j) PROVE Goal
  <2>1. disk[j] = "RUNNING"
    BY <1>13 DEF SetupFails, Finish, TaskMatchesRecord, Started, HoldsSlot
  <2>2. CASE SetupFails(j)
    BY <1>5, <2>1, <2>2, ReliableOutcome DEF SetupFails
  <2>3. CASE Finish(j)
    <3>1. OutcomeOf(result[j]) \in Outcomes /\ RecordOutcome(j, OutcomeOf(result[j]))
      BY <2>3, FinishOutcome
    <3>2. disk' = [disk EXCEPT ![j] = OutcomeOf(result[j])]
      BY <3>1, ReliableOutcome
    <3>3. QED BY <1>5, <2>1, <3>1, <3>2
  <2>4. QED BY <1>13, <2>2, <2>3
<1>14. ASSUME NEW j \in Jobs, Acquire(j) \/ SetupDone(j) \/ Tick(j) \/ AgentWrites(j)
                              \/ CleanupInput(j)
       PROVE  Goal
  BY <1>1, <1>14 DEF Acquire, SetupDone, Tick, AgentWrites, CleanupInput, durable
<1>15. ASSUME NEW j \in Jobs, NEW r, LeaveAgentLoop(j, r) PROVE Goal
  BY <1>1, <1>15 DEF LeaveAgentLoop, durable
<1>16. CASE StartServer \/ BeginShutdown \/ ForceQuit \/ Exit \/ UNCHANGED vars
  BY <1>1, <1>16 DEF StartServer, BeginShutdown, ForceQuit, Exit, vars, durable
<1>17. QED
  BY <1>7, <1>8, <1>10, <1>11, <1>12, <1>13, <1>14, <1>15, <1>16
     DEF Next, ProcessStep, JobStep, MessageAfterDeadline, AgentResult, StreamEnds,
         AgentError

\* The server implements the job life cycle: an outcome is final across every
\* crash, shutdown and restart, a job starts at most once, and a crash loses
\* at most one record.
THEOREM ServerImplementsLifecycle == ASSUME ~DiskFaults PROVE Spec => ImplementsLifecycle
<1>1. Init => Lifecycle!Init
  BY LifecycleInit
<1>2. ReliableInv /\ ReliableInv' /\ [Next]_vars => [Lifecycle!Next]_LifecycleStatus
  BY LifecycleStep
<1>3. QED
  BY <1>1, <1>2, ReliableInvariant, PTL DEF Spec, ImplementsLifecycle, Lifecycle!Spec

-----------------------------------------------------------------------------
(* What happens to jobs that no task executes                              *)

\* The record of a job without a task changes when create_job makes it or,
\* if it says RUNNING, when the server starts; even when writes may fail.
LEMMA IdleRecordKept ==
    ASSUME SlotInv, [Next]_vars, NEW k \in Jobs, task[k] = "none",
           disk[k] \notin {"none", "RUNNING"}
    PROVE  disk'[k] = disk[k] /\ task'[k] = "none"
<1> DEFINE Kept == disk'[k] = disk[k] /\ task'[k] = "none"
<1> USE DEF SlotInv, TypeOK
<1>1. CASE UNCHANGED disk /\ (task' = task \/ task' = NoTasks)
  BY <1>1 DEF NoTasks
<1>2. ASSUME NEW j \in Jobs, NEW d, NEW st, j # k,
             disk' = [disk EXCEPT ![j] = d] \/ UNCHANGED disk,
             task' = [task EXCEPT ![j] = st] \/ task' = task \/ task' = NoTasks
      PROVE  Kept
  BY <1>2 DEF NoTasks
<1>3. CASE LoadExistingJobs
  BY <1>3 DEF LoadExistingJobs, WasRunning
<1>4. ASSUME NEW swept, NEW torn, CrashWhileLoading(swept, torn) PROVE Kept
  BY <1>4 DEF CrashWhileLoading, ProcessDies, ForgetMemory, NoTasks, WasRunning
<1>5. CASE Crash
  <2>1. ASSUME NEW j \in Jobs, CutOff(j) PROVE disk'[k] = disk[k]
    BY <2>1 DEF CutOff
  <2>2. QED BY <1>5, <2>1 DEF Crash, ProcessDies, ForgetMemory, NoTasks, durable
<1>6. ASSUME NEW j \in Jobs, CreateJob(j) \/ CreateJobFails(j) PROVE Kept
  BY <1>2, <1>6 DEF CreateJob, CreateJobFails, memory
<1>7. ASSUME NEW j \in Jobs, NEW v, RecordOutcome(j, v), task[j] # "none",
             task' = [task EXCEPT ![j] = "none"]
      PROVE  Kept
  BY <1>2, <1>7 DEF RecordOutcome
<1>8. ASSUME NEW j \in Jobs, BackgroundStart(j) PROVE Kept
  BY <1>2, <1>7, <1>8 DEF BackgroundStart, StartAndEnter, StartFails
<1>9. ASSUME NEW j \in Jobs, SetupFails(j) \/ Finish(j) PROVE Kept
  BY <1>7, <1>9 DEF SetupFails, Finish
<1>10. ASSUME NEW j \in Jobs, Acquire(j) \/ SetupDone(j) PROVE Kept
  <2>1. task[j] # "none"
    BY <1>10, QueueShrinks DEF Acquire, SetupDone, HoldsSlot
  <2>2. QED BY <1>2, <1>10, <2>1 DEF Acquire, SetupDone, durable
<1>11. ASSUME NEW j \in Jobs, Tick(j) \/ AgentWrites(j) \/ CleanupInput(j) PROVE Kept
  BY <1>1, <1>11 DEF Tick, AgentWrites, CleanupInput, durable, memory
<1>12. ASSUME NEW j \in Jobs, NEW r, LeaveAgentLoop(j, r) PROVE Kept
  BY <1>2, <1>12 DEF LeaveAgentLoop, durable
<1>13. CASE ForceQuit
  BY <1>13 DEF ForceQuit, durable
<1>14. CASE StartServer \/ BeginShutdown \/ Exit \/ UNCHANGED vars
  BY <1>1, <1>14 DEF StartServer, BeginShutdown, Exit, ForgetMemory, vars, durable, memory
<1>15. QED
  BY <1>3, <1>4, <1>5, <1>6, <1>8, <1>9, <1>10, <1>11, <1>12, <1>13, <1>14
     DEF Next, ProcessStep, JobStep, MessageAfterDeadline, AgentResult, StreamEnds,
         AgentError

\* A job that waits on disk and that no task will start: every job that was
\* PENDING when the process went down.
Stranded(j) == disk[j] = "PENDING" /\ task[j] = "none"

\* The finding of jobserver_pending_restart, for every deployment: a job that
\* is PENDING when the process goes down stays so in every continuation,
\* through any restarts, and never runs, fails or is cleaned up.
THEOREM StrandedJobsNeverStart ==
    Spec => [](\A j \in Jobs : Stranded(j) => []Stranded(j))
<1>1. ASSUME NEW j \in Jobs PROVE Spec => [](Stranded(j) => []Stranded(j))
  <2>1. SlotInv /\ Stranded(j) /\ [Next]_vars => Stranded(j)'
    BY IdleRecordKept DEF Stranded
  <2>2. QED BY <2>1, SlotInvariant, PTL DEF Spec
<1>2. QED BY <1>1

\* A finished job has no entry in memory, so that clients are told what its
\* file says.
FinishedIsForgotten == \A j \in Jobs : disk[j] \in Outcomes => cache[j] = "none"

\* Recording an outcome leaves an entry only where the file has none.
LEMMA ForgottenStep ==
    SlotInv /\ FinishedIsForgotten /\ [Next]_vars => FinishedIsForgotten'
<1> SUFFICES ASSUME SlotInv, FinishedIsForgotten, [Next]_vars
             PROVE  FinishedIsForgotten'
  OBVIOUS
<1> USE DEF SlotInv, TypeOK, FinishedIsForgotten, Outcomes
<1>1. CASE UNCHANGED disk /\ (UNCHANGED cache \/ cache' = [j \in Jobs |-> "none"])
  BY <1>1
<1>2. CASE LoadExistingJobs
  BY <1>2 DEF LoadExistingJobs, WasRunning
<1>3. CASE ProcessDies
  BY <1>3 DEF ProcessDies, ForgetMemory
<1>4. ASSUME NEW j \in Jobs, CreateJob(j) PROVE FinishedIsForgotten'
  BY <1>4 DEF CreateJob
<1>5. ASSUME NEW j \in Jobs, CreateJobFails(j) PROVE FinishedIsForgotten'
  BY <1>5 DEF CreateJobFails, memory
<1>6. ASSUME NEW j \in Jobs, NEW v \in Outcomes, RecordOutcome(j, v), task[j] # "none"
      PROVE  FinishedIsForgotten'
  <2>1. disk[j] \notin Outcomes
    BY <1>6, LiveTaskRecord
  <2>2. PICK o \in OutcomeWrites(j, v) :
          /\ disk' = [disk EXCEPT ![j] = o.file]
          /\ cache' = [cache EXCEPT ![j] = o.entry]
    BY <1>6 DEF RecordOutcome
  <2>3. o.file \in Outcomes => o.entry = "none"
    BY <2>1, <2>2 DEF OutcomeWrites, AfterFailedWrite
  <2>4. QED BY <2>2, <2>3
<1>7. ASSUME NEW j \in Jobs, BackgroundStart(j) PROVE FinishedIsForgotten'
  BY <1>6, <1>7 DEF BackgroundStart, StartAndEnter, StartFails
<1>8. ASSUME NEW j \in Jobs, SetupFails(j) \/ Finish(j) PROVE FinishedIsForgotten'
  BY <1>6, <1>8, FinishOutcome DEF SetupFails, Finish
<1>9. ASSUME NEW j \in Jobs, Acquire(j) \/ SetupDone(j) \/ Tick(j) \/ AgentWrites(j)
                             \/ CleanupInput(j)
      PROVE  FinishedIsForgotten'
  BY <1>1, <1>9 DEF Acquire, SetupDone, Tick, AgentWrites, CleanupInput, durable, memory
<1>10. ASSUME NEW j \in Jobs, NEW r, LeaveAgentLoop(j, r) PROVE FinishedIsForgotten'
  BY <1>1, <1>10 DEF LeaveAgentLoop, durable
<1>11. CASE StartServer \/ BeginShutdown \/ ForceQuit \/ Exit \/ UNCHANGED vars
  BY <1>1, <1>11 DEF StartServer, BeginShutdown, ForceQuit, Exit, ForgetMemory, vars,
                     durable, memory
<1>12. QED
  BY <1>2, <1>3, <1>4, <1>5, <1>7, <1>8, <1>9, <1>10, <1>11
     DEF Next, ProcessStep, JobStep, MessageAfterDeadline, AgentResult, StreamEnds,
         AgentError, Crash, CrashWhileLoading

\* Even when status files cannot be written, an outcome that reached its file
\* is what clients are told, and no later step, crash or start changes it.
KeepsOutcomes ==
    \A j \in Jobs : disk[j] \in Outcomes =>
        /\ disk'[j] = disk[j]
        /\ Answer(j) = disk[j]
        /\ Answer(j)' = disk[j]

\* In every deployment nothing that runs later writes the status file of a
\* decided job, neither its task nor another nor load_existing_jobs.
THEOREM OutcomesAreFinal == Spec => [][KeepsOutcomes]_vars
<1>1. Init => FinishedIsForgotten
  BY DEF Init, FinishedIsForgotten, Outcomes
<1>2. SlotInv /\ FinishedIsForgotten =>
        \A j \in Jobs : disk[j] \in Outcomes => Answer(j) = disk[j] /\ task[j] = "none"
  BY LiveTaskRecord DEF SlotInv, FinishedIsForgotten, Answer, Outcomes, Statuses
<1>3. SlotInv' /\ FinishedIsForgotten' =>
        \A j \in Jobs : disk'[j] \in Outcomes => Answer(j)' = disk'[j]
  BY DEF FinishedIsForgotten, Answer, Outcomes, Statuses
<1>4. SlotInv /\ FinishedIsForgotten /\ SlotInv' /\ FinishedIsForgotten' /\ [Next]_vars =>
        KeepsOutcomes
  BY <1>2, <1>3, IdleRecordKept DEF KeepsOutcomes, Outcomes
<1>5. QED
  BY <1>1, <1>4, ForgottenStep, SlotInvariant, PTL DEF Spec

\* The jobs that nobody will start fill the pending limit.
StrandedJobs == {j \in Jobs : Stranded(j)}
Exhausted == Cardinality(StrandedJobs) >= MaxPendingJobs

\* A stranded job stays one of the jobs that count.
LEMMA ExhaustedStep == SlotInv /\ Exhausted /\ [Next]_vars => Exhausted'
<1> SUFFICES ASSUME SlotInv, Exhausted, [Next]_vars PROVE Exhausted'
  OBVIOUS
<1>1. StrandedJobs \subseteq StrandedJobs'
  BY IdleRecordKept DEF StrandedJobs, Stranded
<1>2. StrandedJobs' \in SUBSET Jobs /\ StrandedJobs \in SUBSET Jobs
  BY DEF StrandedJobs
<1>3. Cardinality(StrandedJobs) <= Cardinality(StrandedJobs')
  BY <1>1, <1>2, JobSetsFinite, FS_Subset
<1>4. QED BY <1>2, <1>3, JobSetsFinite, LimitsAssumption DEF Exhausted

\* When the stranded jobs fill the pending limit, create_job refuses.
LEMMA ExhaustedRefuses ==
    ASSUME ReliableInv, Exhausted, NEW j \in Jobs
    PROVE  ~CreateJob(j)
<1> SUFFICES ASSUME CreateJob(j) PROVE FALSE
  OBVIOUS
<1>1. PendingCount = Cardinality(PendingOnDisk)
  BY PendingCounted DEF CreateJob, Up
<1>2. StrandedJobs \in SUBSET PendingOnDisk /\ PendingOnDisk \in SUBSET Jobs
  BY DEF StrandedJobs, Stranded, PendingOnDisk
<1>3. Cardinality(StrandedJobs) <= Cardinality(PendingOnDisk)
  BY <1>2, JobSetsFinite, FS_Subset
<1>4. PendingCount < MaxPendingJobs
  BY DEF CreateJob
<1>5. StrandedJobs \in SUBSET Jobs
  BY DEF StrandedJobs
<1>6. QED
  BY <1>1, <1>2, <1>3, <1>4, <1>5, JobSetsFinite, LimitsAssumption DEF Exhausted

\* Where the finding leads: once the jobs that restarts left PENDING fill the
\* pending limit, the server accepts no job any more, however often it is
\* restarted.
THEOREM ExhaustedServerAcceptsNoJob ==
    ASSUME ~DiskFaults
    PROVE  Spec => [](Exhausted => [][\A j \in Jobs : ~CreateJob(j)]_vars)
<1>1. ReliableInv /\ Exhausted => \A j \in Jobs : ~CreateJob(j)
  BY ExhaustedRefuses
<1>2. QED
  BY <1>1, ExhaustedStep, SlotInvariant, ReliableInvariant, PTL DEF Spec

\* A client that polls a job sees its status advance and never go back,
\* whatever crashes and restarts come between the polls.
Advances(j) ==
    \/ Answer(j)' = Answer(j)
    \/ Answer(j) = "none" /\ Answer(j)' = "PENDING"
    \/ Answer(j) = "PENDING" /\ Answer(j)' \in {"RUNNING", "FAILED", "LOST"}
    \/ Answer(j) = "RUNNING" /\ Answer(j)' \in Outcomes \cup {"LOST"}

\* Two jobs do not lose their records in one step: a crash cuts off at most
\* the one file that was being written.
LosesOneAtMost ==
    \A j, k \in Jobs :
        /\ Answer(j) # "LOST" /\ Answer(j)' = "LOST"
        /\ Answer(k) # "LOST" /\ Answer(k)' = "LOST"
        => j = k

\* The life cycle lets a status only advance, and lose one record at a time.
LEMMA LifecycleAdvances ==
    [Lifecycle!Next]_LifecycleStatus => (\A j \in Jobs : Advances(j)) /\ LosesOneAtMost
<1> SUFFICES ASSUME [Lifecycle!Next]_LifecycleStatus
             PROVE  (\A j \in Jobs : Advances(j)) /\ LosesOneAtMost
  OBVIOUS
<1>1. \A j \in Jobs : LifecycleStatus[j] = Answer(j) /\ LifecycleStatus'[j] = Answer(j)'
  BY DEF LifecycleStatus
<1>2. LifecycleStatus = [k \in Jobs |-> LifecycleStatus[k]]
  BY DEF LifecycleStatus
<1>3. CASE UNCHANGED LifecycleStatus
  BY <1>1, <1>3 DEF Advances, LosesOneAtMost
<1> HIDE DEF LifecycleStatus
<1>4. ASSUME NEW k \in Jobs, Lifecycle!Submit(k) \/ Lifecycle!Start(k)
                             \/ Lifecycle!Refuse(k) \/ Lifecycle!Finish(k)
      PROVE  (\A j \in Jobs : Advances(j)) /\ LosesOneAtMost
  BY <1>1, <1>2, <1>4 DEF Lifecycle!Submit, Lifecycle!Start, Lifecycle!Refuse,
     Lifecycle!Finish, Lifecycle!Outcomes, Outcomes, Advances, LosesOneAtMost
<1>5. ASSUME NEW failed \in SUBSET Jobs, NEW lost \in SUBSET Jobs,
             Lifecycle!Interrupt(failed, lost)
      PROVE  (\A j \in Jobs : Advances(j)) /\ LosesOneAtMost
  BY <1>1, <1>2, <1>5 DEF Lifecycle!Interrupt, Outcomes, Advances, LosesOneAtMost
<1>6. QED BY <1>3, <1>4, <1>5 DEF Lifecycle!Next

\* What ServerImplementsLifecycle means to a client: the answers about a job
\* only advance and an outcome is the last of them, and a crash, wherever it
\* comes, costs the record of one job at most.
THEOREM AnswersOnlyAdvance ==
    ASSUME ~DiskFaults
    PROVE  Spec => [][(\A j \in Jobs : Advances(j)) /\ LosesOneAtMost]_vars
<1>1. ReliableInv /\ ReliableInv' /\ [Next]_vars =>
        (\A j \in Jobs : Advances(j)) /\ LosesOneAtMost
  BY LifecycleStep, LifecycleAdvances
<1>2. QED BY <1>1, ReliableInvariant, PTL DEF Spec
=============================================================================
