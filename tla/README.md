# Verification of the Claude Code API server

TLA+ modules, TLC runs and TLAPS proofs about the server in `src/src` (a FastAPI
application that runs Claude agent jobs) and its command-line clients in `src/cli`.
Every definition is translated from the code at the lines `PROJECT.json` gives for it.

## 1. The system

One process, one asyncio event loop. A handler runs without a break between two
awaits that really suspend; blocking calls moved with `asyncio.to_thread` and waits for
sockets, the semaphore or the agent are the only points where handlers interleave.
Everything durable is in files under one data directory, written in place
(`write_text`) and without `fsync`, so a crash can cut a file off.

| Component | State | Operations | Talks to |
|---|---|---|---|
| Job service: `job_manager.py`, `main.execute_job_background`, `claude_runner.run` | `_active_jobs` (memory), `jobs/ID/status.json`, `input/`, `output/`, semaphore | create, mark running, outcomes, load at start-up, answer, collect output | uploads, runner, cleanup |
| Job set-up: `claude_runner._execute`, `security.py` | per-job proxy, wrapper script, agent options | resolve profile, reload MCP servers, start proxy, create wrapper, run agent, tear down | profiles, MCP, proxy, sandbox |
| Uploads: `upload_handler.py` | `uploads/ID/archive.zip`, `meta.json` | save, get, extract, delete, expire | job service, cleanup |
| Cleanup: `cleanup.py` | a timer | remove job inputs, remove expired uploads | job files, uploads |
| Accounts: `auth.py`, `admin_router.py` 232-519, bootstrap in `main.py` | clients in memory and `clients.json` | authenticate, create, update role and profile, delete, activate, deactivate, bootstrap | profiles |
| Profiles: `security_profiles.py`, `admin_router.py` 527-770 | profiles in memory and `profiles.json`, default | create, update, delete, set default | accounts, job set-up |
| MCP servers: `mcp_manager.py`, `mcp_installer.py`, `mcp_loader.py`, `admin_router.py` 785-1024 | `servers.json`, installed packages, one manager per request | add, install, remove, health check | job set-up |
| Subagents: `agent_manager.py` | `agents.json`, prompt files, plugin copies | add, update, remove, list, sync at start-up | job creation, agents |
| Skills: `skill_manager.py`, `skill_zip_handler.py` | `skills.json`, skill directories, `.tmp-*`, `.old-*` | add, update, remove, clean up at start-up | agents |
| Network proxy: `sandbox_proxy.py` | one listening socket per job, connections | evaluate policy, CONNECT, plain HTTP, relay, start, stop | job set-up, upstream proxy |
| Sandbox: `sandbox.py`, `sandbox_seccomp.py` | wrapper scripts | detect, create, clean up | job set-up |
| CLI: `cli/job`, `cli/admin` | none, config files | submit, poll, fetch; compare and push skills and agents | the HTTP API |

### What is hard here

- a job is marked RUNNING before it waits for a semaphore slot;
- crashes and restarts: unfinished jobs, cut-off status files, directories half created;
- status files that cannot be written while the cached object was already changed;
- shutdown by one signal (wait for background tasks) and by two (cancel everything);
- a deadline that is looked at only when the agent sends a message;
- cleanup that decides from files alone, beside agents working in the directories;
- objects and registries read before an await and used after it (profiles, MCP, skills);
- several files that must change together (agents, skills, packages) with no journal;
- guards on administrators and defaults spread over several handlers.

`PROJECT.json` lists each of these at its line under `hazards`, with the properties
that cover it or the reason none does yet.

## 2. What correctness means, part by part

| Part | Properties | Where |
|---|---|---|
| Job service | slots never leak and are granted in the order jobs were marked running, to newcomers too; a job reported RUNNING is executed; memory mirrors disk; an outcome is final and has its output files; cleanup spares live jobs; running jobs end; inputs are removed in the end | `JobServer`, `JobOrder`, `JobLifecycle` |
| Uploads, job intake | a job has exactly the archives of its request, its client's own, and shares none; an accepted archive is lost only to its own client or its expiry; every upload directory is removed in the end | `JobIntake` |
| Job client | the wait for a job ends and its exit code is true | `JobClient` |
| Job set-up, sandbox | a restricted agent runs behind its own proxy in a sandbox or not at all; nothing outlives the job; what the agent is given comes from one profile; it sees its own files only | `JobSetup` |
| Network proxy | a connection is relayed only to a host the policy admits, by the documented meaning of its patterns but for one case (section 5); connections end with the agent | `SandboxProxy` |
| Accounts, profiles | an administrator remains; a key is issued once, suspended, resumed, and revoked for good; the key index is exact; assigned and default profiles exist | `Accounts`, `KeyRegistry` |
| MCP registry | while requests do not overlap, what was answered is kept until a save fails halfway, a request changes only its server, and an installed server has its package; however they overlap, only a failed or cut-off save tears the file, and requests end | `McpRegistry`, `ServerCatalog` |
| Subagents | prompts are durable; a start repairs the copies; prompts, copies and metadata agree | `AgentStore` |
| Skills | an installed skill survives what fails or overlaps, but for a crash between the two renames of an update (section 5); a start sweeps leftovers | `SkillStore` |
| Skill push | a status of SYNCED is true; a push of what is new replaces nothing | `AdminSync` |

## 3. Modules

`JobLifecycle` is the abstract specification of a job as a client sees it: submitted
once, started at most once, one outcome, outcomes are final; a crash fails running jobs
and may lose the one record that was being written.

`JobServer` is the job service. `cache` is `JobManager._active_jobs`, `disk` the
`status.json` files, `input` and `output` the job's directories; `task` says where
`execute_job_background` is (added to the background tasks, waiting for the semaphore,
set-up, agent loop, closing), `queue` and `slots` are the asyncio semaphore. Each action
is a stretch of code between two awaits that suspend: `CreateJob`, `BackgroundStart`
(mark_running and the semaphore), `Acquire`, `SetupDone`, the messages of the agent and
its deadline, `Finish` (collect outputs, record the outcome, release the slot),
`CleanupInput`, start, stop, forced stop, and `Crash`, which enumerates what the
interrupted stretch can have left on disk. `Answer` is what `GET /v1/jobs/{id}`
returns; the refinement maps it to `JobLifecycle!status`.

`JobOrder` adds a history variable to it: `ahead[j]` are the jobs that waited for a slot
when `j` was marked running. `FirstComeFirstServed` says that none of them still waits when
`j` has a slot, whether `j` waited too or came when a slot had just been released.

`JobIntake` is the way from an archive to the input of a job: `save_upload`, the
extraction and deletion of archives one by one in `create_job`, and the sweep of
`cleanup_expired`. `files[u]` is what is in an upload's directory (nothing, no `meta.json`,
a cut-off one, archive and `meta.json`, `meta.json` alone), `op` the operation that uses the
files: each runs without an await, so there is one at a time, but each step may fail and
the process may die between two. Once a job is registered it goes on as the abstract
`JobLifecycle` (`Lifecycle!Submit`, `Start`, `Finish`, `Interrupt`), which `JobServer` is
shown to implement: that is how the two are composed.

`JobClient` puts the command line `cmd_run` on top of it: `cli.at` is where it is,
`cli.got` the upload ids it collected, `cli.errors` the consecutive errors of
`wait_for_job`, which counts those of `PollFails` only: any exception but `ApiError` ends
the command (`PollBreaks`). Other clients upload and create jobs beside it.

`JobSetup` is `ClaudeRunner._execute` between the slot and the outcome: `PrepareOpen`,
`PrepareIsolated` and `ProxyStarted` (the profile is read, the handler copies its denied
tools, a proxy is started, `Confine` writes the wrapper, `StartAgent` reads tools and MCP
servers; `Refused` is what the handler refuses, `Grants` what the options allow), `AgentEnds` and `Finish` (the finally block), with every failure in between, beside
`UpdateProfile`, which changes the profile object in place. `BwrapMounts` is the list of
mounts in the order of the code, and `Shown` what the last mount covering a path shows.
`settings.suspends` tells the two event loops apart: the start of a Unix server suspends
once more in asyncio's own loop than in uvloop, so the profile can change in the middle
of a set-up only with the former.

`SandboxProxy` is the proxy of a job and its connections: `conn[c].at` is the phase of
the handler (header, lookup, dialling, tunnel through an upstream proxy, relaying),
`open` the ends that are open and `relays` the directions still copied. `FirstCheck`,
`NameAllowed` and `AddressAllowed` are `evaluate_policy` in its order. `JobSetup` extends
this module: its jobs own the proxies, and its agents make the connections.

`Accounts` has both managers with their memory (`clients`, `index`, `profiles`) and
files (`clientsFile`, `profilesFile`, `torn`), since the guards span them. One action per
endpoint (authentication, guard, change and save), plus start-up with or without the
bootstrap, the first request that builds `AuthManager`, stop, and `create_admin.py` while
the server is down. A save may raise or be cut off (`ClientsCutOff`, `ProfilesCutOff`).
`issued` and `known` are history variables about keys. `KeyRegistry` is the abstract
specification of API keys, each new, valid, suspended or revoked; `KeyState` reads the state
of a key off the accounts in memory, or those a start would load.

`McpRegistry` has `servers.json`, the manager each request builds (`copy`), and the
installed packages. `pc` is the await a request is at; installations register their
server from a thread, between `TakeLock` (flock and truncation) and `ServerRegistered`.
A save may raise (`SaveFails`): before it truncates the file, which changes nothing, or
after, which leaves a file that is empty or cannot be parsed. `promised` records what
requests that were answered with success since then should have left, and `overlapped` that two requests were in progress at once. `ServerCatalog` is the abstract
registry that requests implement as long as they do not overlap.

`AgentStore` has a prompt file, its copy in the plugin directory and the metadata entry
per agent; an action per write of a request, since running jobs, failures and crashes see
what lies between, and the synchronisation when the server starts. A prompt, its copy and
the entry's recorded size are represented by the content they stand for.

`SkillStore` has the directories jobs read (`skills`; `Half` and `Stump` are partly
deleted ones), `skills.json` (`registry`) and the hidden directories left behind
(`litter`). A request reads `skills.json` (`Ask`, the copy stays with it), awaits its
archive, and then runs to its end in steps that can fail or be the last before a crash:
`Install` renames a new directory into place, `Backup`, `Swap` and `Sweep` are the two
renames and the removal of an update, `Save` writes the copy. `allowed` is a history: what
the requests so far let a directory be.

`AdminSync` is the push of the administrators' command line to that store: `Compare`
(or `CompareBlind`, when the listing failed), `Look`, `Send`, `Report`. `Status` and
`Pushable` are `_compute_skill_status` and the choice of `cmd_sync_push`.

`MC*` modules give the instances their constants and symmetry sets. Operators marked
`Mutant`, or with a suffix (`StartAgent_LatePolicy`), are plausible bugs; each property
of a passing run is known to fail with the ones `PROJECT.json` names.

## 4. Runs

| Run | Instance, distinct states | What it shows |
|---|---|---|
| `jobserver_safety` | 3 jobs, 1 slot, 2 pending, 2 crashes or stops; 170k | reliable writes: all safety properties, the order of slots, and the refinement of `JobLifecycle` |
| `jobserver_liveness` | 2 jobs, 2 crashes, writes may fail; 79k | task, memory and disk of a live job agree; running jobs end and inputs are removed |
| `jobserver_pending_restart` | 2 jobs, 1 crash | finding: a job PENDING at a restart stays so |
| `intake_safety` | 2 clients, 2 uploads, 2 jobs, 2 files, 3 tries, 1 failure or crash; 321k | inputs are whole and the client's own, archives are kept, directories are removed, the wait ends with a true report |
| `setup_safety` | 2 jobs, 1 connection, 3 profiles, 5 settings, 1 MCP server, 1 profile update; 205k | agents are confined or do not run, one profile, connections follow the policy and end |
| `setup_hidden_agents` | as above | finding: agents without skills are attached and not mounted |
| `accounts_safety` | 3 clients, 3 keys, 1 custom profile, 2 starts, 1 failed save; 75k | existence of profiles, exact index, the refinement of `KeyRegistry`, administrators |
| `accounts_lockout` | as above, no failed save | finding: no active administrator is left |
| `mcp_safety` | 2 names, 2 requests, 1 failed save or crash; 154k | sequential requests implement the catalog; overlapping ones keep the lock and end |
| `mcp_lost_update` | shared packages, nothing fails | finding: a server added meanwhile is lost |
| `agents_safety` | 2 names, 2 contents, 2 failures or crashes; 22k | durability, repair at start-up, agreement |
| `skills_safety` | 2 names that differ in case, 2 contents, 2 requests, 1 failure or crash; 2.6M | skills survive, leftovers are swept, statuses are true, a push of what is new replaces nothing |

Why the bounds are enough. One slot and three jobs give a holder and a line of two, so
order and release matter; two crashes let one hit the recovery from another. Two uploads
for one request are what a half-consumed request needs, and two jobs with a second client
what a shared or stolen archive needs. Two jobs show one that sees the input of another,
three profiles (they differ in denied tools, MCP servers and policy) and one update every
mixture a set-up can get; the five settings differ in
where the data directory lies relative to the emptied ones, the event loop, the fallback
and the upstream proxy; one connection is enough for properties about one, and the names and
addresses make each rule of a policy decide for some host. Two administrators and a third
client reach every guard on the last administrator; two starts reload what the first left.
Two requests are what one stale copy of a registry needs, and a second name shows whether
a request disturbs others. `MaxCrashes`, `MaxRestarts`, `MaxFaults`, `MaxDisturbances`,
`MaxUpdates`, `MaxUploads` and `MaxJobs` are the artificial bounds, and the two archives
`Requests` allows in a request; identifiers come from finite sets because uuid4 and random
keys are never drawn twice. `DiskFaults` is a mode, not a bound. Runs with
`CHECK_DEADLOCK FALSE` stop when these bounds are spent (for `McpRegistry`, also when a
torn file makes every request fail); the command line of `JobClient` stops when it exits.

Fairness.
- `JobServer`: the event loop runs ready tasks and the clock advances (weak fairness of every
  step of a job's task); the service is restarted after a crash, and clients keep asking, so
  `JobManager` is built. Agents are weakly fair only once past their deadline
  (`AgentFairness`): one more message, or the end of the stream.
- `JobIntake`, `JobClient`: the operation that uses the files goes on, the server is started
  again, the cleanup timer fires, uploads grow old, the command line goes on and its
  `--max-wait` passes. Whether a poll is answered is left open: the errors are counted.
- `JobSetup`: the event loop goes on, its timeouts expire, and the sockets of a killed sandbox
  close. Agents need not end, and no far end need send or close. A far end is assumed to
  take what is written to it.
- `McpRegistry`: subprocesses have timeouts and flock is held only while a file is written,
  which each holder finishes; a waiter can be overtaken, hence strong fairness per request.
- `AgentStore`, `SkillStore` and `Accounts` state no liveness: their requests never wait for
  each other.

## 5. Findings

Each of these is a violation run and an entry under `findings` in `PROJECT.json`:
PENDING jobs are not scheduled again after a restart; deactivated administrators count as
administrators; a whole stale copy of the MCP registry is saved; the plugin directory is
hidden from sandboxed jobs when there are agents and no skills.

Three of them are settled for every deployment by theorems (section 6): a job that was PENDING
at a restart never starts (`StrandedJobsNeverStart`), and once such jobs fill the
pending limit the server accepts no job any more (`ExhaustedServerAcceptsNoJob`); the last
active administrator is lost only by demoting itself while inactive ones are counted
(`LockoutHasOneCause`), and nothing but `create_admin.py` helps then (`LockoutIsLasting`);
a sandbox shows the subagents exactly if there is a skill (`PluginHiddenWithoutSkills`).

Also seen in the models, without a run:
- A deadline is looked at only when a message of the agent arrives (`claude_runner.py:843`;
  `docs/architecture.md:291` says started jobs "run to completion or timeout"). `RunningEnds`
  needs `AgentFairness` for that reason.
- An agent whose removal was interrupted and is repeated stays in the plugin directory
  until the next start (`agent_manager.py:656`; `docs/subagents.md:192`). The property
  `UndisturbedPlacesAgree` is therefore stated without disturbances.
- A listing that fails is taken for an empty one, so `push --all` updates diverged skills
  (`cli/admin/sync.py:55`; `docs/usage-examples.md:126`): `push.blind` in `PushSparesDiverged`.
- A proxy stays listening when the sandbox cannot be made and no fallback is allowed
  (`claude_runner.py:583`; `docs/security-model.md:264`): `ListensForAJob`.
- With asyncio's own event loop a job can get the tools of a later profile than its handler
  and policy (`claude_runner.py:606`; `docs/security-model.md:73`): the last conjunct of
  `GrantsComeFromOneProfile`. The image installs uvloop, which does not suspend there.
- The docstring of `_match_domain_pattern` says that `*.github.com` matches its subdomains
  "but NOT `github.com` itself" (`sandbox_proxy.py:303-304`; `docs/configuration.md:39` has
  "wildcard subdomains"). The code matches the base domain (lines 309-311), and a test asserts
  that it does although its name says the opposite
  (`tests/tests/test_12_network_isolation.py:56-57`). `ConnectionsFollowPolicy` takes patterns
  by their documented meaning (`Means`) and names this one exception (`IsBaseOf`), for
  wildcards that allow; the `Strict` policy of `setup_safety` reaches it.
- A save of the MCP servers that fails after it truncated the file, as on a full disk, loses
  every server added before it, without a crash (`mcp_manager.py:201`): `SaveFails`, after
  which `SequentialAnswersHold` speaks only of later answers.
- Between the two renames of an update a crash leaves a skill only as `.old-ID`, which the
  next start deletes (`skill_manager.py:542`).
- A bootstrap that fails after saving leaves an administrator whose key nobody has
  (`BootstrapFails`); `create_admin.py` beside a running server is overwritten by its next
  save; two servers from one package share its removal (`SharePackages`).

## 6. Proofs

Eight modules of theorems hold for every value of the constants, from the named
assumptions of the modules only: finite sets of jobs and clients, positive limits,
distinct "none" values, a profile that has a policy, names that resolve to addresses, and
where the home directory and `data_dir` may lie.
Each proof is the usual one: an inductive invariant, one lemma per action (and per
conjunct the action can disturb), and a last temporal step.

`JobServerProofs`. `TypeOK` is not inductive: that a release keeps the semaphore in its
range needs the accounting of slots, which needs that the job that gets one had none, hence
the exact line and `TaskMatchesRecord`. Their conjunction is proved inductive with failing
writes (`SlotInvariant`), and gives `SemaphoreIsExact`. Adding that memory mirrors disk while
writes are reliable gives `ReportsAlwaysTrue` and the refinement
(`ServerImplementsLifecycle`): each action maps to `Submit`, `Start`, `Refuse`, `Finish`,
`Interrupt` or a stutter of `JobLifecycle`. `LiveJobKeepsInput`, `OutcomeHasOutput`,
`PendingBounded` and `FirstComeFirstServed` have strengthenings of their own; that of the
order of slots (`OrderInv`) says that who was ahead and still waits stands before in the
line, and is past `mark_running`, so that a job served once does not wait again.
`AnswersOnlyAdvance` is what the refinement means to a client that polls. Two facts hold with
failing writes too: the record of a job without a task changes only by `create_job`, or at a
start if it says RUNNING (`IdleRecordKept`), and a finished job has no entry in memory
(`FinishedIsForgotten`). They give `OutcomesAreFinal` and `StrandedJobsNeverStart`;
`ExhaustedServerAcceptsNoJob` adds that the pending count is at least that of the stranded
jobs.

`AccountsProofs`. `IndexExact` needs, for the index a start builds, that stored keys differ
(every stored key was issued, new ones were not). `ProfilesAlwaysExist` needs soundness
of the file and that memory and files agree until a save fails. `AccountInvariant` is their
conjunction. The action properties follow from a summary of every step as an addition, a
deletion or a change of one account in clients.json (`FileStep`): `AdminRemains`,
`RevokedKeysStayRevoked`, and `AccountsImplementRegistry`, where an addition maps to `Issue`,
a deletion to `Revoke`, and a change to `Suspend`, `Resume` or a stutter (`OneKeyChanges`).
`LockoutHasOneCause` looks at the guard of each request instead, and so holds with failing
saves too.

`McpRegistryProofs`. `LockExact` (a request has the file open exactly while it writes, and
at most one does) shows that overlapping requests never tear the file, only a failed or
cut-off save does. `SequentialState` says of the one
request in progress that its copy is the file's content and that its package is installed
from before the registration until after the removal; from it follow `SequentialAnswersHold`
and, step by step, that the registry implements `ServerCatalog` while requests do not overlap.

`AgentStoreProofs`. Each of the three properties needs how far the request in progress has
come: what it is about to leave is allowed (`WillBeAllowed`), the copy lags behind the prompt
only between its two writes (`CopiesFollow`), the metadata only before the last
(`PlacesFollow`).

`AdminSyncProofs`. `SurvInv` adds that what a request is about to put in place, to roll back
to, or to leave of a deletion is among what it may leave. `QuietPush` follows a push with
`--all` beside no other request: its skill stays absent until the push adds it. `SeqInv`
says that directory and entry of a skill agree between the steps of a request (`Agree`) and
that the request that has the server has the latest `skills.json` (`Alone`).

`JobIntakeProofs` (about `JobClient`'s specification, so beside the command line).
`CreateState` says how far a creation has come: what is extracted is a prefix of the
request and what is left is its rest, but for the archive in hand. `JobState` says that an
archive in the input of a job that counts (registered, or in creation) is not ready any more,
unless it is in hand or could not be deleted, which keeps inputs apart (`JobsDisjoint`) also
when a crash makes a job of a creation that was complete. `SaveState`, `SweepState` and
`UploadState` keep accepted archives from anyone but their client. `ReportState` follows the
command line: its job is the one made from all its files, no other request of its own is
under way, and what it was told stays (`NothingFromNowhere` says so of every step of the
server). It gives `ReportsAreTrue`, the safety half of `RunEnds`.

`JobSetupProofs`. `JobState` says of each stage what its set-up holds, from one profile in
`seen`; it gives the containment of jobs (`JobsContainedInv`) and `GrantsFromOneProfile`.
`ConnState` carries what the checks before a connection have established (`Admitted`) to the
relay, across updates of the profile and the end of the job (`JobsPersist`: the policy of a job
that has its agent does not change), and gives `RelaysFollowPolicy`, with the documented
meaning of patterns in place of the code's `MatchDomain`.

`SandboxProofs` adds what a sandbox shows, and so all of `AgentsAreConfined`
(`AgentsConfined`). Paths are sequences of names of any length: the last mount at or above
a path decides what is seen there (`ShownAt`), so each file is compared with the mounts in
their order. `PathsAssumption` is where that needs the configuration to be sane: neither the
home directory nor `data_dir` is `/usr` or above it, nor inside one of the two files that are
mounted in `/tmp`, nor is the home directory inside the jobs or the plugin directory. The
server does not check it; the image has `/home/appuser` and `/data`.

Only model-checked: the six liveness properties (`RunningEnds`, `InputEventuallyRemoved`,
`RequestsEnd`, `UploadDirsAreRemoved`, `RunEnds`, `ConnectionsEnd`), which are beyond the
prover. Every other property of a passing run is a theorem.

## 7. Not modelled, and why

- The detection of bubblewrap and the seccomp filter (`sandbox.py`,
  `sandbox_seccomp.py`): reads of the host at start-up. The text of the wrapper scripts: only
  which are written and removed is in `JobSetup`.
- The mounts of MCP packages, made like that of the plugin directory; an error while plugins
  are attached is logged and the job goes on.
- `fetch` and `status` of the job client and the saving of results (`cli/job/output.py`), the
  packing of files, and the other commands of the administrators' client: one request each,
  and terminal formatting. The push of agents follows that of skills.
- Size limits on requests (middleware), logging, encryption of keys, configuration: they
  change no state the properties speak of. Request validators appear as the sets inputs are
  drawn from; bytes of archives and headers are not looked at.
- The building of the agent's options (`claude_runner.py:593-835`) is taken not to raise: an
  exception there would leave the proxy listening as above. MCP servers enter a set-up as the
  set the job loaded (`Servers`); the reload before it only reads.
- The case-insensitive uniqueness of profile names (`security_profiles.py:316-323`): a
  profile is its identifier here. Uploads without a client (`job_manager.py:240`), which
  `save_upload` no longer makes (`main.py:569`).
- A second writer of `clients.json` (`create_admin.py` beside a running server), since its
  effect is plain: the server's next save overwrites it.
- The tests (`tests/run_tests.py`) were read as a source of expectations.

## 8. Plan

Open, in the order of what they would add: sharing of packages between MCP servers as a
property of its own once the code decides who owns a package; a job set-up that reads the
stores of `AgentStore` and `SkillStore` while they change; two connections through one
upstream proxy; `create_admin.py` beside the server; the fetch of results beside the
cleanup of jobs.
