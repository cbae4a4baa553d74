----------------------------- MODULE AgentStore -----------------------------
(***************************************************************************)
(* Subagents: AgentManager (agent_manager.py) behind /admin/agents, and    *)
(* the synchronisation when the server starts (main.py).                   *)
(*                                                                         *)
(* An agent is a prompt file in prompts/, its copy in the plugin directory *)
(* that jobs read, and an entry in agents.json.  A request runs without an *)
(* await, so requests do not interleave; but running jobs see the files    *)
(* between any two writes, each write may raise, and the process may die   *)
(* anywhere.                                                               *)
(***************************************************************************)
EXTENDS Naturals

CONSTANTS
    Names,              \* names of agents
    Contents,           \* prompts
    None,               \* no file, no entry
    Cut,                \* a file that was cut off while it was written
    Unsized,            \* an entry that records no size
    MaxDisturbances     \* bound on the failed writes and crashes

ASSUME ValuesAssumption ==
    /\ {None, Cut, Unsized} \cap Contents = {}
    /\ None # Cut /\ None # Unsized /\ Cut # Unsized
ASSUME BoundAssumption == MaxDisturbances \in Nat

VARIABLES
    mode,           \* "down", "syncing" (start-up), "up"
    op,             \* the request in progress, or Idle
    prompts,        \* the prompt files, one per agent
    plugin,         \* the copies in the plugin directory
    metadata,       \* agents.json, or Cut; an entry is the prompt it describes
    synced,         \* the copies were synchronised, and no write failed since
    allowed,        \* allowed[n]: what the answers so far let prompts[n] be
    disturbances    \* bounded by MaxDisturbances

files == <<prompts, plugin, metadata>>
vars == <<mode, op, files, synced, allowed, disturbances>>

Nothing == [n \in Names |-> None]
Idle == [at |-> "idle"]
\* The remaining steps of a request: at is the next one, entry what it will
\* leave in agents.json.
Request(at, n, c, e) == [at |-> at, name |-> n, content |-> c, entry |-> e]

Init ==
    /\ mode = "down" /\ op = Idle
    /\ prompts = Nothing /\ plugin = Nothing /\ metadata = Nothing
    /\ synced = FALSE
    /\ allowed = [n \in Names |-> {None}]
    /\ disturbances = 0
-----------------------------------------------------------------------------
(* The endpoints.  Each request reads agents.json first.                   *)

NewRequest ==
    /\ mode = "up" /\ op = Idle
    /\ metadata # Cut
    /\ UNCHANGED <<mode, files, synced, disturbances>>

Known(n) == metadata[n] # None \/ prompts[n] # None

\* The prompt will be written; until the answer it may be old or new.
WillWrite(n, c) ==
    /\ op' = Request("prompt", n, c, c)
    /\ allowed' = [allowed EXCEPT ![n] = @ \cup {c}]

\* POST /admin/agents
AddAgent(n, c) == NewRequest /\ ~Known(n) /\ WillWrite(n, c)

\* PUT /admin/agents/{n} with a content
UpdateContent(n, c) == NewRequest /\ Known(n) /\ WillWrite(n, c)

\* PUT /admin/agents/{n} with only a description
UpdateDescription(n) ==
    /\ NewRequest
    /\ Known(n)
    /\ op' = Request("metadata", n, None,
                     IF metadata[n] = None THEN Unsized ELSE metadata[n])
    /\ UNCHANGED allowed

\* DELETE /admin/agents/{n}: without a prompt file only the entry is removed,
\* and without an entry the answer is 404 although the prompt is removed.
RemoveAgent(n) ==
    /\ NewRequest
    /\ Known(n)
    /\ op' = Request(IF prompts[n] = None THEN "metadata" ELSE "unlink", n, None, None)
    /\ allowed' = [allowed EXCEPT ![n] = @ \cup {None}]
-----------------------------------------------------------------------------
(* The writes of a request, in order                                       *)

Step(at, next) ==
    /\ op.at = at
    /\ op' = [op EXCEPT !.at = next]
    /\ UNCHANGED <<mode, synced, allowed, disturbances>>

\* The prompt is written to a temporary file and renamed.
WritePrompt ==
    /\ Step("prompt", "plugin")
    /\ prompts' = [prompts EXCEPT ![op.name] = op.content]
    /\ UNCHANGED <<plugin, metadata>>

WritePlugin ==
    /\ Step("plugin", "metadata")
    /\ plugin' = [plugin EXCEPT ![op.name] = op.content]
    /\ UNCHANGED <<prompts, metadata>>

UnlinkPrompt ==
    /\ Step("unlink", "unlink copy")
    /\ prompts' = [prompts EXCEPT ![op.name] = None]
    /\ UNCHANGED <<plugin, metadata>>

\* Mutant: the copy in the plugin directory is left.
UnlinkCopy_Skip ==
    /\ Step("unlink copy", "metadata")
    /\ UNCHANGED files

UnlinkCopy ==
    /\ Step("unlink copy", "metadata")
    /\ plugin' = [plugin EXCEPT ![op.name] = None]
    /\ UNCHANGED <<prompts, metadata>>

\* The last write: then the request is answered, with success or, by a removal
\* that found no entry, with 404.
SaveMetadata ==
    /\ op.at = "metadata"
    /\ metadata' = [metadata EXCEPT ![op.name] = op.entry]
    /\ op' = Idle
    /\ allowed' = [allowed EXCEPT ![op.name] = {prompts[op.name]}]
    /\ UNCHANGED <<mode, prompts, plugin, synced, disturbances>>
-----------------------------------------------------------------------------
(* Failures and restarts                                                   *)

\* Mutant: the prompt is written in place.
Partial_InPlace ==
    \/ UNCHANGED files
    \/ /\ op.at = "prompt"
       /\ prompts' = [prompts EXCEPT ![op.name] = Cut]
       /\ UNCHANGED <<plugin, metadata>>

\* What a write that raises or is cut off can leave: the copies and agents.json
\* are written in place, and an empty agents.json reads as one without entries.
Partial ==
    \/ UNCHANGED files
    \/ /\ op.at = "plugin"
       /\ plugin' = [plugin EXCEPT ![op.name] = Cut]
       /\ UNCHANGED <<prompts, metadata>>
    \/ /\ op.at = "metadata"
       /\ metadata' \in {Nothing, Cut}
       /\ UNCHANGED <<prompts, plugin>>

Disturbance ==
    /\ disturbances < MaxDisturbances
    /\ disturbances' = disturbances + 1
    /\ op' = Idle
    /\ synced' = FALSE
    /\ UNCHANGED allowed

\* The request is answered with an error; what it has written stays.
WriteFails ==
    /\ op # Idle
    /\ Disturbance
    /\ Partial
    /\ UNCHANGED mode

Crash ==
    /\ mode # "down"
    /\ Disturbance
    /\ Partial
    /\ mode' = "down"

\* A regular stop waits for the request in progress.
Stop ==
    /\ mode = "up" /\ op = Idle
    /\ mode' = "down" /\ synced' = FALSE
    /\ UNCHANGED <<op, files, allowed, disturbances>>

\* lifespan: without a readable agents.json nothing is synchronised, but the
\* server starts.
Start ==
    /\ mode = "down"
    /\ mode' = IF metadata = Cut THEN "up" ELSE "syncing"
    /\ UNCHANGED <<op, files, synced, allowed, disturbances>>

Stale == {n \in Names : prompts[n] # None /\ plugin[n] # prompts[n]}

\* Mutant: the prompt is replaced by its copy.
SyncPrompt_Backwards(n) ==
    /\ mode = "syncing"
    /\ n \in Stale
    /\ prompts' = [prompts EXCEPT ![n] = plugin[n]]
    /\ UNCHANGED <<mode, op, plugin, metadata, synced, allowed, disturbances>>

\* Copies that differ are written again; copies without a prompt stay.
SyncPrompt(n) ==
    /\ mode = "syncing"
    /\ n \in Stale
    /\ plugin' = [plugin EXCEPT ![n] = prompts[n]]
    /\ UNCHANGED <<mode, op, prompts, metadata, synced, allowed, disturbances>>

\* A copy that cannot be written ends the synchronisation with a warning; one
\* that was cut off by a crash is left as it is until the next start.
SyncFails(n) ==
    /\ mode = "syncing"
    /\ n \in Stale
    /\ Disturbance
    /\ plugin' \in {plugin, [plugin EXCEPT ![n] = Cut]}
    /\ mode' \in {"up", "down"}
    /\ UNCHANGED <<prompts, metadata>>

\* Mutant: the server accepts requests before all copies are compared.
SyncDone_Early ==
    /\ mode = "syncing"
    /\ mode' = "up" /\ synced' = TRUE
    /\ UNCHANGED <<op, files, allowed, disturbances>>

SyncDone ==
    /\ mode = "syncing"
    /\ Stale = {}
    /\ mode' = "up" /\ synced' = TRUE
    /\ UNCHANGED <<op, files, allowed, disturbances>>
-----------------------------------------------------------------------------
NewRequests ==
    \E n \in Names :
        \/ UpdateDescription(n) \/ RemoveAgent(n)
        \/ \E c \in Contents : AddAgent(n, c) \/ UpdateContent(n, c)

Writes == WritePrompt \/ WritePlugin \/ UnlinkPrompt \/ UnlinkCopy \/ SaveMetadata

Next ==
    \/ NewRequests \/ Writes
    \/ WriteFails \/ Crash \/ Stop \/ Start \/ SyncDone
    \/ \E n \in Names : SyncPrompt(n) \/ SyncFails(n)

Spec == Init /\ [][Next]_vars
-----------------------------------------------------------------------------
(* Properties                                                              *)

Pending == [at : {"prompt", "plugin", "unlink", "unlink copy", "metadata"},
            name : Names, content : Contents \cup {None},
            entry : Contents \cup {None, Unsized}]

TypeOK ==
    /\ mode \in {"down", "syncing", "up"}
    /\ op = Idle \/ op \in Pending
    /\ prompts \in [Names -> Contents \cup {None}]
    /\ plugin \in [Names -> Contents \cup {None, Cut}]
    /\ metadata = Cut \/ metadata \in [Names -> Contents \cup {None, Unsized}]
    /\ synced \in BOOLEAN
    /\ allowed \in [Names -> SUBSET (Contents \cup {None})]
    /\ disturbances \in 0..MaxDisturbances

\* The prompts are the source of truth: whatever writes fail and whenever the
\* process dies, a prompt file is what the last answer said of it (after a
\* removal, 404 or not, that there is none), or what a request that failed
\* after it was about to leave.
AnswersAreDurable == \A n \in Names : prompts[n] \in allowed[n]

\* After a start that could synchronise, and until a write fails, every agent
\* that has a prompt is the one jobs get, even if earlier runs left its copy
\* old or cut off.
StartRepairsCopies ==
    mode = "up" /\ op = Idle /\ synced =>
        \A n \in Names : prompts[n] # None => plugin[n] = prompts[n]

\* Without failed writes and crashes the three places always agree between
\* requests: jobs get exactly the agents that exist, none that was removed
\* (docs/subagents.md:192), and the recorded sizes are those of their prompts.
UndisturbedPlacesAgree ==
    disturbances = 0 /\ op = Idle => plugin = prompts /\ metadata = prompts
=============================================================================
