----------------------------- MODULE SkillStore -----------------------------
(***************************************************************************)
(* Skills: SkillManager (skill_manager.py) behind /admin/skills, the       *)
(* archive handler (skill_zip_handler.py), and the sweep of leftovers when *)
(* the server starts (main.py).                                            *)
(*                                                                         *)
(* A skill is a directory that jobs read and an entry in skills.json.  A   *)
(* request that brings an archive reads skills.json first, awaits the      *)
(* archive, and then runs to its answer without an await: requests overlap *)
(* while they wait, but only one at a time touches the files.  Running     *)
(* jobs see the files between any two of its steps, each step may fail,    *)
(* and the process may die anywhere.                                       *)
(***************************************************************************)
EXTENDS Naturals

CONSTANTS
    Names,              \* names of skills
    Folded,             \* the name in lower case
    Contents,           \* what a skill directory can hold
    Archives,           \* the archives others send: the skill's name, its content
    Requests,           \* requests that can be in progress at once
    None,               \* no directory, no entry
    Half, Stump,        \* a directory partly deleted, with and without SKILL.md
    Cut,                \* a file that was cut off while it was written
    MaxDisturbances     \* bound on the failed steps and crashes

ASSUME ValuesAssumption ==
    /\ {None, Half, Stump, Cut} \cap Contents = {}
    /\ None \notin {Half, Stump, Cut} /\ Half # Stump
ASSUME ArchivesAssumption == Archives \subseteq [name : Names, content : Contents]
ASSUME BoundAssumption == MaxDisturbances \in Nat

VARIABLES
    up,             \* the server runs
    reading,        \* reading[r]: the request r whose archive is awaited, or None
    op,             \* the request that is using the files, or Idle
    skills,         \* the directories, as jobs see them
    registry,       \* skills.json, or Cut; an entry is the content it describes
    litter,         \* kinds of hidden directories left behind, "tmp" and "old"
    calm,           \* the last sweep was complete, and no step failed since
    overlapped,     \* some request was made while another was in progress
    allowed,        \* allowed[n]: what the requests so far let skills[n] be
    disturbances    \* bounded by MaxDisturbances

files == <<skills, registry, litter>>
history == <<calm, overlapped, disturbances>>
storeVars == <<up, reading, op, files, history, allowed>>

Empty == [n \in Names |-> None]
Whole == Contents \cup {None}
Places == Contents \cup {None, Half, Stump}
Idle == [at |-> "idle", by |-> None, name |-> None]

\* Which directories have a SKILL.md, and so are listed.
Listed(n) == skills[n] \in Contents \cup {Half}

StoreInit ==
    /\ up = FALSE /\ op = Idle
    /\ reading = [r \in Requests |-> None]
    /\ skills = Empty /\ registry = Empty /\ litter = {}
    /\ calm = FALSE /\ overlapped = FALSE
    /\ allowed = [n \in Names |-> {None}]
    /\ disturbances = 0
-----------------------------------------------------------------------------
(* Requests                                                                *)

Free(r) == up /\ op = Idle /\ reading[r] = None

\* SkillManager(...) reads skills.json; one that cannot be parsed raises.
NewRequest(r) ==
    /\ Free(r)
    /\ registry # Cut
    /\ overlapped' = (overlapped \/ \E q \in Requests : reading[q] # None)
    /\ UNCHANGED <<up, files, calm, disturbances>>

\* POST /admin/skills and PUT /admin/skills/{n}: the archive is awaited.
Ask(r, kind, n, c) ==
    /\ NewRequest(r)
    /\ reading' = [reading EXCEPT
                    ![r] = [kind |-> kind, name |-> n, content |-> c, copy |-> registry]]
    /\ UNCHANGED <<op, allowed>>

\* A step fails, or the process dies.
Disturbance ==
    /\ disturbances < MaxDisturbances
    /\ disturbances' = disturbances + 1
    /\ calm' = FALSE

\* A request ends with its temporary directory .tmp-*, which is removed, or the
\* removal fails and is ignored.
DropTemp ==
    \/ UNCHANGED <<litter, calm, disturbances>>
    \/ Disturbance /\ litter' = litter \cup {"tmp"}

\* The archive is too large, broken or no skill, or the client went away.
Rejected(r) ==
    /\ up /\ op = Idle /\ reading[r] # None
    /\ reading' = [reading EXCEPT ![r] = None]
    /\ DropTemp
    /\ UNCHANGED <<up, op, skills, registry, overlapped, allowed>>

Twins(n, entries) ==
    \E m \in Names \ {n} : Folded[m] = Folded[n] /\ entries[m] # None

\* add_skill: the name is taken, or differs only in case; update_skill: it is
\* unknown.
Refused(q) ==
    LET known == q.copy[q.name] # None \/ Listed(q.name)
    IN  IF q.kind = "add" THEN known \/ Twins(q.name, q.copy) ELSE ~known

\* Mutant: the extracted archive of a refused request stays.
Refuse_Forget(r) ==
    /\ up /\ op = Idle /\ reading[r] # None
    /\ Refused(reading[r])
    /\ reading' = [reading EXCEPT ![r] = None]
    /\ litter' = litter \cup {"tmp"}
    /\ UNCHANGED <<up, op, skills, registry, history, allowed>>

\* The archive was extracted to .tmp-*, which is removed again.
Refuse(r) ==
    /\ up /\ op = Idle /\ reading[r] # None
    /\ Refused(reading[r])
    /\ reading' = [reading EXCEPT ![r] = None]
    /\ DropTemp
    /\ UNCHANGED <<up, op, skills, registry, overlapped, allowed>>

\* The archive was extracted to .tmp-*; its directory is installed next.
Accept(r) ==
    /\ up /\ op = Idle /\ reading[r] # None
    /\ ~Refused(reading[r])
    /\ LET q == reading[r] IN
        /\ op' = [at |-> IF q.kind = "add" THEN "install" ELSE "backup",
                  by |-> r, name |-> q.name, entry |-> q.content,
                  copy |-> q.copy, old |-> None]
        /\ allowed' = [allowed EXCEPT ![q.name] = @ \cup {q.content}]
    /\ reading' = [reading EXCEPT ![r] = None]
    /\ UNCHANGED <<up, files, history>>

\* DELETE /admin/skills/{n}; 404 without entry and directory.
Remove(r, n) ==
    /\ NewRequest(r)
    /\ registry[n] # None \/ skills[n] # None
    /\ op' = [at |-> "delete", by |-> r, name |-> n, entry |-> None,
              copy |-> registry, old |-> None]
    /\ allowed' = [allowed EXCEPT ![n] = @ \cup {None, Half, Stump}]
    /\ UNCHANGED reading
-----------------------------------------------------------------------------
(* The steps of the request that uses the files                            *)

Step(at, next) ==
    /\ op.at = at
    /\ op' = [op EXCEPT !.at = next]
    /\ UNCHANGED <<up, reading, registry, history, allowed>>

\* rename(.tmp-*, skill) of a new skill, possibly over an empty directory
Install ==
    /\ Step("install", "save")
    /\ skills[op.name] \in {None, Stump}
    /\ skills' = [skills EXCEPT ![op.name] = op.entry]
    /\ UNCHANGED litter

\* rename(skill, .old-*) of a skill that is updated: jobs miss it for a moment.
Backup ==
    /\ op.at = "backup"
    /\ skills[op.name] # None
    /\ op' = [op EXCEPT !.at = "swap", !.old = skills[op.name]]
    /\ skills' = [skills EXCEPT ![op.name] = None]
    /\ UNCHANGED <<up, reading, registry, litter, history, allowed>>

\* rename(.tmp-*, skill)
Swap ==
    /\ Step("swap", "sweep")
    /\ skills' = [skills EXCEPT ![op.name] = op.entry]
    /\ UNCHANGED litter

\* rmtree(.old-*)
Sweep ==
    /\ Step("sweep", "save")
    /\ UNCHANGED <<skills, litter>>

\* rmtree(skill)
Delete ==
    /\ Step("delete", "save")
    /\ skills' = [skills EXCEPT ![op.name] = None]
    /\ UNCHANGED litter

\* Mutant: the entry describes the directory that was replaced.
Entry_Old == IF op.old # None THEN op.old ELSE op.entry

\* Mutant: the entry is not updated with the directory.
Entry_Kept == IF op.copy[op.name] # None /\ op.entry # None
              THEN op.copy[op.name] ELSE op.entry

\* The entry that goes into skills.json.
Entry == op.entry

\* The manifest and the whole copy of skills.json are written and the request
\* is answered, the removal of a directory without entry with 404.
Save ==
    /\ op.at = "save"
    /\ registry' = [op.copy EXCEPT ![op.name] = Entry]
    /\ allowed' = [allowed EXCEPT ![op.name] = {skills[op.name]}]
    /\ op' = Idle
    /\ UNCHANGED <<up, reading, skills, litter, history>>
-----------------------------------------------------------------------------
(* Failures                                                                *)

\* What a step that fails or is cut off may have done: renames are atomic.
Partial ==
    \/ UNCHANGED <<skills, registry>>
    \/ /\ op.at = "delete"
       /\ skills' \in {[skills EXCEPT ![op.name] = d] : d \in {Half, Stump}}
       /\ UNCHANGED registry
    \/ /\ op.at = "save"
       /\ registry' \in {Empty, Cut}
       /\ UNCHANGED skills

HasTemp == op.at \in {"install", "backup", "swap"}

\* A directory without SKILL.md is in the way of a new skill, or the directory
\* of an updated one is missing: the rename raises.
CannotRename ==
    /\ \/ op.at = "install" /\ skills[op.name] # None
       \/ op.at = "backup" /\ skills[op.name] = None
    /\ op' = Idle
    /\ DropTemp
    /\ UNCHANGED <<up, reading, skills, registry, overlapped, allowed>>

\* Any other step may raise; the temporary directory is removed if it can be.
StepFails ==
    /\ op.at \in {"install", "backup", "delete", "save"}
    /\ Disturbance
    /\ Partial
    /\ litter' \in {litter, litter \cup (IF HasTemp THEN {"tmp"} ELSE {})}
    /\ op' = Idle
    /\ UNCHANGED <<up, reading, allowed, overlapped>>

\* Mutant: the updated directory is not put back.
SwapFails_NoRollback ==
    /\ op.at = "swap"
    /\ Disturbance
    /\ litter' = litter \cup {"old"}
    /\ op' = Idle
    /\ UNCHANGED <<up, reading, skills, registry, allowed, overlapped>>

\* The second rename of an update raises: the first one is undone, or that
\* raises too and the skill is only in .old-*.
SwapFails ==
    /\ op.at = "swap"
    /\ Disturbance
    /\ \/ /\ skills' = [skills EXCEPT ![op.name] = op.old]
          /\ UNCHANGED <<litter, allowed>>
       \/ /\ litter' = litter \cup {"old"}
          /\ allowed' = [allowed EXCEPT ![op.name] = @ \cup {None}]
          /\ UNCHANGED skills
    /\ op' = Idle
    /\ UNCHANGED <<up, reading, registry, overlapped>>

\* .old-* cannot be removed: logged, the update goes on.
SweepFails ==
    /\ op.at = "sweep"
    /\ Disturbance
    /\ litter' = litter \cup {"old"}
    /\ op' = [op EXCEPT !.at = "save"]
    /\ UNCHANGED <<up, reading, skills, registry, allowed, overlapped>>
-----------------------------------------------------------------------------
(* Crashes and restarts                                                    *)

Gone ==
    /\ up' = FALSE /\ op' = Idle
    /\ reading' = [r \in Requests |-> None]

\* Hidden directories that exist only for the time of a request.
InUse == (IF HasTemp THEN {"tmp"} ELSE {})
         \cup (IF op.at \in {"swap", "sweep"} THEN {"old"} ELSE {})

\* An archive may have been half extracted; between the renames of an update
\* the skill exists only as .old-*.
Crash ==
    /\ up
    /\ Disturbance
    /\ Partial
    /\ \/ litter' = litter \cup InUse
       \/ /\ op = Idle /\ \E r \in Requests : reading[r] # None
          /\ litter' = litter \cup {"tmp"}
    /\ allowed' = IF op.at = "swap"
                  THEN [allowed EXCEPT ![op.name] = @ \cup {None}] ELSE allowed
    /\ Gone
    /\ UNCHANGED overlapped

Stop ==
    /\ up /\ op = Idle /\ reading = [r \in Requests |-> None]
    /\ Gone
    /\ UNCHANGED <<files, history, allowed>>

\* cleanup_orphaned_temp_dirs removes .tmp-* and .old-*, whatever is in them.
Start ==
    /\ ~up
    /\ up' = TRUE
    /\ litter' = {} /\ calm' = TRUE
    /\ UNCHANGED <<reading, op, skills, registry, overlapped, disturbances,
                   allowed>>

\* One that cannot be removed is only logged.
StartSweepsPart ==
    /\ ~up
    /\ up' = TRUE
    /\ litter' \in SUBSET litter \ {{}}
    /\ Disturbance
    /\ UNCHANGED <<reading, op, skills, registry, allowed, overlapped>>
-----------------------------------------------------------------------------
StoreRequests(r) ==
    \/ \E n \in Names : Remove(r, n)
    \/ \E z \in Archives, kind \in {"add", "update"} : Ask(r, kind, z.name, z.content)

StoreSteps ==
    \/ \E r \in Requests : Rejected(r) \/ Refuse(r) \/ Accept(r)
    \/ Install \/ Backup \/ Swap \/ Sweep \/ Delete \/ Save
    \/ CannotRename \/ StepFails \/ SwapFails \/ SweepFails
    \/ Crash \/ Stop \/ Start \/ StartSweepsPart
-----------------------------------------------------------------------------
(* Properties                                                              *)

Awaited == [kind : {"add", "update"}, name : Names, content : Contents,
            copy : [Names -> Whole]]

Working == [at : {"install", "backup", "swap", "sweep", "delete", "save"},
            by : Requests, name : Names, entry : Whole,
            copy : [Names -> Whole], old : Places]

TypeOK ==
    /\ up \in BOOLEAN
    /\ reading \in [Requests -> {None} \cup Awaited]
    /\ op = Idle \/ op \in Working
    /\ skills \in [Names -> Places]
    /\ registry = Cut \/ registry \in [Names -> Whole]
    /\ litter \subseteq {"tmp", "old"}
    /\ calm \in BOOLEAN /\ overlapped \in BOOLEAN
    /\ allowed \in [Names -> SUBSET Places]
    /\ disturbances \in 0..MaxDisturbances

\* Whatever overlaps, fails or crashes, a skill's directory is one that a
\* request answered with success left, or one that a later request was asked
\* to leave: never a mixture, and never nothing, except between the renames of
\* an update, and afterwards if the server died there or could not undo it.
InstalledSkillsSurvive ==
    \A n \in Names :
        skills[n] \in allowed[n] \cup
            (IF op.at = "swap" /\ op.name = n THEN {None} ELSE {})

\* After a start that could sweep, and until a step fails, no hidden directory
\* is left by any request, refused and failed ones included.
StartSweepsLeftovers == up /\ calm => litter = {}
=============================================================================
