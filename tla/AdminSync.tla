----------------------------- MODULE AdminSync ------------------------------
(***************************************************************************)
(* The administrator's command line (cli/admin) pushing local skills to    *)
(* the server of SkillStore, beside other administrators: the comparison   *)
(* of local and remote skills and the requests of SyncEngine (sync.py,     *)
(* local.py), and the choice of what to push (commands.py).                *)
(***************************************************************************)
EXTENDS SkillStore

CONSTANTS
    Local,          \* Local[n]: the content of the local skill n, or None
    Shape,          \* what the comparison sees of a content: the files, their
                    \* total size, and the size of SKILL.md alone
    Pusher          \* the request of SkillStore that is the command line's

ASSUME PusherAssumption == Pusher \in Requests
ASSUME LocalAssumption == Local \in [Names -> Contents \cup {None}]

VARIABLE push       \* the push in progress, or NoPush

vars == <<storeVars, push>>

NoPush == [at |-> "idle", name |-> None, mode |-> "one", blind |-> FALSE, alone |-> TRUE]
Modes == {"one", "all", "all diverged"}

Init == StoreInit /\ push = NoPush
-----------------------------------------------------------------------------
(* The comparison                                                          *)

\* What GET /admin/skills/{n} answers of a listed skill: the files that are
\* there, and the size in its entry, without one that of SKILL.md.
RemoteFiles(n) == IF skills[n] \in Contents THEN Shape[skills[n]].files ELSE {}
RemoteSize(n) ==
    IF registry[n] # None THEN Shape[registry[n]].size
    ELSE IF skills[n] \in Contents THEN Shape[skills[n]].md ELSE 0

\* _compare_skill
LooksSynced(n) ==
    RemoteFiles(n) = Shape[Local[n]].files /\ RemoteSize(n) = Shape[Local[n]].size

\* _compute_skill_status of a skill that is local or remote
Status(n) ==
    IF Local[n] = None THEN "REMOTE_ONLY"
    ELSE IF ~Listed(n) THEN "LOCAL_ONLY"
    ELSE IF LooksSynced(n) THEN "SYNCED" ELSE "DIVERGED"

\* Mutant: --all pushes what differs without being asked to.
Pushable_Diverged(mode, s) ==
    s \in {"LOCAL_ONLY", "DIVERGED"} \cup (IF mode = "one" THEN {"SYNCED"} ELSE {})

\* cmd_sync_push: what is pushed by name, with --all, with --include-diverged.
Pushable(mode, s) ==
    \/ s = "LOCAL_ONLY"
    \/ s = "DIVERGED" /\ mode # "all"
    \/ s = "SYNCED" /\ mode = "one"

Push(n, mode, blind, s) ==
    /\ push = NoPush
    /\ Local[n] # None
    /\ Pushable(mode, s)
    /\ push' = [at |-> "compared", name |-> n, mode |-> mode, blind |-> blind,
                alone |-> \A r \in Requests : reading[r] = None]
    /\ UNCHANGED storeVars

Compare(n, mode) ==
    /\ up /\ op = Idle /\ registry # Cut
    /\ Push(n, mode, FALSE, Status(n))

\* A listing that fails counts as an empty one, a listed skill whose details
\* cannot be read as one without files.
CompareBlind(n, mode) ==
    \/ Push(n, mode, TRUE, "LOCAL_ONLY")
    \/ up /\ op = Idle /\ registry # Cut /\ Listed(n) /\ Push(n, mode, TRUE, "DIVERGED")
-----------------------------------------------------------------------------
(* push_skill                                                              *)

\* GET /admin/skills/{name}: found, 404, or any other error.
Look ==
    /\ push.at = "compared"
    /\ \/ /\ up /\ op = Idle /\ registry # Cut
          /\ push' = [push EXCEPT !.at = IF Listed(push.name) THEN "found" ELSE "missing"]
       \/ push' = NoPush
    /\ UNCHANGED storeVars

Send ==
    /\ push.at \in {"found", "missing"}
    /\ Ask(Pusher, IF push.at = "found" THEN "update" ELSE "add",
           push.name, Local[push.name])
    /\ push' = [push EXCEPT !.at = "sent"]

\* The answer, or none: the command line times out or loses the connection,
\* and does not repeat the request.
Report ==
    /\ push.at \in {"found", "missing", "sent"}
    /\ push' = NoPush
    /\ UNCHANGED storeVars
-----------------------------------------------------------------------------
\* The requests of others, also between two of the command line's.
Others(r) ==
    /\ r # Pusher
    /\ StoreRequests(r)
    /\ push' = IF push = NoPush THEN push ELSE [push EXCEPT !.alone = FALSE]

Serve == StoreSteps /\ UNCHANGED push

Next ==
    \/ \E n \in Names, mode \in Modes : Compare(n, mode) \/ CompareBlind(n, mode)
    \/ Look \/ Send \/ Report \/ Serve
    \/ \E r \in Requests : Others(r)

Spec == Init /\ [][Next]_vars
-----------------------------------------------------------------------------
(* Properties                                                              *)

SyncTypeOK ==
    /\ TypeOK
    /\ push \in [at : {"idle", "compared", "found", "missing", "sent"},
                 name : Names \cup {None}, mode : Modes,
                 blind : BOOLEAN, alone : BOOLEAN]

\* While administrators wait for each other's answers and nothing fails, the
\* statuses the command line shows are true, although it sees only files and
\* sizes that come from two places: a skill is SYNCED exactly if the server
\* serves one with the files and the total size of the local one.
SequentialStatusIsTrue ==
    ~overlapped /\ disturbances = 0 /\ op = Idle =>
        \A n \in Names : Local[n] # None /\ Listed(n) =>
            (Status(n) = "SYNCED" <=>
                /\ Shape[skills[n]].files = Shape[Local[n]].files
                /\ Shape[skills[n]].size = Shape[Local[n]].size)

\* A push of everything that is new never replaces a skill, unless another
\* administrator made a request since the comparison, or the listing failed and
\* the comparison took every skill for a new one.
PushSparesDiverged ==
    push.at = "sent" /\ push.mode = "all" /\ push.alone /\ op.by = Pusher
        /\ op.at \in {"backup", "swap"} => push.blind
=============================================================================
