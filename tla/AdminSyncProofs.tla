--------------------------- MODULE AdminSyncProofs ---------------------------
(***************************************************************************)
(* Proofs about SkillStore and the pushes of AdminSync, for every set of   *)
(* skills, contents, archives and requests and every number of failures.   *)
(***************************************************************************)
EXTENDS AdminSync, TLAPS

\* A push has a local skill to send.
PushHasSkill ==
    push.at # "idle" => push.name \in Names /\ Local[push.name] \in Contents

TypeInv == SyncTypeOK /\ PushHasSkill

-----------------------------------------------------------------------------
(* Types                                                                   *)

LEMMA PlacesContain ==
    Contents \subseteq Places /\ Whole \subseteq Places /\ Contents \subseteq Whole
    /\ None \in Whole /\ None \in Places /\ Half \in Places /\ Stump \in Places
BY DEF Places, Whole

LEMMA InitTypes == Init => TypeInv
<1> SUFFICES ASSUME Init PROVE TypeInv
  OBVIOUS
<1>1. Empty \in [Names -> Whole] /\ Empty \in [Names -> Places]
  BY PlacesContain DEF Empty
<1>2. allowed \in [Names -> SUBSET Places]
  BY PlacesContain DEF Init, StoreInit
<1>3. TypeOK
  <2>1. reading \in [Requests -> {None} \cup Awaited]
    BY DEF Init, StoreInit
  <2>2. up \in BOOLEAN /\ calm \in BOOLEAN /\ overlapped \in BOOLEAN
    BY DEF Init, StoreInit
  <2>3. skills \in [Names -> Places] /\ registry \in [Names -> Whole]
    BY <1>1 DEF Init, StoreInit
  <2>4. disturbances \in 0..MaxDisturbances
    BY BoundAssumption DEF Init, StoreInit
  <2>5. op = Idle /\ litter = {}
    BY DEF Init, StoreInit
  <2> QED
    BY <1>2, <2>1, <2>2, <2>3, <2>4, <2>5 DEF TypeOK
<1>4. push = NoPush /\ push.at = "idle"
  BY DEF Init, NoPush
<1>5. push \in [at : {"idle", "compared", "found", "missing", "sent"},
               name : Names \cup {None}, mode : Modes,
               blind : BOOLEAN, alone : BOOLEAN]
  BY <1>4 DEF NoPush, Modes
<1> QED
  BY <1>3, <1>4, <1>5 DEF TypeInv, SyncTypeOK, PushHasSkill

\* A request that reads skills.json finds whole entries.
LEMMA AskTypes ==
    ASSUME TypeOK, NEW r \in Requests, NEW kind \in {"add", "update"},
           NEW n \in Names, NEW c \in Contents, Ask(r, kind, n, c)
    PROVE  TypeOK'
<1>1. registry \in [Names -> Whole]
  BY DEF Ask, NewRequest, TypeOK
<1>2. [kind |-> kind, name |-> n, content |-> c, copy |-> registry] \in Awaited
  BY <1>1 DEF Awaited
<1>3. reading' \in [Requests -> {None} \cup Awaited]
  BY <1>2 DEF Ask, TypeOK
<1>4. overlapped' \in BOOLEAN
  BY DEF Ask, NewRequest, TypeOK
<1> QED
  BY <1>3, <1>4 DEF Ask, NewRequest, Free, TypeOK, files, Idle, Working

LEMMA RemoveTypes ==
    ASSUME TypeOK, NEW r \in Requests, NEW n \in Names, Remove(r, n)
    PROVE  TypeOK'
<1>1. registry \in [Names -> Whole]
  BY DEF Remove, NewRequest, TypeOK
<1>2. op' \in Working
  BY <1>1, PlacesContain DEF Remove, Working
<1>3. allowed' \in [Names -> SUBSET Places]
  BY PlacesContain DEF Remove, TypeOK
<1>4. overlapped' \in BOOLEAN
  BY DEF Remove, NewRequest, TypeOK
<1> QED
  BY <1>2, <1>3, <1>4 DEF Remove, NewRequest, TypeOK, files

\* A failed step or a crash stays within its bound.
LEMMA DisturbanceTypes ==
    ASSUME TypeOK, Disturbance
    PROVE  disturbances' \in 0..MaxDisturbances /\ calm' = FALSE
           /\ disturbances' # 0
BY BoundAssumption DEF Disturbance, TypeOK

LEMMA DropTempTypes ==
    ASSUME TypeOK, DropTemp
    PROVE  /\ litter' \subseteq {"tmp", "old"} /\ calm' \in BOOLEAN
           /\ disturbances' \in 0..MaxDisturbances
           /\ disturbances' = 0 => disturbances = 0
           /\ calm' => calm /\ litter' = litter
<1>1. CASE UNCHANGED <<litter, calm, disturbances>>
  BY <1>1 DEF TypeOK
<1>2. CASE Disturbance /\ litter' = litter \cup {"tmp"}
  BY <1>2, DisturbanceTypes DEF TypeOK
<1> QED
  BY <1>1, <1>2 DEF DropTemp

LEMMA PartialTypes ==
    ASSUME TypeOK, Partial
    PROVE  /\ skills' \in [Names -> Places]
           /\ registry' = Cut \/ registry' \in [Names -> Whole]
BY PlacesContain DEF Partial, TypeOK, Empty

\* The request that uses the files is typed while it works.
LEMMA WorkingTyped ==
    ASSUME TypeOK, op.at # "idle"
    PROVE  op \in Working
BY DEF TypeOK, Idle

LEMMA StepsTypes ==
    ASSUME TypeOK, StoreSteps
    PROVE  TypeOK'
<1>1. ASSUME NEW r \in Requests, Rejected(r) \/ Refuse(r) PROVE TypeOK'
  <2>1. DropTemp /\ reading' = [reading EXCEPT ![r] = None]
        /\ UNCHANGED <<up, op, skills, registry, overlapped, allowed>>
    BY <1>1 DEF Rejected, Refuse
  <2> QED
    BY <2>1, DropTempTypes DEF TypeOK
<1>2. ASSUME NEW r \in Requests, Accept(r) PROVE TypeOK'
  <2>1. reading[r] \in Awaited
    BY <1>2 DEF Accept, TypeOK
  <2>2. op' \in Working
    BY <1>2, <2>1, PlacesContain DEF Accept, Awaited, Working
  <2>3. allowed' \in [Names -> SUBSET Places]
    BY <1>2, <2>1, PlacesContain DEF Accept, Awaited, TypeOK
  <2> QED
    BY <1>2, <2>2, <2>3 DEF Accept, TypeOK, files, history
<1>3. CASE Install \/ Swap \/ Sweep \/ Delete
  <2>1. op \in Working
    BY <1>3, WorkingTyped DEF Install, Swap, Sweep, Delete, Step
  <2>2. op' \in Working
    BY <1>3, <2>1 DEF Install, Swap, Sweep, Delete, Step, Working
  <2>3. skills' \in [Names -> Places]
    BY <1>3, <2>1, PlacesContain DEF Install, Swap, Sweep, Delete, Working, TypeOK
  <2> QED
    BY <1>3, <2>2, <2>3 DEF Install, Swap, Sweep, Delete, Step, TypeOK, history
<1>4. CASE Backup
  <2>1. op \in Working
    BY <1>4, WorkingTyped DEF Backup
  <2>2. op' \in Working
    BY <1>4, <2>1 DEF Backup, Working, TypeOK
  <2> QED
    BY <1>4, <2>1, <2>2, PlacesContain DEF Backup, Working, TypeOK, history
<1>5. CASE Save
  <2>1. op \in Working
    BY <1>5, WorkingTyped DEF Save
  <2>2. registry' \in [Names -> Whole]
    BY <1>5, <2>1 DEF Save, Entry, Working
  <2>3. allowed' \in [Names -> SUBSET Places]
    BY <1>5, <2>1 DEF Save, Working, TypeOK
  <2> QED
    BY <1>5, <2>2, <2>3 DEF Save, TypeOK, history
<1>6. CASE CannotRename
  BY <1>6, DropTempTypes DEF CannotRename, TypeOK
<1>7. CASE StepFails
  <2>1. litter' \subseteq {"tmp", "old"}
    BY <1>7 DEF StepFails, TypeOK
  <2> QED
    BY <1>7, <2>1, DisturbanceTypes, PartialTypes DEF StepFails, TypeOK
<1>8. CASE SwapFails
  <2>1. op \in Working
    BY <1>8, WorkingTyped DEF SwapFails
  <2>2. skills' \in [Names -> Places] /\ allowed' \in [Names -> SUBSET Places]
    BY <1>8, <2>1, PlacesContain DEF SwapFails, Working, TypeOK
  <2> QED
    BY <1>8, <2>2, DisturbanceTypes DEF SwapFails, TypeOK
<1>9. CASE SweepFails
  <2>1. op \in Working
    BY <1>9, WorkingTyped DEF SweepFails
  <2>2. op' \in Working
    BY <1>9, <2>1 DEF SweepFails, Working
  <2> QED
    BY <1>9, <2>2, DisturbanceTypes DEF SweepFails, TypeOK
<1>10. CASE Crash
  <2>1. litter' \subseteq {"tmp", "old"}
    BY <1>10 DEF Crash, InUse, TypeOK
  <2>2. allowed' \in [Names -> SUBSET Places]
    BY <1>10, PlacesContain DEF Crash, TypeOK
  <2> QED
    BY <1>10, <2>1, <2>2, DisturbanceTypes, PartialTypes DEF Crash, Gone, TypeOK
<1>11. CASE Stop \/ Start
  BY <1>11 DEF Stop, Start, Gone, TypeOK, files, history
<1>12. CASE StartSweepsPart
  <2>1. litter' \subseteq {"tmp", "old"}
    BY <1>12 DEF StartSweepsPart, TypeOK
  <2> QED
    BY <1>12, <2>1, DisturbanceTypes DEF StartSweepsPart, TypeOK
<1> QED
  BY <1>1, <1>2, <1>3, <1>4, <1>5, <1>6, <1>7, <1>8, <1>9, <1>10, <1>11, <1>12
  DEF StoreSteps

Started == [at : {"compared"}, name : {n \in Names : Local[n] # None}, mode : Modes,
            blind : BOOLEAN, alone : BOOLEAN]

LEMMA PushStarts ==
    ASSUME NEW n \in Names, NEW mode \in Modes, NEW blind \in BOOLEAN, NEW s,
           Push(n, mode, blind, s)
    PROVE  push = NoPush /\ push' \in Started
<1>1. (\A r \in Requests : reading[r] = None) \in BOOLEAN
  OBVIOUS
<1> QED
  BY <1>1 DEF Push, Started

\* What the command line may do to the state of a push.
LEMMA PushSteps ==
    ASSUME TypeInv, Next
    PROVE  \/ push' = push \/ push' = NoPush
           \/ push = NoPush /\ push' \in Started
           \/ \E at \in {"found", "missing", "sent"} :
                 push.at # "idle" /\ push' = [push EXCEPT !.at = at]
           \/ push # NoPush /\ push' = [push EXCEPT !.alone = FALSE]
<1>1. ASSUME NEW n \in Names, NEW mode \in Modes,
             Compare(n, mode) \/ CompareBlind(n, mode)
      PROVE  push = NoPush /\ push' \in Started
  BY <1>1, PushStarts DEF Compare, CompareBlind
<1>2. CASE Look \/ Send \/ Report
  <2>1. CASE Look
    BY <2>1 DEF Look
  <2> QED
    BY <1>2, <2>1 DEF Send, Report
<1>3. CASE Serve
  BY <1>3 DEF Serve
<1>4. CASE \E r \in Requests : Others(r)
  BY <1>4 DEF Others
<1> QED
  BY <1>1, <1>2, <1>3, <1>4 DEF Next

LEMMA PushTypes ==
    ASSUME TypeInv, Next
    PROVE  /\ push' \in [at : {"idle", "compared", "found", "missing", "sent"},
                          name : Names \cup {None}, mode : Modes,
                          blind : BOOLEAN, alone : BOOLEAN]
           /\ PushHasSkill'
<1>1. CASE push' = push
  BY <1>1 DEF TypeInv, SyncTypeOK, PushHasSkill
<1>2. CASE push' = NoPush
  BY <1>2 DEF NoPush, Modes, PushHasSkill
<1>3. CASE push' \in Started
  BY <1>3, LocalAssumption DEF Started, PushHasSkill
<1>4. CASE \E at \in {"found", "missing", "sent"} :
              push.at # "idle" /\ push' = [push EXCEPT !.at = at]
  BY <1>4 DEF TypeInv, SyncTypeOK, PushHasSkill
<1>5. CASE push' = [push EXCEPT !.alone = FALSE]
  BY <1>5 DEF TypeInv, SyncTypeOK, PushHasSkill
<1> QED
  BY PushSteps, <1>1, <1>2, <1>3, <1>4, <1>5

LEMMA RequestsTypes ==
    ASSUME TypeOK, NEW r \in Requests, StoreRequests(r)
    PROVE  TypeOK'
<1>1. ASSUME NEW z \in Archives, NEW kind \in {"add", "update"},
             Ask(r, kind, z.name, z.content)
      PROVE  TypeOK'
  <2>1. z.name \in Names /\ z.content \in Contents
    BY ArchivesAssumption
  <2> QED
    BY <1>1, <2>1, AskTypes
<1> QED
  BY <1>1, RemoveTypes DEF StoreRequests

LEMMA NextTypes == TypeInv /\ [Next]_vars => TypeInv'
<1> SUFFICES ASSUME TypeInv, [Next]_vars PROVE TypeInv'
  OBVIOUS
<1>1. CASE UNCHANGED vars
  BY <1>1 DEF vars, storeVars, files, history, TypeInv, SyncTypeOK, TypeOK, PushHasSkill
<1>2. CASE Next
  <2>1. TypeOK
    BY DEF TypeInv, SyncTypeOK
  <2>2. ASSUME UNCHANGED storeVars PROVE TypeOK'
    BY <2>1, <2>2 DEF storeVars, files, history, TypeOK
  <2>3. ASSUME Send PROVE TypeOK'
    <3>1. push.name \in Names /\ Local[push.name] \in Contents
      BY <2>3 DEF Send, TypeInv, PushHasSkill
    <3> QED
      BY <2>1, <2>3, <3>1, AskTypes, PusherAssumption DEF Send
  <2>4. ASSUME Serve PROVE TypeOK'
    BY <2>1, <2>4, StepsTypes DEF Serve
  <2>5. ASSUME \E r \in Requests : Others(r) PROVE TypeOK'
    BY <2>1, <2>5, RequestsTypes DEF Others
  <2>6. UNCHANGED storeVars \/ Send \/ Serve \/ \E r \in Requests : Others(r)
    BY <1>2 DEF Next, Compare, CompareBlind, Push, Look, Report
  <2>7. TypeOK'
    BY <2>2, <2>3, <2>4, <2>5, <2>6
  <2> QED
    BY <1>2, <2>7, PushTypes DEF TypeInv, SyncTypeOK
<1> QED
  BY <1>1, <1>2

\* Every value has its type: in particular skills.json is whole or cut off, and
\* a push is about a local skill.
THEOREM TypesHold == Spec => []SyncTypeOK
<1>1. TypeInv => SyncTypeOK
  BY DEF TypeInv
<1> QED
  BY InitTypes, NextTypes, <1>1, PTL DEF Spec

-----------------------------------------------------------------------------
(* Leftovers                                                               *)

\* StartSweepsLeftovers is inductive: whatever leaves a hidden directory behind
\* is a failed step or a crash, after which the last sweep does not count.
THEOREM LeftoversAreSwept == Spec => []StartSweepsLeftovers
<1>1. Init => StartSweepsLeftovers
  BY DEF Init, StoreInit, StartSweepsLeftovers
<1>2. ASSUME StartSweepsLeftovers, [Next]_vars PROVE StartSweepsLeftovers'
  <2>1. ASSUME NEW r \in Requests, Rejected(r) \/ Refuse(r)
        PROVE  StartSweepsLeftovers'
    BY <1>2, <2>1 DEF Rejected, Refuse, DropTemp, Disturbance, StartSweepsLeftovers
  <2>2. CASE \/ \E r \in Requests : Accept(r)
             \/ Install \/ Backup \/ Swap \/ Sweep \/ Delete \/ Save
    BY <1>2, <2>2 DEF Accept, Install, Backup, Swap, Sweep, Delete, Save, Step, files,
                      history, StartSweepsLeftovers
  <2>3. CASE CannotRename \/ StepFails \/ SwapFails \/ SweepFails
    BY <1>2, <2>3 DEF CannotRename, StepFails, SwapFails, SweepFails, DropTemp,
                      Disturbance, StartSweepsLeftovers
  <2>4. CASE Crash \/ Stop \/ Start \/ StartSweepsPart
    BY <2>4 DEF Crash, Stop, Start, StartSweepsPart, Gone, Disturbance,
                StartSweepsLeftovers
  <2>5. CASE StoreSteps
    BY <2>1, <2>2, <2>3, <2>4, <2>5 DEF StoreSteps
  <2>6. ASSUME NEW r \in Requests, StoreRequests(r) PROVE StartSweepsLeftovers'
    BY <1>2, <2>6 DEF StoreRequests, Remove, Ask, NewRequest, files, StartSweepsLeftovers
  <2>7. CASE Send
    BY <1>2, <2>7 DEF Send, Ask, NewRequest, files, StartSweepsLeftovers
  <2>8. CASE UNCHANGED storeVars
    BY <1>2, <2>8 DEF storeVars, files, history, StartSweepsLeftovers
  <2>9. UNCHANGED storeVars \/ Send \/ StoreSteps \/ \E r \in Requests : StoreRequests(r)
    BY <1>2 DEF Next, Compare, CompareBlind, Push, Look, Report, Serve, Others, vars
  <2> QED
    BY <2>5, <2>6, <2>7, <2>8, <2>9
<1> QED
  BY <1>1, <1>2, PTL DEF Spec

-----------------------------------------------------------------------------
(* The directories                                                         *)

\* What a request is about to put in place is among what it may leave.
OpAllowed ==
    /\ op.at \in {"install", "backup", "swap"} => op.entry \in allowed[op.name]
    /\ op.at = "swap" => op.old \in allowed[op.name]
    /\ op.at = "delete" => {None, Half, Stump} \subseteq allowed[op.name]

SurvInv == TypeInv /\ OpAllowed /\ InstalledSkillsSurvive

\* A step that is no write of directories.
LEMMA SurvivesKeeping ==
    ASSUME TypeOK, InstalledSkillsSurvive, skills' = skills, op' = Idle,
           allowed' = allowed, op.at # "swap"
    PROVE  InstalledSkillsSurvive' /\ OpAllowed'
BY DEF TypeOK, InstalledSkillsSurvive, OpAllowed, Idle

LEMMA SurvivesRequests ==
    ASSUME TypeOK, OpAllowed, InstalledSkillsSurvive, NEW r \in Requests,
           NEW n \in Names, NEW kind, NEW c, Ask(r, kind, n, c) \/ Remove(r, n)
    PROVE  InstalledSkillsSurvive' /\ OpAllowed'
<1>1. CASE Ask(r, kind, n, c)
  BY <1>1 DEF Ask, NewRequest, Free, files, InstalledSkillsSurvive, OpAllowed
<1>2. CASE Remove(r, n)
  BY <1>2 DEF Remove, NewRequest, Free, files, Idle, TypeOK, InstalledSkillsSurvive,
              OpAllowed
<1> QED
  BY <1>1, <1>2

LEMMA SurvivesSteps ==
    ASSUME TypeOK, OpAllowed, InstalledSkillsSurvive, StoreSteps
    PROVE  InstalledSkillsSurvive' /\ OpAllowed'
<1>1. ASSUME NEW r \in Requests, Rejected(r) \/ Refuse(r)
      PROVE  InstalledSkillsSurvive' /\ OpAllowed'
  BY <1>1 DEF Rejected, Refuse, InstalledSkillsSurvive, OpAllowed
<1>2. ASSUME NEW r \in Requests, Accept(r)
      PROVE  InstalledSkillsSurvive' /\ OpAllowed'
  <2>1. reading[r] \in Awaited
    BY <1>2 DEF Accept, TypeOK
  <2> QED
    BY <1>2, <2>1 DEF Accept, Awaited, files, Idle, TypeOK, InstalledSkillsSurvive,
                      OpAllowed
<1>3. ASSUME op.at # "idle" PROVE op.name \in Names /\ op \in Working
  BY <1>3, WorkingTyped DEF Working
<1>4. CASE Install \/ Swap
  <2>1. op \in Working
    BY <1>3, <1>4 DEF Install, Swap, Step
  <2> QED
    BY <1>4, <2>1 DEF Install, Swap, Step, Working, TypeOK, InstalledSkillsSurvive,
                      OpAllowed
<1>5. CASE Backup
  <2>1. op \in Working
    BY <1>3, <1>5 DEF Backup
  <2> QED
    BY <1>5, <2>1 DEF Backup, Working, TypeOK, InstalledSkillsSurvive, OpAllowed
<1>6. CASE Sweep \/ Delete
  <2>1. op \in Working
    BY <1>3, <1>6 DEF Sweep, Delete, Step
  <2> QED
    BY <1>6, <2>1 DEF Sweep, Delete, Step, Working, TypeOK, InstalledSkillsSurvive,
                      OpAllowed
<1>7. CASE Save
  <2>1. op \in Working
    BY <1>3, <1>7 DEF Save
  <2> QED
    BY <1>7, <2>1 DEF Save, Working, Idle, TypeOK, InstalledSkillsSurvive, OpAllowed
<1>8. CASE CannotRename
  BY <1>8, SurvivesKeeping DEF CannotRename
<1>9. CASE StepFails
  <2>1. op \in Working
    BY <1>3, <1>9 DEF StepFails
  <2> QED
    BY <1>9, <2>1 DEF StepFails, Partial, Working, Idle, TypeOK, InstalledSkillsSurvive,
                      OpAllowed
<1>10. CASE SwapFails
  <2>1. op \in Working
    BY <1>3, <1>10 DEF SwapFails
  <2> QED
    BY <1>10, <2>1 DEF SwapFails, Working, Idle, TypeOK, InstalledSkillsSurvive,
                       OpAllowed
<1>11. CASE SweepFails
  BY <1>11 DEF SweepFails, Working, TypeOK, Idle, InstalledSkillsSurvive, OpAllowed
<1>12. CASE Crash
  <2>1. op'.at = "idle" /\ OpAllowed'
    BY <1>12 DEF Crash, Gone, Idle, OpAllowed
  <2>2. ASSUME NEW n \in Names PROVE skills'[n] \in allowed'[n]
    <3>1. CASE op.at = "swap"
      BY <1>3, <1>12, <3>1 DEF Crash, Partial, TypeOK, InstalledSkillsSurvive
    <3>2. CASE op.at # "swap"
      BY <1>3, <1>12, <3>2 DEF Crash, Partial, TypeOK, InstalledSkillsSurvive, OpAllowed
    <3> QED
      BY <3>1, <3>2
  <2> QED
    BY <2>1, <2>2 DEF InstalledSkillsSurvive
<1>13. CASE Stop \/ Start \/ StartSweepsPart
  BY <1>13 DEF Stop, Start, StartSweepsPart, Gone, files, Idle, InstalledSkillsSurvive,
               OpAllowed
<1> QED
  BY <1>1, <1>2, <1>4, <1>5, <1>6, <1>7, <1>8, <1>9, <1>10, <1>11, <1>12, <1>13
  DEF StoreSteps

\* A step of the system is one of a push alone, of its request, of a request of
\* another administrator, or of the server.
LEMMA NextCases ==
    ASSUME TypeInv, Next
    PROVE  \/ UNCHANGED storeVars
           \/ StoreSteps
           \/ /\ Send
              /\ push.name \in Names /\ Local[push.name] \in Contents
              /\ \E kind \in {"add", "update"} :
                    Ask(Pusher, kind, push.name, Local[push.name])
           \/ \E r \in Requests, n \in Names : r # Pusher /\ Others(r) /\ Remove(r, n)
           \/ \E r \in Requests, n \in Names, kind \in {"add", "update"}, c \in Contents :
                 r # Pusher /\ Others(r) /\ Ask(r, kind, n, c)
<1>1. ASSUME Send
      PROVE  /\ push.name \in Names /\ Local[push.name] \in Contents
             /\ \E kind \in {"add", "update"} :
                   Ask(Pusher, kind, push.name, Local[push.name])
  BY <1>1 DEF Send, TypeInv, PushHasSkill
<1>2. ASSUME NEW r \in Requests, Others(r)
      PROVE  \/ \E n \in Names : Remove(r, n)
             \/ \E n \in Names, kind \in {"add", "update"}, c \in Contents :
                   Ask(r, kind, n, c)
  BY <1>2, ArchivesAssumption DEF Others, StoreRequests
<1>3. UNCHANGED storeVars \/ Send \/ StoreSteps \/ \E r \in Requests : Others(r)
  BY DEF Next, Compare, CompareBlind, Push, Look, Report, Serve
<1>4. ASSUME NEW r \in Requests, Others(r) PROVE r # Pusher
  BY <1>4 DEF Others
<1> QED
  BY <1>1, <1>2, <1>3, <1>4

\* A skill's directory is always one some request left or was asked to leave,
\* whatever fails, overlaps or crashes.
THEOREM SkillsSurvive == Spec => []InstalledSkillsSurvive
<1>1. Init => SurvInv
  BY InitTypes DEF Init, StoreInit, SurvInv, InstalledSkillsSurvive, OpAllowed, Idle, Empty
<1>2. ASSUME SurvInv, [Next]_vars PROVE SurvInv'
  <2>1. TypeInv' /\ TypeOK
    BY <1>2, NextTypes DEF SurvInv, TypeInv, SyncTypeOK
  <2>2. ASSUME UNCHANGED storeVars PROVE InstalledSkillsSurvive' /\ OpAllowed'
    BY <1>2, <2>2 DEF SurvInv, storeVars, files, InstalledSkillsSurvive, OpAllowed
  <2>3. ASSUME Next PROVE InstalledSkillsSurvive' /\ OpAllowed'
    BY <1>2, <2>1, <2>2, <2>3, NextCases, SurvivesSteps, SurvivesRequests,
       PusherAssumption DEF SurvInv
  <2> QED
    BY <1>2, <2>1, <2>2, <2>3 DEF SurvInv, vars
<1>3. SurvInv => InstalledSkillsSurvive
  BY DEF SurvInv
<1> QED
  BY <1>1, <1>2, <1>3, PTL DEF Spec

-----------------------------------------------------------------------------
(* A push of everything that is new                                        *)

\* A push with --all whose comparison saw the server, while no other
\* administrator makes a request.
Quiet == push.at # "idle" /\ push.mode = "all" /\ push.alone /\ ~push.blind

\* Then the skill stays absent until the push adds it.
QuietPush ==
    Quiet =>
        /\ \A r \in Requests \ {Pusher} : reading[r] = None
        /\ push.at # "found"
        /\ push.at \in {"compared", "missing"} =>
              reading[Pusher] = None /\ op = Idle /\ ~Listed(push.name)
        /\ push.at = "sent" =>
              /\ reading[Pusher] # None => reading[Pusher].kind = "add"
              /\ op.at \notin {"backup", "swap"}

QuietInv == TypeInv /\ QuietPush

\* A comparison that sees the server selects for --all only what it has not.
LEMMA QuietStarts ==
    ASSUME TypeInv, NEW n \in Names, NEW mode \in Modes,
           Compare(n, mode) \/ CompareBlind(n, mode)
    PROVE  QuietPush'
<1>1. CASE CompareBlind(n, mode)
  BY <1>1 DEF CompareBlind, Push, QuietPush, Quiet
<1>2. CASE Compare(n, mode)
  <2>1. mode = "all" => ~Listed(n)
    BY <1>2 DEF Compare, Push, Pushable, Status
  <2> QED
    BY <1>2, <2>1, PusherAssumption
    DEF Compare, Push, QuietPush, Quiet, storeVars, files, Listed
<1> QED
  BY <1>1, <1>2

LEMMA QuietOthers ==
    ASSUME TypeInv, NEW r \in Requests, Others(r)
    PROVE  ~Quiet'
<1>1. CASE push = NoPush
  BY <1>1 DEF Others, Quiet, NoPush
<1>2. CASE push # NoPush
  BY <1>2 DEF Others, Quiet, TypeInv, SyncTypeOK
<1> QED
  BY <1>1, <1>2

LEMMA QuietServe ==
    ASSUME TypeInv, QuietPush, StoreSteps, push' = push, Quiet
    PROVE  QuietPush'
<1>1. TypeOK
  BY DEF TypeInv, SyncTypeOK
<1>2. \A r \in Requests : reading'[r] \in {reading[r], None}
  BY <1>1 DEF StoreSteps, Rejected, Refuse, Accept, Install, Swap, Sweep, Delete, Backup,
              Save, Step, CannotRename, StepFails, SwapFails, SweepFails, Crash, Stop,
              Start, StartSweepsPart, Gone, TypeOK
<1>3. CASE push.at \in {"compared", "missing"}
  <2>1. reading = [r \in Requests |-> None] /\ op = Idle /\ ~Listed(push.name)
    BY <1>1, <1>3 DEF QuietPush, TypeOK
  <2>2. op' = Idle /\ skills' = skills
    BY <2>1 DEF StoreSteps, Rejected, Refuse, Accept, Install, Swap, Sweep, Delete,
                Backup, Save, Step, CannotRename, StepFails, SwapFails, SweepFails, Crash,
                Stop, Start, StartSweepsPart, Gone, Partial, Idle, files
  <2> QED
    BY <1>2, <1>3, <2>1, <2>2, PusherAssumption DEF QuietPush, Listed
<1>4. CASE push.at = "sent"
  <2>1. op'.at \notin {"backup", "swap"}
    <3>1. ASSUME NEW r \in Requests, Accept(r) PROVE op'.at \notin {"backup", "swap"}
      <4>1. reading[r] # None /\ r = Pusher /\ reading[r].kind = "add"
        BY <1>4, <3>1 DEF Accept, QuietPush
      <4> QED
        BY <3>1, <4>1 DEF Accept
    <3>2. ASSUME NEW r \in Requests, Rejected(r) \/ Refuse(r)
          PROVE op'.at \notin {"backup", "swap"}
      BY <1>4, <3>2 DEF Rejected, Refuse, QuietPush
    <3>3. op.at \notin {"backup", "swap"}
      BY <1>4 DEF QuietPush
    <3>4. op = Idle \/ op \in Working
      BY <1>1 DEF TypeOK
    <3>5. CASE Install \/ Swap \/ Sweep \/ Delete \/ Backup
      BY <3>3, <3>4, <3>5 DEF Install, Swap, Sweep, Delete, Backup, Step, Working, Idle
    <3>6. CASE Save \/ CannotRename \/ StepFails \/ SwapFails \/ Crash \/ Stop
      BY <3>6 DEF Save, CannotRename, StepFails, SwapFails, Crash, Stop, Gone, Idle
    <3>7. CASE SweepFails
      BY <3>4, <3>7 DEF SweepFails, Working, Idle
    <3>8. CASE Start \/ StartSweepsPart
      BY <3>3, <3>8 DEF Start, StartSweepsPart
    <3> QED
      BY <3>1, <3>2, <3>5, <3>6, <3>7, <3>8 DEF StoreSteps
  <2> QED
    BY <1>2, <1>4, <2>1, PusherAssumption DEF QuietPush
<1> QED
  BY <1>3, <1>4 DEF Quiet, QuietPush, TypeInv, SyncTypeOK

LEMMA QuietClient ==
    ASSUME TypeInv, QuietPush, Look \/ Send \/ Report
    PROVE  QuietPush'
<1>1. CASE push' = NoPush
  BY <1>1 DEF QuietPush, Quiet, NoPush
<1>2. CASE Look /\ push' # NoPush
  BY <1>2 DEF Look, QuietPush, Quiet, storeVars, files, Listed, TypeInv, SyncTypeOK
<1>3. CASE Send
  <2>1. CASE ~Quiet
    BY <1>3, <2>1 DEF Send, QuietPush, Quiet, TypeInv, SyncTypeOK
  <2>2. CASE Quiet
    <3>1. push.at = "missing" /\ op = Idle
      BY <1>3, <2>2 DEF Send, QuietPush
    <3>2. Ask(Pusher, "add", push.name, Local[push.name])
      BY <1>3, <3>1 DEF Send
    <3>3. push'.at = "sent"
      BY <1>3 DEF Send, TypeInv, SyncTypeOK
    <3>4. reading'[Pusher].kind = "add" /\ op' = Idle
          /\ \A r \in Requests \ {Pusher} : reading'[r] = None
      BY <2>2, <3>1, <3>2, PusherAssumption DEF Ask, QuietPush, TypeInv, SyncTypeOK, TypeOK
    <3> QED
      BY <3>3, <3>4 DEF QuietPush, Idle
  <2> QED
    BY <2>1, <2>2
<1>4. CASE Report
  BY <1>1, <1>4 DEF Report
<1> QED
  BY <1>1, <1>2, <1>3, <1>4

\* push --all replaces no skill that differs, unless another administrator made
\* a request meanwhile or the server could not be listed.
THEOREM PushAllSparesDiverged == Spec => []PushSparesDiverged
<1>1. Init => QuietInv
  BY InitTypes DEF Init, QuietInv, QuietPush, Quiet, NoPush
<1>2. ASSUME QuietInv, [Next]_vars PROVE QuietInv'
  <2>1. TypeInv' /\ TypeInv /\ QuietPush
    BY <1>2, NextTypes DEF QuietInv
  <2>2. CASE UNCHANGED vars
    BY <2>1, <2>2 DEF vars, storeVars, files, QuietInv, QuietPush, Quiet, Listed
  <2>3. ASSUME Next PROVE QuietPush'
    <3>1. CASE Serve
      <4>1. CASE Quiet
        BY <2>1, <3>1, <4>1, QuietServe DEF Serve
      <4>2. CASE ~Quiet
        BY <3>1, <4>2 DEF Serve, QuietPush, Quiet
      <4> QED
        BY <4>1, <4>2
    <3>2. CASE \E r \in Requests : Others(r)
      BY <2>1, <3>2, QuietOthers DEF QuietPush
    <3> QED
      BY <2>1, <2>3, <3>1, <3>2, QuietStarts, QuietClient DEF Next
  <2> QED
    BY <1>2, <2>1, <2>2, <2>3 DEF QuietInv
<1>3. QuietInv => PushSparesDiverged
  BY DEF QuietInv, QuietPush, Quiet, PushSparesDiverged, TypeInv, SyncTypeOK
<1> QED
  BY <1>1, <1>2, <1>3, PTL DEF Spec

-----------------------------------------------------------------------------
(* Requests one at a time                                                  *)

Sequential == ~overlapped /\ disturbances = 0

\* What the directories are at each step of the request that uses them.
Agree ==
    /\ registry \in [Names -> Whole]
    /\ op.at \in {"idle", "install", "backup", "delete"} => skills = registry
    /\ op.at = "swap" => skills = [registry EXCEPT ![op.name] = None]
    /\ op.at \in {"sweep", "save"} => skills = [registry EXCEPT ![op.name] = op.entry]
    /\ op.at = "delete" => op.entry = None

\* The request that has the server has the latest skills.json.
Alone ==
    /\ \A r \in Requests : reading[r] # None =>
          /\ op = Idle /\ reading[r].copy = registry
          /\ \A q \in Requests : reading[q] # None => q = r
    /\ op # Idle => op.copy = registry

SeqInv == Sequential => Agree /\ Alone

\* Without a failure, a step of the server leaves the files in agreement.
LEMMA SequentialSteps ==
    ASSUME TypeOK, SeqInv, StoreSteps, Sequential'
    PROVE  Agree' /\ Alone'
<1>1. Sequential /\ Agree /\ Alone
  <2>1. ~overlapped
    BY DEF StoreSteps, Rejected, Refuse, Accept, Install, Swap, Sweep, Delete, Backup, Save,
           Step, CannotRename, StepFails, SwapFails, SweepFails, Crash, Stop, Start,
           StartSweepsPart, history, Sequential
  <2>2. disturbances = 0
    BY DropTempTypes, DisturbanceTypes
    DEF StoreSteps, Rejected, Refuse, Accept, Install, Swap, Sweep, Delete, Backup, Save,
        Step, CannotRename, StepFails, SwapFails, SweepFails, Crash, Stop, Start,
        StartSweepsPart, history, Sequential
  <2> QED
    BY <2>1, <2>2 DEF SeqInv, Sequential
<1>2. ~(StepFails \/ SwapFails \/ SweepFails \/ Crash \/ StartSweepsPart)
  BY DisturbanceTypes
  DEF StepFails, SwapFails, SweepFails, Crash, StartSweepsPart, Sequential
<1>3. ASSUME NEW r \in Requests, Rejected(r) \/ Refuse(r)
      PROVE  Agree' /\ Alone'
  BY <1>1, <1>3 DEF Rejected, Refuse, Agree, Alone, TypeOK
<1>4. ASSUME NEW r \in Requests, Accept(r)
      PROVE  Agree' /\ Alone'
  <2>1. reading[r] \in Awaited /\ reading[r] # None
    BY <1>4 DEF Accept, TypeOK
  <2>2. reading[r].copy = registry /\ \A q \in Requests : reading'[q] = None
    BY <1>1, <1>4, <2>1 DEF Accept, Alone, TypeOK
  <2>3. /\ op'.at \in {"install", "backup"} /\ op'.copy = registry
        /\ op' # Idle
    BY <1>4, <2>2 DEF Accept, Idle
  <2>4. Agree'
    BY <1>1, <1>4, <2>3 DEF Accept, files, Agree, Idle
  <2> QED
    BY <1>4, <2>2, <2>3, <2>4 DEF Accept, files, Alone
<1>5. CASE Install \/ Swap \/ Sweep \/ Delete \/ Backup \/ Save \/ CannotRename
  <2>1. op \in Working
    BY <1>5, WorkingTyped
    DEF Install, Swap, Sweep, Delete, Backup, Save, Step, CannotRename
  <2>2. op # Idle /\ op.name \in Names
    BY <2>1 DEF Working, Idle
  <2>3. op.copy = registry /\ \A r \in Requests : reading[r] = None
    BY <1>1, <2>2 DEF Alone
  <2>4. CASE Install \/ Swap \/ Sweep \/ Delete
    <3>1. op'.at \in {"sweep", "save"} /\ op'.entry = op.entry /\ op'.name = op.name
          /\ op'.copy = op.copy /\ registry' = registry /\ reading' = reading
      BY <2>1, <2>4 DEF Install, Swap, Sweep, Delete, Step, Working
    <3>2. skills' = [registry EXCEPT ![op.name] = op.entry]
      BY <1>1, <2>1, <2>4 DEF Install, Swap, Sweep, Delete, Step, Agree, Working
    <3> QED
      BY <1>1, <2>3, <3>1, <3>2 DEF Agree, Alone, Idle
  <2>5. CASE Backup
    <3>1. op'.at = "swap" /\ op'.name = op.name /\ op'.copy = op.copy
      BY <2>1, <2>5 DEF Backup, Working
    <3> QED
      BY <1>1, <2>3, <2>5, <3>1 DEF Backup, Agree, Alone, Idle
  <2>6. CASE Save
    <3>1. registry' = skills /\ skills' = skills /\ op' = Idle /\ reading' = reading
      BY <1>1, <2>3, <2>6 DEF Save, Entry, Agree
    <3>2. registry' \in [Names -> Whole]
      BY <2>1, <2>6 DEF Save, Entry, Working
    <3> QED
      BY <2>3, <3>1, <3>2 DEF Agree, Alone, Idle
  <2>7. CASE CannotRename
    BY <1>1, <2>3, <2>7 DEF CannotRename, Agree, Alone, Idle
  <2> QED
    BY <1>5, <2>4, <2>5, <2>6, <2>7
<1>6. CASE Stop \/ Start
  BY <1>1, <1>6 DEF Stop, Start, Gone, files, Agree, Alone, Idle
<1> QED
  BY <1>2, <1>3, <1>4, <1>5, <1>6 DEF StoreSteps

LEMMA SequentialRequests ==
    ASSUME TypeOK, SeqInv, NEW r \in Requests, NEW n \in Names, NEW kind, NEW c,
           Ask(r, kind, n, c) \/ Remove(r, n), Sequential'
    PROVE  Agree' /\ Alone'
<1>1. /\ Agree /\ Alone /\ op = Idle /\ UNCHANGED files
      /\ \A q \in Requests : reading[q] = None
  BY DEF Ask, Remove, NewRequest, Free, SeqInv, Sequential
<1>2. CASE Ask(r, kind, n, c)
  BY <1>1, <1>2 DEF Ask, files, Agree, Alone, TypeOK
<1>3. CASE Remove(r, n)
  BY <1>1, <1>3 DEF Remove, files, Agree, Alone, Idle, TypeOK
<1> QED
  BY <1>2, <1>3

\* While administrators wait for each other and nothing fails, SYNCED means that
\* the server serves the files and the size of the local skill.
THEOREM StatusIsTrue == Spec => []SequentialStatusIsTrue
<1>1. Init => TypeInv /\ SeqInv
  BY InitTypes DEF Init, StoreInit, TypeInv, SyncTypeOK, TypeOK, SeqInv, Agree, Alone,
                   Empty, Whole, Idle
<1>2. ASSUME TypeInv, SeqInv, [Next]_vars PROVE TypeInv' /\ SeqInv'
  <2>1. TypeInv' /\ TypeOK
    BY <1>2, NextTypes DEF TypeInv, SyncTypeOK
  <2>2. ASSUME UNCHANGED storeVars PROVE SeqInv'
    BY <1>2, <2>2 DEF SeqInv, Sequential, Agree, Alone, storeVars, files, history
  <2>3. ASSUME Next PROVE SeqInv'
    BY <1>2, <2>1, <2>2, <2>3, NextCases, SequentialSteps, SequentialRequests,
       PusherAssumption DEF SeqInv
  <2> QED
    BY <1>2, <2>1, <2>2, <2>3 DEF vars
<1>3. TypeInv /\ SeqInv => SequentialStatusIsTrue
  <2> SUFFICES ASSUME TypeInv, SeqInv, ~overlapped, disturbances = 0, op = Idle,
                      NEW n \in Names, Local[n] # None, Listed(n)
               PROVE  Status(n) = "SYNCED" <=>
                        /\ Shape[skills[n]].files = Shape[Local[n]].files
                        /\ Shape[skills[n]].size = Shape[Local[n]].size
    BY DEF SequentialStatusIsTrue
  <2>1. skills = registry /\ registry[n] \in Whole
    BY DEF SeqInv, Sequential, Agree, Idle
  <2>2. skills[n] \in Contents
    BY <2>1, ValuesAssumption DEF Listed, Whole
  <2>3. registry[n] # None
    BY <2>1, <2>2, ValuesAssumption
  <2>4. RemoteFiles(n) = Shape[skills[n]].files /\ RemoteSize(n) = Shape[skills[n]].size
    BY <2>1, <2>2, <2>3 DEF RemoteFiles, RemoteSize
  <2>5. Status(n) = IF LooksSynced(n) THEN "SYNCED" ELSE "DIVERGED"
    BY DEF Status
  <2> QED
    BY <2>4, <2>5 DEF LooksSynced
<1> QED
  BY <1>1, <1>2, <1>3, PTL DEF Spec
=============================================================================
