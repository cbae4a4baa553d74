-------------------------- MODULE AgentStoreProofs --------------------------
(***************************************************************************)
(* Proofs about AgentStore, for every set of agents and of prompts and     *)
(* every number of failed writes and crashes.                              *)
(***************************************************************************)
EXTENDS AgentStore, TLAPS

USE ValuesAssumption, BoundAssumption

\* Only a server that is up has a request, which has read agents.json, and a
\* prompt that is going to be written is a content.
TypeInv ==
    /\ TypeOK
    /\ op # Idle => mode = "up" /\ metadata \in [Names -> Contents \cup {None, Unsized}]
    /\ op.at \in {"prompt", "plugin"} => op.content \in Contents /\ op.entry = op.content
    /\ op.at \in {"unlink", "unlink copy"} => op.entry = None

-----------------------------------------------------------------------------
(* Types                                                                   *)

LEMMA InitTypes == Init => TypeInv
<1> SUFFICES ASSUME Init PROVE TypeInv
  OBVIOUS
<1>1. Nothing \in [Names -> Contents \cup {None}]
  BY DEF Nothing
<1>2. allowed \in [Names -> SUBSET (Contents \cup {None})]
  BY DEF Init
<1>3. disturbances \in 0..MaxDisturbances
  BY DEF Init
<1>4. synced \in BOOLEAN /\ mode \in {"down", "syncing", "up"}
  BY DEF Init
<1>5. op = Idle /\ prompts = Nothing /\ plugin = Nothing /\ metadata = Nothing
  BY DEF Init
<1> QED
  BY <1>1, <1>2, <1>3, <1>4, <1>5 DEF TypeInv, TypeOK, Idle, Nothing

LEMMA PendingIsNotIdle == \A x \in Pending : x # Idle /\ x.at # "idle"
<1> SUFFICES ASSUME NEW x \in Pending PROVE x # Idle /\ x.at # "idle"
  OBVIOUS
<1>1. x.at # "idle"
  BY DEF Pending
<1>2. Idle.at = "idle"
  BY DEF Idle
<1> QED
  BY <1>1, <1>2

\* The request in progress, while it has a step to take.
LEMMA PendingTyped ==
    ASSUME TypeInv, op.at # "idle"
    PROVE  op \in Pending /\ op # Idle /\ mode = "up"
<1>1. op # Idle
  BY DEF Idle
<1> QED
  BY <1>1 DEF TypeInv, TypeOK

\* What a request that begins will do.
LEMMA RequestTypes ==
    ASSUME NewRequests, TypeInv
    PROVE  TypeInv' /\ mode = "up" /\ op = Idle
<1>1. mode = "up" /\ op = Idle /\ metadata \in [Names -> Contents \cup {None, Unsized}]
      /\ UNCHANGED <<mode, files, synced, disturbances>>
  BY DEF NewRequests, AddAgent, UpdateContent, UpdateDescription, RemoveAgent, NewRequest,
         TypeInv, TypeOK
<1>2. ASSUME NEW n \in Names, NEW c \in Contents, WillWrite(n, c) PROVE TypeInv'
  <2>1. op' \in Pending /\ op'.at = "prompt" /\ op'.content = c /\ op'.entry = c
    BY <1>2 DEF WillWrite, Request, Pending
  <2>2. allowed' \in [Names -> SUBSET (Contents \cup {None})]
    BY <1>2 DEF WillWrite, TypeInv, TypeOK
  <2> QED
    BY <1>1, <2>1, <2>2 DEF TypeInv, TypeOK, files, Pending
<1>3. ASSUME NEW n \in Names, UpdateDescription(n) PROVE TypeInv'
  <2>1. op' \in Pending /\ op'.at = "metadata"
    BY <1>1, <1>3 DEF UpdateDescription, Request, Pending
  <2> QED
    BY <1>1, <1>3, <2>1 DEF UpdateDescription, TypeInv, TypeOK, files, Pending
<1>4. ASSUME NEW n \in Names, RemoveAgent(n) PROVE TypeInv'
  <2>1. op' \in Pending /\ op'.at \in {"unlink", "metadata"} /\ op'.entry = None
    BY <1>4 DEF RemoveAgent, Request, Pending
  <2>2. allowed' \in [Names -> SUBSET (Contents \cup {None})]
    BY <1>4 DEF RemoveAgent, TypeInv, TypeOK
  <2> QED
    BY <1>1, <2>1, <2>2 DEF TypeInv, TypeOK, files, Pending
<1> QED
  BY <1>1, <1>2, <1>3, <1>4 DEF NewRequests, AddAgent, UpdateContent

LEMMA WriteTypes ==
    ASSUME TypeInv, Writes
    PROVE  TypeInv' /\ op \in Pending /\ op # Idle
<1>1. op \in Pending /\ op # Idle /\ mode = "up"
  BY PendingTyped DEF Writes, WritePrompt, WritePlugin, UnlinkPrompt, UnlinkCopy,
                      SaveMetadata, Step
<1>2. TypeOK /\ metadata \in [Names -> Contents \cup {None, Unsized}]
  BY <1>1 DEF TypeInv
<1>3. ASSUME NEW at \in {"prompt", "plugin", "unlink", "unlink copy"},
             NEW next \in {"plugin", "metadata", "unlink copy"},
             Step(at, next)
      PROVE  /\ op' \in Pending /\ op'.at = next
             /\ op'.name = op.name /\ op'.content = op.content /\ op'.entry = op.entry
             /\ UNCHANGED <<mode, synced, allowed, disturbances>>
  BY <1>1, <1>3 DEF Step, Pending
<1>4. CASE WritePrompt \/ WritePlugin
  <2>1. op.content \in Contents /\ op.entry = op.content
    BY <1>4 DEF WritePrompt, WritePlugin, Step, TypeInv
  <2>2. /\ op' \in Pending /\ op'.at \in {"plugin", "metadata"}
        /\ op'.content = op.content /\ op'.entry = op.entry
        /\ UNCHANGED <<mode, metadata, synced, allowed, disturbances>>
    BY <1>3, <1>4 DEF WritePrompt, WritePlugin
  <2>3. prompts' \in [Names -> Contents \cup {None}]
        /\ plugin' \in [Names -> Contents \cup {None, Cut}]
    BY <1>1, <1>2, <1>4, <2>1 DEF WritePrompt, WritePlugin, TypeOK, Pending
  <2> QED
    BY <1>1, <1>2, <2>1, <2>2, <2>3 DEF TypeInv, TypeOK
<1>5. CASE UnlinkPrompt \/ UnlinkCopy
  <2>1. op.entry = None
    BY <1>5 DEF UnlinkPrompt, UnlinkCopy, Step, TypeInv
  <2>2. /\ op' \in Pending /\ op'.at \in {"unlink copy", "metadata"} /\ op'.entry = op.entry
        /\ UNCHANGED <<mode, metadata, synced, allowed, disturbances>>
    BY <1>3, <1>5 DEF UnlinkPrompt, UnlinkCopy
  <2>3. prompts' \in [Names -> Contents \cup {None}]
        /\ plugin' \in [Names -> Contents \cup {None, Cut}]
    BY <1>1, <1>2, <1>5 DEF UnlinkPrompt, UnlinkCopy, TypeOK, Pending
  <2> QED
    BY <1>1, <1>2, <2>1, <2>2, <2>3 DEF TypeInv, TypeOK
<1>6. CASE SaveMetadata
  <2>1. metadata' \in [Names -> Contents \cup {None, Unsized}]
    BY <1>1, <1>2, <1>6 DEF SaveMetadata, Pending
  <2>2. allowed' \in [Names -> SUBSET (Contents \cup {None})]
    <3>1. op.name \in Names /\ prompts[op.name] \in Contents \cup {None}
      BY <1>1, <1>2 DEF Pending, TypeOK
    <3>2. allowed \in [Names -> SUBSET (Contents \cup {None})]
      BY <1>2 DEF TypeOK
    <3> QED
      BY <1>6, <3>1, <3>2 DEF SaveMetadata
  <2>3. op' = Idle /\ op'.at = "idle"
    BY <1>6 DEF SaveMetadata, Idle
  <2> QED
    BY <1>2, <1>6, <2>1, <2>2, <2>3 DEF SaveMetadata, TypeInv, TypeOK
<1> QED
  BY <1>1, <1>4, <1>5, <1>6 DEF Writes

LEMMA DisturbanceTypes ==
    ASSUME TypeInv, Disturbance
    PROVE  /\ disturbances' \in 0..MaxDisturbances /\ disturbances' # 0
           /\ op' = Idle /\ synced' = FALSE /\ allowed' = allowed
<1>1. disturbances \in 0..MaxDisturbances
  BY DEF TypeInv, TypeOK
<1>2. disturbances' \in 0..MaxDisturbances /\ disturbances' # 0
  BY <1>1 DEF Disturbance
<1> QED
  BY <1>2 DEF Disturbance

LEMMA PartialTypes ==
    ASSUME TypeInv, Partial
    PROVE  /\ prompts' = prompts
           /\ plugin' \in [Names -> Contents \cup {None, Cut}]
           /\ metadata' = Cut \/ metadata' \in [Names -> Contents \cup {None, Unsized}]
BY DEF Partial, files, Nothing, TypeInv, TypeOK

LEMMA FailureTypes ==
    ASSUME TypeInv, WriteFails \/ Crash \/ \E n \in Names : SyncFails(n)
    PROVE  /\ TypeInv' /\ prompts' = prompts
           /\ disturbances' # 0 /\ op' = Idle /\ synced' = FALSE /\ allowed' = allowed
<1>1. /\ disturbances' \in 0..MaxDisturbances /\ disturbances' # 0
      /\ op' = Idle /\ synced' = FALSE /\ allowed' = allowed
  BY DisturbanceTypes DEF WriteFails, Crash, SyncFails
<1>2. /\ prompts' = prompts
      /\ plugin' \in [Names -> Contents \cup {None, Cut}]
      /\ metadata' = Cut \/ metadata' \in [Names -> Contents \cup {None, Unsized}]
  <2>1. CASE WriteFails \/ Crash
    BY <2>1, PartialTypes DEF WriteFails, Crash
  <2>2. ASSUME NEW n \in Names, SyncFails(n)
        PROVE  /\ prompts' = prompts /\ metadata' = metadata
               /\ plugin' \in [Names -> Contents \cup {None, Cut}]
    BY <2>2 DEF SyncFails, TypeInv, TypeOK
  <2> QED
    BY <2>1, <2>2 DEF TypeInv, TypeOK
<1>3. mode' \in {"down", "syncing", "up"}
  BY DEF WriteFails, Crash, SyncFails, TypeInv, TypeOK
<1> QED
  BY <1>1, <1>2, <1>3 DEF TypeInv, TypeOK, Idle

LEMMA RestartTypes ==
    ASSUME TypeInv, Stop \/ Start \/ SyncDone \/ \E n \in Names : SyncPrompt(n)
    PROVE  /\ TypeInv' /\ op = Idle /\ op' = Idle /\ prompts' = prompts
           /\ metadata' = metadata /\ allowed' = allowed /\ disturbances' = disturbances
<1>1. op = Idle
  BY DEF Stop, Start, SyncDone, SyncPrompt, TypeInv
<1>2. CASE Stop \/ Start \/ SyncDone
  BY <1>1, <1>2 DEF Stop, Start, SyncDone, files, TypeInv, TypeOK
<1>3. ASSUME NEW n \in Names, SyncPrompt(n)
      PROVE  plugin' \in [Names -> Contents \cup {None, Cut}]
             /\ UNCHANGED <<mode, op, prompts, metadata, synced, allowed, disturbances>>
  BY <1>3 DEF SyncPrompt, TypeInv, TypeOK
<1> QED
  BY <1>1, <1>2, <1>3 DEF Stop, Start, SyncDone, files, TypeInv, TypeOK

LEMMA NextTypes == TypeInv /\ [Next]_vars => TypeInv'
<1>1. TypeInv /\ UNCHANGED vars => TypeInv'
  BY DEF vars, files, TypeInv, TypeOK
<1> QED
  BY <1>1, RequestTypes, WriteTypes, FailureTypes, RestartTypes DEF Next

\* Every value has its type.
THEOREM TypesHold == Spec => []TypeOK
<1>1. TypeInv => TypeOK
  BY DEF TypeInv
<1> QED
  BY InitTypes, NextTypes, <1>1, PTL DEF Spec

-----------------------------------------------------------------------------
(* Durability                                                              *)

\* What the request in progress is about to leave of the prompt is among what
\* it may leave.
WillBeAllowed ==
    /\ op.at = "prompt" => op.content \in allowed[op.name]
    /\ op.at = "unlink" => None \in allowed[op.name]

DurableInv == TypeInv /\ WillBeAllowed /\ AnswersAreDurable

LEMMA DurableStep ==
    ASSUME DurableInv, Next
    PROVE  WillBeAllowed' /\ AnswersAreDurable'
<1>1. TypeInv /\ TypeOK /\ WillBeAllowed /\ AnswersAreDurable
  BY DEF DurableInv, TypeInv
<1>2. CASE NewRequests
  <2>1. prompts' = prompts
    BY <1>2 DEF NewRequests, AddAgent, UpdateContent, UpdateDescription, RemoveAgent,
                NewRequest, files
  <2>2. ASSUME NEW n \in Names, NEW c \in Contents, WillWrite(n, c)
        PROVE  WillBeAllowed' /\ AnswersAreDurable'
    BY <1>1, <2>1, <2>2 DEF WillWrite, Request, TypeOK, WillBeAllowed, AnswersAreDurable
  <2>3. ASSUME NEW n \in Names, UpdateDescription(n) \/ RemoveAgent(n)
        PROVE  WillBeAllowed' /\ AnswersAreDurable'
    BY <1>1, <2>1, <2>3
    DEF UpdateDescription, RemoveAgent, Request, TypeOK, WillBeAllowed, AnswersAreDurable
  <2> QED
    BY <1>2, <2>2, <2>3 DEF NewRequests, AddAgent, UpdateContent
<1>3. CASE Writes
  <2>1. op \in Pending
    BY <1>1, <1>3, WriteTypes
  <2>2. CASE WritePrompt \/ UnlinkPrompt \/ WritePlugin \/ UnlinkCopy
    BY <1>1, <2>1, <2>2
    DEF WritePrompt, UnlinkPrompt, WritePlugin, UnlinkCopy, Step, Pending, TypeOK,
        WillBeAllowed, AnswersAreDurable
  <2>3. CASE SaveMetadata
    BY <1>1, <2>1, <2>3
    DEF SaveMetadata, Pending, Idle, TypeOK, WillBeAllowed, AnswersAreDurable
  <2> QED
    BY <1>3, <2>2, <2>3 DEF Writes
<1>4. CASE prompts' = prompts /\ allowed' = allowed /\ op' = Idle
  BY <1>1, <1>4 DEF Idle, WillBeAllowed, AnswersAreDurable
<1> QED
  BY <1>1, <1>2, <1>3, <1>4, FailureTypes, RestartTypes DEF Next

\* A prompt is what the last answer said of it, or that of a later request that
\* failed, whatever fails and whenever the process dies.
THEOREM PromptsAreDurable == Spec => []AnswersAreDurable
<1>1. Init => DurableInv
  BY InitTypes DEF Init, Nothing, Idle, DurableInv, WillBeAllowed, AnswersAreDurable
<1>2. DurableInv /\ [Next]_vars => DurableInv'
  <2> SUFFICES ASSUME DurableInv, [Next]_vars PROVE DurableInv'
    OBVIOUS
  <2>1. TypeInv'
    BY NextTypes DEF DurableInv
  <2>2. CASE UNCHANGED vars
    BY <2>1, <2>2 DEF vars, files, DurableInv, WillBeAllowed, AnswersAreDurable
  <2> QED
    BY <2>1, <2>2, DurableStep DEF DurableInv
<1>3. DurableInv => AnswersAreDurable
  BY DEF DurableInv
<1> QED
  BY <1>1, <1>2, <1>3, PTL DEF Spec

-----------------------------------------------------------------------------
(* The copies                                                              *)

\* After a complete synchronisation the copy of an agent lags behind its prompt
\* only between the two writes of a request.
CopiesFollow ==
    synced =>
        /\ mode = "up"
        /\ \A n \in Names : prompts[n] # None =>
              \/ plugin[n] = prompts[n]
              \/ op.at = "plugin" /\ op.name = n
        /\ op.at = "plugin" => prompts[op.name] = op.content
        /\ op.at = "unlink copy" => prompts[op.name] = None

CopiesInv == TypeInv /\ CopiesFollow

LEMMA CopiesStep ==
    ASSUME CopiesInv, Next
    PROVE  CopiesFollow'
<1>1. TypeInv /\ TypeOK /\ CopiesFollow
  BY DEF CopiesInv, TypeInv
<1>2. CASE NewRequests
  <2>1. op = Idle /\ UNCHANGED <<mode, files, synced>>
    BY <1>1, <1>2, RequestTypes
    DEF NewRequests, AddAgent, UpdateContent, UpdateDescription, RemoveAgent, NewRequest
  <2>2. op'.at \in {"prompt", "unlink", "metadata"}
    BY <1>2 DEF NewRequests, AddAgent, UpdateContent, WillWrite, UpdateDescription,
                RemoveAgent, Request
  <2> QED
    BY <1>1, <2>1, <2>2 DEF files, Idle, CopiesFollow
<1>3. CASE Writes
  <2>1. op \in Pending
    BY <1>1, <1>3, WriteTypes
  <2>2. CASE WritePrompt
    <3>1. op'.at = "plugin" /\ op'.name = op.name /\ op'.content = op.content
      BY <2>1, <2>2 DEF WritePrompt, Step, Pending
    <3>2. op.at = "prompt" /\ op.name \in Names /\ UNCHANGED <<mode, synced, plugin>>
      BY <2>1, <2>2 DEF WritePrompt, Step, Pending
    <3>3. prompts \in [Names -> Contents \cup {None}]
          /\ prompts' = [prompts EXCEPT ![op.name] = op.content]
      BY <1>1, <2>2 DEF WritePrompt, TypeOK
    <3> QED
      BY <1>1, <3>1, <3>2, <3>3 DEF CopiesFollow
  <2>5. CASE WritePlugin
    <3>1. op'.at = "metadata"
      BY <2>1, <2>5 DEF WritePlugin, Step, Pending
    <3>2. op.at = "plugin" /\ op.name \in Names /\ UNCHANGED <<mode, synced, prompts>>
      BY <2>1, <2>5 DEF WritePlugin, Step, Pending
    <3>3. plugin' = [plugin EXCEPT ![op.name] = op.content]
          /\ plugin \in [Names -> Contents \cup {None, Cut}]
      BY <1>1, <2>5 DEF WritePlugin, TypeOK
    <3> QED
      BY <1>1, <3>1, <3>2, <3>3 DEF CopiesFollow
  <2>3. CASE UnlinkPrompt \/ UnlinkCopy
    BY <1>1, <2>1, <2>3
    DEF UnlinkPrompt, UnlinkCopy, Step, Pending, TypeOK, CopiesFollow
  <2>4. CASE SaveMetadata
    BY <1>1, <2>4 DEF SaveMetadata, Idle, CopiesFollow
  <2> QED
    BY <1>3, <2>2, <2>3, <2>4, <2>5 DEF Writes
<1>4. CASE WriteFails \/ Crash \/ \E n \in Names : SyncFails(n)
  BY <1>1, <1>4, FailureTypes DEF CopiesFollow
<1>5. CASE Stop \/ Start
  BY <1>1, <1>5 DEF Stop, Start, CopiesFollow
<1>6. CASE SyncDone
  <2>1. op = Idle /\ op' = Idle
    BY <1>1, <1>6, RestartTypes
  <2>2. \A n \in Names : prompts[n] # None => plugin[n] = prompts[n]
    BY <1>6 DEF SyncDone, Stale
  <2> QED
    BY <1>6, <2>1, <2>2 DEF SyncDone, files, Idle, CopiesFollow
<1>7. ASSUME NEW n \in Names, SyncPrompt(n) PROVE CopiesFollow'
  BY <1>1, <1>7 DEF SyncPrompt, CopiesFollow
<1> QED
  BY <1>2, <1>3, <1>4, <1>5, <1>6, <1>7 DEF Next

\* A start that could synchronise repairs every copy, and requests keep them
\* repaired.
THEOREM StartsRepair == Spec => []StartRepairsCopies
<1>1. Init => CopiesInv
  BY InitTypes DEF Init, CopiesInv, CopiesFollow
<1>2. CopiesInv /\ [Next]_vars => CopiesInv'
  <2> SUFFICES ASSUME CopiesInv, [Next]_vars PROVE CopiesInv'
    OBVIOUS
  <2>1. TypeInv'
    BY NextTypes DEF CopiesInv
  <2>2. CASE UNCHANGED vars
    BY <2>1, <2>2 DEF vars, files, CopiesInv, CopiesFollow
  <2> QED
    BY <2>1, <2>2, CopiesStep DEF CopiesInv
<1>3. CopiesInv => StartRepairsCopies
  BY DEF CopiesInv, CopiesFollow, StartRepairsCopies, Idle
<1> QED
  BY <1>1, <1>2, <1>3, PTL DEF Spec

-----------------------------------------------------------------------------
(* Without failures                                                        *)

\* How far the three places have been changed by the request in progress.
PlacesFollow ==
    disturbances = 0 =>
        /\ op.at \in {"idle", "prompt", "unlink"} => plugin = prompts /\ metadata = prompts
        /\ op.at = "plugin" =>
              plugin = metadata /\ prompts = [metadata EXCEPT ![op.name] = op.content]
        /\ op.at = "unlink copy" =>
              plugin = metadata /\ prompts = [metadata EXCEPT ![op.name] = None]
        /\ op.at = "metadata" =>
              plugin = prompts /\ prompts = [metadata EXCEPT ![op.name] = op.entry]

PlacesInv == TypeInv /\ PlacesFollow

LEMMA PlacesStep ==
    ASSUME PlacesInv, Next
    PROVE  PlacesFollow'
<1>1. TypeInv /\ TypeOK /\ PlacesFollow
  BY DEF PlacesInv, TypeInv
<1>2. CASE NewRequests
  <2>1. op = Idle /\ metadata # Cut /\ UNCHANGED <<files, disturbances>>
    BY <1>1, <1>2, RequestTypes
    DEF NewRequests, AddAgent, UpdateContent, UpdateDescription, RemoveAgent, NewRequest
  <2>2. disturbances = 0 => plugin = prompts /\ metadata = prompts
    BY <1>1, <2>1 DEF PlacesFollow, Idle
  <2>3. CASE op'.at \in {"prompt", "unlink"}
    BY <2>1, <2>2, <2>3 DEF PlacesFollow, files
  <2>4. ASSUME NEW n \in Names, UpdateDescription(n) \/ RemoveAgent(n),
               op'.at = "metadata", disturbances = 0
        PROVE  prompts = [metadata EXCEPT ![op'.name] = op'.entry]
    <3>1. op'.name = n /\ op'.entry = metadata[n]
      BY <2>2, <2>4 DEF UpdateDescription, RemoveAgent, Request, Known
    <3>2. prompts \in [Names -> Contents \cup {None}] /\ prompts = metadata
      BY <1>1, <2>2, <2>4 DEF TypeOK
    <3>3. prompts = [metadata EXCEPT ![n] = metadata[n]]
      BY <3>2
    <3> QED
      BY <3>1, <3>3
  <2>5. \/ op'.at \in {"prompt", "unlink"}
        \/ op'.at = "metadata" /\ \E n \in Names : UpdateDescription(n) \/ RemoveAgent(n)
    BY <1>2 DEF NewRequests, AddAgent, UpdateContent, WillWrite, UpdateDescription,
                RemoveAgent, Request
  <2> QED
    BY <2>1, <2>2, <2>3, <2>4, <2>5 DEF PlacesFollow, files
<1>3. CASE Writes
  <2>1. op \in Pending /\ op # Idle
    BY <1>1, <1>3, WriteTypes DEF Pending, Idle
  <2>2. metadata \in [Names -> Contents \cup {None, Unsized}]
    BY <1>1, <2>1 DEF TypeInv
  <2>3. CASE WritePrompt
    <3>1. op'.at = "plugin" /\ op'.name = op.name /\ op'.content = op.content
      BY <2>1, <2>3 DEF WritePrompt, Step, Pending
    <3> QED
      BY <1>1, <2>3, <3>1 DEF WritePrompt, Step, PlacesFollow
  <2>4. CASE WritePlugin
    <3>1. op'.at = "metadata" /\ op'.name = op.name /\ op'.entry = op.content
      BY <1>1, <2>1, <2>4 DEF WritePlugin, Step, Pending, TypeInv
    <3> QED
      BY <1>1, <2>4, <3>1 DEF WritePlugin, Step, PlacesFollow
  <2>5. CASE UnlinkPrompt
    <3>1. op'.at = "unlink copy" /\ op'.name = op.name
      BY <2>1, <2>5 DEF UnlinkPrompt, Step, Pending
    <3> QED
      BY <1>1, <2>5, <3>1 DEF UnlinkPrompt, Step, PlacesFollow
  <2>6. CASE UnlinkCopy
    <3>1. op'.at = "metadata" /\ op'.name = op.name /\ op'.entry = None
      BY <1>1, <2>1, <2>6 DEF UnlinkCopy, Step, Pending, TypeInv
    <3> QED
      BY <1>1, <2>6, <3>1 DEF UnlinkCopy, Step, PlacesFollow
  <2>7. CASE SaveMetadata
    BY <1>1, <2>7 DEF SaveMetadata, Idle, PlacesFollow
  <2> QED
    BY <1>3, <2>3, <2>4, <2>5, <2>6, <2>7 DEF Writes
<1>4. CASE WriteFails \/ Crash \/ \E n \in Names : SyncFails(n)
  BY <1>1, <1>4, FailureTypes DEF PlacesFollow
<1>5. CASE Stop \/ Start \/ SyncDone
  BY <1>1, <1>5 DEF Stop, Start, SyncDone, files, PlacesFollow
<1>6. ASSUME NEW n \in Names, SyncPrompt(n) PROVE PlacesFollow'
  <2>1. op = Idle /\ plugin # prompts
    BY <1>1, <1>6 DEF SyncPrompt, Stale, TypeInv
  <2>2. disturbances # 0
    BY <1>1, <2>1 DEF PlacesFollow, Idle
  <2> QED
    BY <1>6, <2>2 DEF SyncPrompt, PlacesFollow
<1> QED
  BY <1>2, <1>3, <1>4, <1>5, <1>6 DEF Next

\* Without failures the prompts, the copies jobs read and agents.json agree
\* between requests: a removed agent is served nowhere.
THEOREM PlacesAgree == Spec => []UndisturbedPlacesAgree
<1>1. Init => PlacesInv
  BY InitTypes DEF Init, Idle, PlacesInv, PlacesFollow
<1>2. PlacesInv /\ [Next]_vars => PlacesInv'
  <2> SUFFICES ASSUME PlacesInv, [Next]_vars PROVE PlacesInv'
    OBVIOUS
  <2>1. TypeInv'
    BY NextTypes DEF PlacesInv
  <2>2. CASE UNCHANGED vars
    BY <2>1, <2>2 DEF vars, files, PlacesInv, PlacesFollow
  <2> QED
    BY <2>1, <2>2, PlacesStep DEF PlacesInv
<1>3. PlacesInv => UndisturbedPlacesAgree
  BY DEF PlacesInv, PlacesFollow, UndisturbedPlacesAgree, Idle
<1> QED
  BY <1>1, <1>2, <1>3, PTL DEF Spec
=============================================================================
