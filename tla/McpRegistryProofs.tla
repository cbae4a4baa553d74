-------------------------- MODULE McpRegistryProofs --------------------------
(***************************************************************************)
(* Proofs about McpRegistry, for every set of names and of requests and    *)
(* every number of failures.                                               *)
(***************************************************************************)
EXTENDS McpRegistry, TLAPS

USE NamesAssumption, EntriesAssumption, ModeAssumption DEF Packages, Entries

\* A request that is in progress is about a server and a package.
RequestsNamed ==
    \A r \in Requests : pc[r] # "free" => name[r] \in Names /\ package[r] \in Packages

TypeInv == TypeOK /\ RequestsNamed

-----------------------------------------------------------------------------
(* Types                                                                   *)

LEMMA InitTypes == Init => TypeInv
<1> SUFFICES ASSUME Init PROVE TypeInv
  OBVIOUS
<1>1. Empty \in [Names -> Entries \cup {NoServer}]
  BY DEF Empty
<1>2. pc \in [Requests -> Steps] /\ \A r \in Requests : pc[r] = "free"
  BY DEF Init, Steps
<1>3. copy \in [Requests -> [Names -> Entries \cup {NoServer}]]
  BY <1>1 DEF Init
<1>4. name \in [Requests -> Names \cup {NoServer}]
      /\ package \in [Requests -> Packages \cup {NoServer}]
  BY DEF Init
<1>5. overlapped \in BOOLEAN /\ torn \in BOOLEAN
  BY DEF Init
<1>7. disturbances \in 0..MaxDisturbances
  BY DEF Init
<1>6. servers = Empty /\ promised = Empty /\ open = {} /\ packages = {}
  BY DEF Init
<1> QED
  BY <1>1, <1>2, <1>3, <1>4, <1>5, <1>6, <1>7 DEF TypeInv, TypeOK, RequestsNamed

LEMMA LoadType ==
    ASSUME TypeOK
    PROVE  Load \in [Names -> Entries \cup {NoServer}]
BY DEF Load, Empty, TypeOK

LEMMA NewRequestTypes ==
    ASSUME TypeInv, NEW r \in Requests, NEW n \in Names, NEW p \in Packages,
           NEW step \in Steps, NewRequest(r, n, p, step)
    PROVE  TypeInv'
<1>1. copy' \in [Requests -> [Names -> Entries \cup {NoServer}]]
  BY LoadType DEF NewRequest, TypeInv, TypeOK
<1>2. pc' \in [Requests -> Steps] /\ name' \in [Requests -> Names \cup {NoServer}]
      /\ package' \in [Requests -> Packages \cup {NoServer}]
  BY DEF NewRequest, TypeInv, TypeOK
<1>3. overlapped' \in BOOLEAN
  BY DEF NewRequest, TypeInv, TypeOK
<1>4. RequestsNamed'
  BY DEF NewRequest, TypeInv, TypeOK, RequestsNamed
<1> QED
  BY <1>1, <1>2, <1>3, <1>4 DEF NewRequest, file, TypeInv, TypeOK

LEMMA NewRequestsTypes ==
    ASSUME TypeInv, NEW r \in Requests, NEW n \in Names, NewRequests(r, n)
    PROVE  TypeInv'
<1>1. CASE AddRequest(r, n)
  BY <1>1, NewRequestTypes DEF AddRequest, Steps
<1>2. CASE RemoveRequest(r, n)
  <2> DEFINE p == IF Load[n] \in Packages THEN Load[n] ELSE n
  <2>1. p \in Packages /\ NewRequest(r, n, p, "removing")
    BY <1>2 DEF RemoveRequest
  <2> HIDE DEF p
  <2> QED
    BY <2>1, NewRequestTypes DEF Steps
<1>3. CASE \E p \in Packages : InstallRequest(r, n, p)
  BY <1>3, NewRequestTypes DEF InstallRequest, Steps
<1> QED
  BY <1>1, <1>2, <1>3 DEF NewRequests

\* How a step of a request leaves its own record.
LEMMA AnswerTypes ==
    ASSUME TypeInv, NEW r \in Requests, Answer(r)
    PROVE  /\ pc' \in [Requests -> Steps]
           /\ copy' \in [Requests -> [Names -> Entries \cup {NoServer}]]
           /\ name' \in [Requests -> Names \cup {NoServer}]
           /\ package' \in [Requests -> Packages \cup {NoServer}]
           /\ RequestsNamed'
BY DEF Answer, Empty, Steps, TypeInv, TypeOK, RequestsNamed

LEMMA GotoTypes ==
    ASSUME TypeInv, NEW r \in Requests, pc[r] # "free", NEW step \in Steps, Goto(r, step)
    PROVE  /\ pc' \in [Requests -> Steps]
           /\ copy' \in [Requests -> [Names -> Entries \cup {NoServer}]]
           /\ name' \in [Requests -> Names \cup {NoServer}]
           /\ package' \in [Requests -> Packages \cup {NoServer}]
           /\ RequestsNamed'
BY DEF Goto, TypeInv, TypeOK, RequestsNamed

LEMMA SaveTypes ==
    ASSUME TypeInv, NEW r \in Requests, NEW e \in Entries \cup {NoServer}, Save(r, e)
    PROVE  /\ servers' \in [Names -> Entries \cup {NoServer}]
           /\ promised' \in [Names -> Entries \cup {NoServer}]
BY DEF Save, TypeInv, TypeOK

LEMMA StepTypes ==
    ASSUME TypeInv, NEW r \in Requests, RequestStep(r)
    PROVE  TypeInv'
<1>1. CASE AddRefused(r)
  BY <1>1, AnswerTypes DEF AddRefused, file, history, TypeInv, TypeOK
<1>2. CASE AddServer(r)
  BY <1>2, AnswerTypes, SaveTypes DEF AddServer, history, TypeInv, TypeOK
<1>3. CASE InstallFails(r)
  <2>1. packages' \subseteq Packages
    BY <1>3 DEF InstallFails, TypeInv, TypeOK, RequestsNamed
  <2> QED
    BY <1>3, <2>1, AnswerTypes DEF InstallFails, file, history, TypeInv, TypeOK
<1>4. CASE PackageInstalled(r)
  <2>1. packages' \subseteq Packages /\ pc[r] # "free"
    BY <1>4 DEF PackageInstalled, TypeInv, TypeOK, RequestsNamed
  <2> QED
    BY <1>4, <2>1, GotoTypes DEF PackageInstalled, file, history, Steps, TypeInv, TypeOK
<1>5. CASE TakeLock(r)
  <2>1. pc[r] # "free"
    BY <1>5 DEF TakeLock
  <2> QED
    BY <1>5, <2>1, GotoTypes DEF TakeLock, history, Steps, TypeInv, TypeOK
<1>6. CASE ServerRegistered(r)
  <2>1. package[r] \in Entries \cup {NoServer}
    BY <1>6 DEF ServerRegistered, TypeInv, TypeOK
  <2>2. torn' \in BOOLEAN
    BY <1>6 DEF ServerRegistered
  <2> QED
    BY <1>6, <2>1, <2>2, AnswerTypes, SaveTypes DEF ServerRegistered, history, TypeInv, TypeOK
<1>7. CASE RemoveServer(r)
  <2>1. pc[r] # "free"
    BY <1>7 DEF RemoveServer
  <2>2. /\ pc' \in [Requests -> Steps]
        /\ copy' \in [Requests -> [Names -> Entries \cup {NoServer}]]
        /\ name' \in [Requests -> Names \cup {NoServer}]
        /\ package' \in [Requests -> Packages \cup {NoServer}]
        /\ RequestsNamed'
    BY <1>7, <2>1, AnswerTypes, GotoTypes DEF RemoveServer, Steps
  <2> QED
    BY <1>7, <2>2, SaveTypes DEF RemoveServer, history, TypeInv, TypeOK
<1>8. CASE Uninstalled(r)
  <2>1. packages' \subseteq Packages
    BY <1>8 DEF Uninstalled, TypeInv, TypeOK
  <2> QED
    BY <1>8, <2>1, AnswerTypes DEF Uninstalled, file, history, TypeInv, TypeOK
<1> QED
  BY <1>1, <1>2, <1>3, <1>4, <1>5, <1>6, <1>7, <1>8 DEF RequestStep

LEMMA LoseFileTypes ==
    ASSUME TypeInv, LoseFile
    PROVE  /\ servers' \in [Names -> Entries \cup {NoServer}]
           /\ promised' \in [Names -> Entries \cup {NoServer}]
           /\ torn' \in BOOLEAN
<1>1. Empty \in [Names -> Entries \cup {NoServer}]
  BY DEF Empty
<1> QED
  BY <1>1 DEF LoseFile

LEMMA SaveFailsTypes ==
    ASSUME TypeInv, NEW r \in Requests, SaveFails(r)
    PROVE  TypeInv'
<1>1. /\ servers' \in [Names -> Entries \cup {NoServer}]
      /\ promised' \in [Names -> Entries \cup {NoServer}] /\ torn' \in BOOLEAN
  BY LoseFileTypes DEF SaveFails, TypeInv, TypeOK
<1>2. disturbances' \in 0..MaxDisturbances
  BY DEF SaveFails, Disturbance, TypeInv, TypeOK
<1> QED
  BY <1>1, <1>2, AnswerTypes DEF SaveFails, TypeInv, TypeOK

LEMMA CrashTypes == TypeInv /\ Crash => TypeInv'
<1> SUFFICES ASSUME TypeInv, Crash PROVE TypeInv'
  OBVIOUS
<1>1. /\ servers' \in [Names -> Entries \cup {NoServer}]
      /\ promised' \in [Names -> Entries \cup {NoServer}] /\ torn' \in BOOLEAN
  BY LoseFileTypes DEF Crash, TypeInv, TypeOK
<1>2. pc' \in [Requests -> Steps] /\ RequestsNamed'
  BY DEF Crash, Steps, RequestsNamed
<1>3. /\ copy' \in [Requests -> [Names -> Entries \cup {NoServer}]]
      /\ name' \in [Requests -> Names \cup {NoServer}]
      /\ package' \in [Requests -> Packages \cup {NoServer}]
  BY DEF Crash, Empty
<1>4. disturbances' \in 0..MaxDisturbances /\ open' \subseteq Requests
  BY DEF Crash, Disturbance, TypeInv, TypeOK
<1> QED
  BY <1>1, <1>2, <1>3, <1>4 DEF Crash, TypeInv, TypeOK

LEMMA NextTypes == TypeInv /\ [Next]_vars => TypeInv'
<1>1. TypeInv /\ UNCHANGED vars => TypeInv'
  BY DEF vars, file, request, history, TypeInv, TypeOK, RequestsNamed
<1> QED
  BY <1>1, NewRequestsTypes, StepTypes, SaveFailsTypes, CrashTypes DEF Next

\* Every value has its type.
THEOREM TypesHold == Spec => []TypeOK
<1>1. TypeInv => TypeOK
  BY DEF TypeInv
<1> QED
  BY InitTypes, NextTypes, <1>1, PTL DEF Spec

-----------------------------------------------------------------------------
(* The lock                                                                *)

\* At most one request has the file open, and it is writing.
LockExact ==
    /\ \A r \in Requests : r \in open <=> pc[r] = "writing"
    /\ \A r, q \in open : r = q

LockInv == TypeInv /\ LockExact /\ OverlapsNeverTear

LEMMA NewRequestLocks ==
    ASSUME TypeInv, LockExact, OverlapsNeverTear, NEW r \in Requests, NEW n, NEW p,
           NEW step \in Steps \ {"writing"}, NewRequest(r, n, p, step)
    PROVE  LockExact' /\ OverlapsNeverTear'
BY DEF NewRequest, file, LockExact, OverlapsNeverTear, TypeInv, TypeOK

LEMMA LockStep ==
    ASSUME LockInv, Next
    PROVE  LockExact' /\ OverlapsNeverTear'
<1>1. TypeInv /\ LockExact /\ OverlapsNeverTear
  BY DEF LockInv
<1>2. ASSUME NEW r \in Requests, NEW n \in Names, NewRequests(r, n)
      PROVE  LockExact' /\ OverlapsNeverTear'
  <2>1. CASE AddRequest(r, n)
    BY <1>1, <2>1, NewRequestLocks DEF AddRequest, Steps
  <2>2. CASE RemoveRequest(r, n)
    <3> DEFINE p == IF Load[n] \in Packages THEN Load[n] ELSE n
    <3>1. NewRequest(r, n, p, "removing")
      BY <2>2 DEF RemoveRequest
    <3> HIDE DEF p
    <3> QED
      BY <1>1, <3>1, NewRequestLocks DEF Steps
  <2>3. CASE \E p \in Packages : InstallRequest(r, n, p)
    BY <1>1, <2>3, NewRequestLocks DEF InstallRequest, Steps
  <2> QED
    BY <1>2, <2>1, <2>2, <2>3 DEF NewRequests
<1>3. ASSUME NEW r \in Requests, RequestStep(r)
      PROVE  LockExact' /\ OverlapsNeverTear'
  <2>1. CASE AddRefused(r) \/ AddServer(r) \/ InstallFails(r) \/ Uninstalled(r)
    BY <1>1, <2>1 DEF AddRefused, AddServer, InstallFails, Uninstalled, Answer, file,
                      history, LockExact, OverlapsNeverTear, TypeInv, TypeOK
  <2>2. CASE PackageInstalled(r)
    BY <1>1, <2>2 DEF PackageInstalled, Goto, file, history, LockExact, OverlapsNeverTear,
                      TypeInv, TypeOK
  <2>3. CASE TakeLock(r)
    BY <1>1, <2>3 DEF TakeLock, Goto, history, LockExact, OverlapsNeverTear, TypeInv, TypeOK
  <2>4. CASE ServerRegistered(r)
    <3>1. open = {r}
      BY <1>1, <2>4 DEF ServerRegistered, LockExact
    <3> QED
      BY <1>1, <2>4, <3>1 DEF ServerRegistered, Answer, history, LockExact,
                              OverlapsNeverTear, TypeInv, TypeOK
  <2>5. CASE RemoveServer(r)
    BY <1>1, <2>5 DEF RemoveServer, Answer, Goto, history, LockExact, OverlapsNeverTear,
                      TypeInv, TypeOK
  <2> QED
    BY <1>3, <2>1, <2>2, <2>3, <2>4, <2>5 DEF RequestStep
<1>4. CASE Crash
  BY <1>1, <1>4 DEF Crash, Disturbance, LockExact, OverlapsNeverTear, TypeInv, TypeOK
<1>5. ASSUME NEW r \in Requests, SaveFails(r)
      PROVE  LockExact' /\ OverlapsNeverTear'
  <2>1. disturbances' > 0
    BY <1>1, <1>5 DEF SaveFails, Disturbance, TypeInv, TypeOK
  <2>2. pc' = [pc EXCEPT ![r] = "free"] /\ open' = open \ {r}
    BY <1>5 DEF SaveFails, Answer
  <2> QED
    BY <1>1, <2>1, <2>2 DEF LockExact, OverlapsNeverTear, TypeInv, TypeOK
<1> QED
  BY <1>2, <1>3, <1>4, <1>5 DEF Next

LEMMA LockInvariant == Spec => []LockInv
<1>1. Init => LockInv
  BY InitTypes DEF Init, LockInv, LockExact, OverlapsNeverTear
<1>2. LockInv /\ [Next]_vars => LockInv'
  <2> SUFFICES ASSUME LockInv, [Next]_vars PROVE LockInv'
    OBVIOUS
  <2>1. TypeInv'
    BY NextTypes DEF LockInv
  <2>2. CASE UNCHANGED vars
    BY <2>1, <2>2 DEF vars, file, request, history, LockInv, LockExact, OverlapsNeverTear
  <2>3. CASE Next
    BY <2>1, <2>3, LockStep DEF LockInv
  <2> QED
    BY <2>2, <2>3
<1> QED
  BY <1>1, <1>2, PTL DEF Spec

\* However requests and the threads that install packages overlap, servers.json is
\* left unreadable only by a save that failed or was cut off.
THEOREM OverlapsNeverTearTheFile == Spec => []OverlapsNeverTear
<1>1. LockInv => OverlapsNeverTear
  BY DEF LockInv
<1> QED
  BY LockInvariant, <1>1, PTL

-----------------------------------------------------------------------------
(* Requests one at a time                                                  *)

\* The request in progress has the servers that are in the file.
Latest(r) ==
    pc[r] # "free" =>
        /\ pc[r] # "uninstalling" => copy[r] = servers
        /\ pc[r] \in {"installing", "registering", "writing"} => servers[name[r]] = NoServer
        /\ pc[r] = "removing" => servers[name[r]] # NoServer

\* Its package is that of its server, installed before the server is registered
\* and uninstalled when it is not registered any more.
PackageOf(r) ==
    /\ pc[r] \in {"installing", "registering", "writing", "removing", "uninstalling"} =>
          package[r] = name[r]
    /\ pc[r] \in {"registering", "writing"} => package[r] \in packages
    /\ pc[r] = "uninstalling" => servers[name[r]] = NoServer

Alone == \A r, q \in Requests : pc[r] # "free" /\ pc[q] # "free" => r = q

PackagesPresent ==
    /\ \A n \in Names : servers[n] \in Packages => servers[n] = n /\ n \in packages
    /\ \A r \in Requests : PackageOf(r)

SequentialState ==
    /\ Alone
    /\ servers = promised
    /\ \A r \in Requests : Latest(r)
    /\ ~SharePackages => PackagesPresent

SeqInv == LockInv /\ (~overlapped => SequentialState)

\* A request that finds no other in progress reads the whole file.
LEMMA SequentialLoad ==
    ASSUME SeqInv, NEW r \in Requests, NEW n \in Names, NEW p \in Packages,
           NEW step \in {"checking", "installing", "removing"},
           NewRequest(r, n, p, step), ~overlapped'
    PROVE  /\ ~overlapped /\ Load = servers
           /\ \A q \in Requests : pc[q] = "free"
           /\ pc' = [q \in Requests |-> IF q = r THEN step ELSE "free"]
           /\ copy'[r] = servers /\ name'[r] = n /\ package'[r] = p
<1>1. ~overlapped /\ \A q \in Requests : pc[q] = "free"
  BY DEF NewRequest
<1>2. open = {}
  BY <1>1 DEF SeqInv, LockInv, LockExact, TypeInv, TypeOK
<1> QED
  BY <1>1, <1>2 DEF NewRequest, Load, SeqInv, LockInv, TypeInv, TypeOK

LEMMA SequentialNew ==
    ASSUME SeqInv, NEW r \in Requests, NEW n \in Names, NEW p \in Packages,
           NEW step \in {"checking", "installing", "removing"},
           NewRequest(r, n, p, step), ~overlapped',
           step = "installing" => servers[n] = NoServer,
           step = "removing" => servers[n] # NoServer,
           ~SharePackages => p = n
    PROVE  SequentialState'
<1>1. /\ ~overlapped
      /\ pc' = [q \in Requests |-> IF q = r THEN step ELSE "free"]
      /\ copy'[r] = servers /\ name'[r] = n /\ package'[r] = p
  BY SequentialLoad
<1>2. UNCHANGED <<servers, packages, promised>>
  BY DEF NewRequest, file
<1>3. SequentialState
  BY <1>1 DEF SeqInv
<1> QED
  BY <1>1, <1>2, <1>3 DEF SequentialState, Alone, Latest, PackagesPresent, PackageOf

LEMMA SequentialNewRequests ==
    ASSUME SeqInv, NEW r \in Requests, NEW n \in Names, NewRequests(r, n), ~overlapped'
    PROVE  SequentialState' /\ UNCHANGED servers
<1>1. CASE AddRequest(r, n)
  BY <1>1, SequentialNew DEF AddRequest, NewRequest, file
<1>2. CASE RemoveRequest(r, n)
  <2> DEFINE p == IF Load[n] \in Packages THEN Load[n] ELSE n
  <2>1. NewRequest(r, n, p, "removing") /\ Load[n] # NoServer /\ p \in Packages
    BY <1>2 DEF RemoveRequest
  <2>2. ~SharePackages => Load = servers /\ SequentialState
    <3> HIDE DEF p
    <3> QED
      BY <2>1, SequentialLoad DEF SeqInv
  <2>3. ~SharePackages => p = n
    BY <2>2 DEF SequentialState, PackagesPresent
  <2> HIDE DEF p
  <2>4. Load = servers
    BY <2>1, SequentialLoad
  <2> QED
    BY <2>1, <2>3, <2>4, SequentialNew DEF NewRequest, file
<1>3. ASSUME NEW p \in Packages, InstallRequest(r, n, p)
      PROVE  SequentialState' /\ UNCHANGED servers
  <2>1. NewRequest(r, n, p, "installing")
    BY <1>3 DEF InstallRequest
  <2>2. Load = servers
    BY <2>1, SequentialLoad
  <2> QED
    BY <1>3, <2>1, <2>2, SequentialNew DEF InstallRequest, NewRequest, file
<1> QED
  BY <1>1, <1>2, <1>3 DEF NewRequests

\* A step of the only request leaves the others free.
LEMMA OneRequestStep ==
    ASSUME SeqInv, NEW r \in Requests, RequestStep(r), ~overlapped'
    PROVE  /\ SequentialState'
           /\ disturbances' = disturbances
           /\ Catalog!Change \/ UNCHANGED servers
<1>1. ~overlapped /\ pc[r] # "free" /\ disturbances' = disturbances
  BY DEF RequestStep, AddRefused, AddServer, InstallFails, PackageInstalled, TakeLock,
         ServerRegistered, RemoveServer, Uninstalled, history
<1>2. SequentialState /\ TypeOK /\ name[r] \in Names /\ package[r] \in Packages
  BY <1>1 DEF SeqInv, LockInv, TypeInv, RequestsNamed
<1>3. \A q \in Requests : q # r => pc[q] = "free"
  BY <1>1, <1>2 DEF SequentialState, Alone
<1>4. ASSUME Answer(r), UNCHANGED <<servers, promised>>,
             ~SharePackages => \A n \in Names :
                 servers[n] \in Packages => servers[n] = n /\ n \in packages'
      PROVE  SequentialState'
  <2>1. \A q \in Requests : pc'[q] = "free"
    BY <1>2, <1>3, <1>4 DEF Answer, TypeOK
  <2> QED
    BY <1>2, <1>4, <2>1 DEF SequentialState, Alone, Latest, PackagesPresent, PackageOf
<1>5. CASE AddRefused(r)
  BY <1>1, <1>2, <1>4, <1>5 DEF AddRefused, file, SequentialState, PackagesPresent
<1>6. CASE InstallFails(r)
  BY <1>1, <1>2, <1>4, <1>6 DEF InstallFails, file, SequentialState, PackagesPresent
<1>7. CASE Uninstalled(r)
  <2>1. ~SharePackages => package[r] = name[r] /\ servers[name[r]] = NoServer
    BY <1>2, <1>7 DEF Uninstalled, SequentialState, PackagesPresent, PackageOf
  <2>2. ~SharePackages => \A n \in Names :
            servers[n] \in Packages => servers[n] = n /\ n \in packages'
    BY <1>2, <1>7, <2>1 DEF Uninstalled, SequentialState, PackagesPresent
  <2> QED
    BY <1>1, <1>4, <1>7, <2>2 DEF Uninstalled, file
<1>8. CASE PackageInstalled(r) \/ TakeLock(r)
  <2>1. pc'[r] \in {"registering", "writing"} /\ \A q \in Requests : q # r => pc'[q] = "free"
    BY <1>2, <1>3, <1>8 DEF PackageInstalled, TakeLock, Goto, TypeOK
  <2>2. UNCHANGED <<servers, promised, copy, name, package>>
    BY <1>8 DEF PackageInstalled, TakeLock, Goto, file
  <2>3. pc[r] \in {"installing", "registering"}
    BY <1>8 DEF PackageInstalled, TakeLock
  <2>4. ~SharePackages => package[r] \in packages' /\ packages \subseteq packages'
    BY <1>2, <1>8 DEF PackageInstalled, TakeLock, SequentialState, PackagesPresent, PackageOf
  <2> QED
    BY <1>1, <1>2, <2>1, <2>2, <2>3, <2>4
    DEF SequentialState, Alone, Latest, PackagesPresent, PackageOf
<1>9. ASSUME NEW e \in Entries, Save(r, e), pc'[r] = "free",
             \A q \in Requests : q # r => pc'[q] = pc[q],
             copy[r] = servers, servers[name[r]] = NoServer, packages' = packages,
             ~SharePackages /\ e \in Packages => e = name[r] /\ e \in packages
      PROVE  /\ SequentialState'
             /\ Catalog!Change
  <2>1. servers' = [servers EXCEPT ![name[r]] = e] /\ promised' = servers'
    BY <1>2, <1>9 DEF Save, SequentialState
  <2>2. Catalog!Change
    BY <1>2, <1>9, <2>1 DEF Catalog!Change, Catalog!Add
  <2>3. \A q \in Requests : pc'[q] = "free"
    BY <1>3, <1>9
  <2>4. ~SharePackages => \A n \in Names :
            servers'[n] \in Packages => servers'[n] = n /\ n \in packages'
    BY <1>2, <1>9, <2>1 DEF SequentialState, PackagesPresent, TypeOK
  <2> QED
    BY <2>1, <2>2, <2>3, <2>4 DEF SequentialState, Alone, Latest, PackagesPresent, PackageOf
<1>10. CASE AddServer(r)
  <2>1. copy[r] = servers /\ servers[name[r]] = NoServer
    BY <1>2, <1>10 DEF AddServer, SequentialState, Latest
  <2>2. pc'[r] = "free" /\ \A q \in Requests : q # r => pc'[q] = pc[q]
    BY <1>2, <1>10 DEF AddServer, Answer, TypeOK
  <2> QED
    BY <1>1, <1>9, <1>10, <2>1, <2>2 DEF AddServer
<1>11. CASE ServerRegistered(r)
  <2>1. copy[r] = servers /\ servers[name[r]] = NoServer
    BY <1>2, <1>11 DEF ServerRegistered, SequentialState, Latest
  <2>2. pc'[r] = "free" /\ \A q \in Requests : q # r => pc'[q] = pc[q]
    BY <1>2, <1>11 DEF ServerRegistered, Answer, TypeOK
  <2>3. ~SharePackages => package[r] = name[r] /\ package[r] \in packages
    BY <1>2, <1>11 DEF ServerRegistered, SequentialState, PackagesPresent, PackageOf
  <2> QED
    BY <1>1, <1>2, <1>9, <1>11, <2>1, <2>2, <2>3 DEF ServerRegistered
<1>12. CASE RemoveServer(r)
  <2>1. copy[r] = servers /\ servers[name[r]] # NoServer
    BY <1>2, <1>12 DEF RemoveServer, SequentialState, Latest
  <2>2. servers' = [servers EXCEPT ![name[r]] = NoServer] /\ promised' = servers'
    BY <1>2, <1>12, <2>1 DEF RemoveServer, Save, SequentialState
  <2>3. Catalog!Change
    BY <1>2, <2>1, <2>2 DEF Catalog!Change, Catalog!Remove
  <2>4. pc'[r] \in {"free", "uninstalling"} /\ \A q \in Requests : q # r => pc'[q] = "free"
    BY <1>2, <1>3, <1>12 DEF RemoveServer, Answer, Goto, TypeOK
  <2>5. pc'[r] = "uninstalling" => name' = name /\ package' = package
    BY <1>2, <1>12 DEF RemoveServer, Answer, Goto, TypeOK
  <2>6. ~SharePackages => package[r] = name[r]
    BY <1>2, <1>12 DEF RemoveServer, SequentialState, PackagesPresent, PackageOf
  <2>7. ~SharePackages => \A n \in Names :
            servers'[n] \in Packages => servers'[n] = n /\ n \in packages'
    BY <1>2, <1>12, <2>2 DEF RemoveServer, SequentialState, PackagesPresent, TypeOK
  <2>8. servers'[name[r]] = NoServer
    BY <1>2, <2>2 DEF TypeOK
  <2> QED
    BY <1>1, <2>2, <2>3, <2>4, <2>5, <2>6, <2>7, <2>8
    DEF SequentialState, Alone, Latest, PackagesPresent, PackageOf
<1>13. \/ AddRefused(r) \/ InstallFails(r) \/ Uninstalled(r) \/ PackageInstalled(r)
       \/ TakeLock(r) => UNCHANGED servers
  BY DEF AddRefused, InstallFails, Uninstalled, PackageInstalled, TakeLock, file
<1> QED
  BY <1>1, <1>5, <1>6, <1>7, <1>8, <1>10, <1>11, <1>12, <1>13 DEF RequestStep

\* After a failure no request is in progress, and the file is as it was or lost.
LEMMA SequentialFailure ==
    ASSUME SeqInv, Crash \/ \E r \in Requests : SaveFails(r), ~overlapped'
    PROVE  /\ SequentialState'
           /\ disturbances' # disturbances
           /\ Catalog!LoseAll \/ UNCHANGED servers
<1>1. SequentialState /\ TypeOK
  BY DEF Crash, SaveFails, SeqInv, LockInv, TypeInv
<1>2. disturbances' # disturbances
  BY <1>1 DEF Crash, SaveFails, Disturbance, TypeOK
<1>3. \A q \in Requests : pc'[q] = "free"
  <2>1. CASE Crash
    BY <2>1 DEF Crash
  <2>2. ASSUME NEW r \in Requests, SaveFails(r)
        PROVE  \A q \in Requests : pc'[q] = "free"
    <3>1. pc[r] # "free"
      BY <2>2 DEF SaveFails, Saving
    <3>2. \A q \in Requests : q # r => pc[q] = "free"
      BY <1>1, <3>1 DEF SequentialState, Alone
    <3> QED
      BY <1>1, <2>2, <3>2 DEF SaveFails, Answer, TypeOK
  <2> QED
    BY <2>1, <2>2
<1>4. /\ packages' = packages /\ promised' = servers'
      /\ servers' = servers \/ servers' = Empty
  BY <1>1 DEF Crash, SaveFails, LoseFile, SequentialState
<1>5. Catalog!LoseAll \/ UNCHANGED servers
  BY <1>4 DEF Catalog!LoseAll, Empty
<1> QED
  BY <1>1, <1>2, <1>3, <1>4, <1>5
  DEF SequentialState, Alone, Latest, PackagesPresent, PackageOf, Empty

LEMMA SequentialNext ==
    ASSUME SeqInv, Next, ~overlapped'
    PROVE  SequentialState' /\ SequentialStep
<1>1. ASSUME NEW r \in Requests, NEW n \in Names, NewRequests(r, n)
      PROVE  SequentialState' /\ SequentialStep
  BY <1>1, SequentialNewRequests DEF SequentialStep
<1>2. ASSUME NEW r \in Requests, RequestStep(r)
      PROVE  SequentialState' /\ SequentialStep
  BY <1>2, OneRequestStep DEF SequentialStep
<1>3. CASE Crash \/ \E r \in Requests : SaveFails(r)
  BY <1>3, SequentialFailure DEF SequentialStep
<1> QED
  BY <1>1, <1>2, <1>3 DEF Next

LEMMA SequentialInvariant == Spec => []SeqInv
<1>1. Init => SeqInv
  <2>1. ASSUME Init PROVE LockInv
    BY <2>1, InitTypes DEF Init, LockInv, LockExact, OverlapsNeverTear
  <2>2. ASSUME Init PROVE SequentialState
    BY <2>2 DEF Init, Empty, SequentialState, Alone, Latest, PackagesPresent, PackageOf
  <2> QED
    BY <2>1, <2>2 DEF SeqInv
<1>2. LockInv /\ LockInv' /\ SeqInv /\ [Next]_vars => SeqInv'
  <2> SUFFICES ASSUME LockInv', SeqInv, [Next]_vars, ~overlapped' PROVE SequentialState'
    BY DEF SeqInv
  <2>1. CASE UNCHANGED vars
    BY <2>1 DEF vars, file, request, history, SeqInv, SequentialState, Alone, Latest,
                PackagesPresent, PackageOf
  <2>2. CASE Next
    BY <2>2, SequentialNext
  <2> QED
    BY <2>1, <2>2
<1> QED
  BY <1>1, <1>2, LockInvariant, PTL DEF Spec

\* As long as requests do not overlap, what was answered since the file was last
\* lost is in it, and a server from a package of its own has the package.
THEOREM SequentialAnswersKept == Spec => []SequentialAnswersHold
<1>1. SeqInv => SequentialAnswersHold
  BY DEF SeqInv, SequentialState, PackagesPresent, SequentialAnswersHold, ChangesAreKept
<1> QED
  BY SequentialInvariant, <1>1, PTL

\* As long as requests do not overlap, each step of the registry is one of the
\* catalog of servers or leaves the servers alone, and loses all of them only if
\* a save failed or was cut off in that step.
THEOREM SequentialRequestsImplementCatalog == Spec => SequentialRequestsAreLocal
<1>1. SeqInv /\ [Next]_vars => [SequentialStep]_vars
  <2> SUFFICES ASSUME SeqInv, Next PROVE SequentialStep
    OBVIOUS
  <2>1. CASE ~overlapped'
    BY <2>1, SequentialNext
  <2>2. CASE overlapped' /\ overlapped
    BY <2>2 DEF SequentialStep
  <2>3. CASE overlapped' /\ ~overlapped
    <3>1. PICK r \in Requests, n \in Names : NewRequests(r, n)
      BY <2>3 DEF Next, RequestStep, AddRefused, AddServer, InstallFails, PackageInstalled,
                  TakeLock, ServerRegistered, RemoveServer, Uninstalled, SaveFails, Crash,
                  history
    <3>2. UNCHANGED servers
      BY <3>1 DEF NewRequests, AddRequest, RemoveRequest, InstallRequest, NewRequest, file
    <3> QED
      BY <3>2 DEF SequentialStep
  <2> QED
    BY <2>1, <2>2, <2>3
<1> QED
  BY <1>1, SequentialInvariant, PTL DEF Spec, SequentialRequestsAreLocal
=============================================================================
