---------------------------- MODULE McpRegistry ----------------------------
(***************************************************************************)
(* The MCP servers: the endpoints under /admin/mcp (admin_router.py), the  *)
(* McpManager each request builds for itself from servers.json             *)
(* (mcp_manager.py), and the installation and removal of packages          *)
(* (mcp_installer.py).                                                     *)
(*                                                                         *)
(* A request runs on the event loop except while it awaits a health check, *)
(* an installation or a removal in a thread; the installation registers    *)
(* its server in that thread.  A save takes .lock, truncates the file and  *)
(* writes the request's whole copy; it may raise on the way, or the        *)
(* process may die; reading takes no lock.                                 *)
(***************************************************************************)
EXTENDS Naturals, FiniteSets

CONSTANTS
    Names,          \* names of servers
    Requests,       \* requests that can be in progress at the same time
    Manual,         \* the entry of a server that was not installed
    NoServer,
    SharePackages,  \* TRUE: two servers may come from the same package
    MaxDisturbances \* bound on the failed saves and crashes

\* A package is named after the server it is (first) installed for.
Packages == Names
Entries == Packages \cup {Manual}

ASSUME NamesAssumption == IsFiniteSet(Names) /\ IsFiniteSet(Requests)
ASSUME EntriesAssumption ==
    Manual \notin Names /\ NoServer \notin Names /\ Manual # NoServer
ASSUME ModeAssumption ==
    SharePackages \in BOOLEAN /\ MaxDisturbances \in Nat

VARIABLES
    servers,    \* the servers in servers.json, as last written completely;
                \* none once the file was lost
    open,       \* requests that have truncated the file and not written yet
    torn,       \* the file cannot be parsed
    packages,   \* packages installed
    pc,         \* pc[r]: where request r is
    copy,       \* copy[r]: _servers of the McpManager of r
    name,       \* name[r]: the server r is about
    package,    \* package[r]: the package r installs or removes
    promised,   \* what the requests that succeeded since the file was lost
                \* should have left
    overlapped, \* two requests have been in progress at the same time
    disturbances \* failed saves and crashes

file == <<servers, open, torn>>
request == <<pc, copy, name, package>>
history == <<overlapped, disturbances>>
vars == <<file, packages, request, promised, history>>

Empty == [n \in Names |-> NoServer]
Steps == {"free", "checking", "installing", "registering", "writing",
          "removing", "uninstalling"}

Init ==
    /\ servers = Empty /\ open = {} /\ torn = FALSE /\ packages = {}
    /\ pc = [r \in Requests |-> "free"]
    /\ copy = [r \in Requests |-> Empty]
    /\ name = [r \in Requests |-> NoServer] /\ package = name
    /\ promised = Empty
    /\ overlapped = FALSE /\ disturbances = 0
-----------------------------------------------------------------------------
\* remove_mcp_server loads and saves without an await: no other request runs
\* on the event loop in between, although threads do.
LoopIsFree == \A r \in Requests : pc[r] # "removing"

\* McpManager(file): a file that is being written is empty; one that cannot
\* be parsed raises, as one caught half-written does, and the request fails.
Load == IF open = {} THEN servers ELSE Empty

\* A new request builds its manager and keeps it until it is answered.
NewRequest(r, n, p, step) ==
    /\ LoopIsFree
    /\ pc[r] = "free"
    /\ ~torn
    /\ copy' = [copy EXCEPT ![r] = Load]
    /\ name' = [name EXCEPT ![r] = n]
    /\ package' = [package EXCEPT ![r] = p]
    /\ pc' = [pc EXCEPT ![r] = step]
    /\ overlapped' = (overlapped \/ \E q \in Requests : pc[q] # "free")
    /\ UNCHANGED <<file, packages, promised, disturbances>>

Goto(r, step) ==
    /\ pc' = [pc EXCEPT ![r] = step]
    /\ UNCHANGED <<copy, name, package>>

\* The request is answered, and its manager is gone.
Answer(r) ==
    /\ pc' = [pc EXCEPT ![r] = "free"]
    /\ copy' = [copy EXCEPT ![r] = Empty]
    /\ name' = [name EXCEPT ![r] = NoServer]
    /\ package' = [package EXCEPT ![r] = NoServer]

\* _save: the whole copy of r is written, and the request will succeed.
Save(r, e) ==
    /\ servers' = [copy[r] EXCEPT ![name[r]] = e]
    /\ promised' = [promised EXCEPT ![name[r]] = e]

\* A request that writes the file next or now: it has the lock, or runs on the
\* event loop and can take it.
Saving(r) ==
    \/ pc[r] = "writing"
    \/ pc[r] = "removing" /\ open = {}
    \/ pc[r] = "checking" /\ open = {} /\ LoopIsFree /\ copy[r][name[r]] = NoServer

Disturbance ==
    /\ disturbances < MaxDisturbances
    /\ disturbances' = disturbances + 1

\* The file is truncated and nothing or a part of the copy is written: an empty
\* file reads as one without servers, a part cannot be parsed.
LoseFile ==
    /\ servers' = Empty /\ promised' = Empty
    /\ torn' \in BOOLEAN

\* Mutant: a save that raises keeps the lock.
SaveFails_KeepLock(r) ==
    /\ Disturbance
    /\ \/ Saving(r) /\ LoseFile
       \/ /\ Saving(r) \/ pc[r] = "registering"
          /\ pc[r] # "writing"
          /\ UNCHANGED <<servers, torn, promised>>
    /\ Answer(r)
    /\ UNCHANGED <<open, packages, overlapped>>

\* _save raises, before it has truncated the file or after; the lock is released
\* and the request answered with an error.  Its manager is gone with the change;
\* a package it installed stays, one it would have removed too.
SaveFails(r) ==
    /\ Disturbance
    /\ \/ Saving(r) /\ LoseFile
       \/ /\ Saving(r) \/ pc[r] = "registering"
          /\ pc[r] # "writing"
          /\ UNCHANGED <<servers, torn, promised>>
    /\ open' = open \ {r}
    /\ Answer(r)
    /\ UNCHANGED <<packages, overlapped>>
-----------------------------------------------------------------------------
(* POST /admin/mcp                                                         *)

AddRequest(r, n) == NewRequest(r, n, n, "checking")

\* The health check failed, or the copy already has the name.
AddRefused(r) ==
    /\ LoopIsFree
    /\ pc[r] = "checking"
    /\ Answer(r)
    /\ UNCHANGED <<file, packages, promised, history>>

\* Mutant: add_server does not look whether the name is taken.
AddServer_Replace(r) ==
    /\ LoopIsFree
    /\ pc[r] = "checking"
    /\ open = {}
    /\ Save(r, Manual)
    /\ Answer(r)
    /\ UNCHANGED <<open, torn, packages, history>>

\* The health check passed; add_server looks at the copy made before it.
AddServer(r) ==
    /\ LoopIsFree
    /\ pc[r] = "checking"
    /\ copy[r][name[r]] = NoServer
    /\ open = {}
    /\ Save(r, Manual)
    /\ torn' = FALSE
    /\ Answer(r)
    /\ UNCHANGED <<open, packages, history>>
-----------------------------------------------------------------------------
(* POST /admin/mcp/install                                                 *)

InstallRequest(r, n, p) ==
    /\ Load[n] = NoServer
    /\ SharePackages \/ p = n
    /\ NewRequest(r, n, p, "installing")

\* npm or pip fails or is killed after its timeout, possibly having installed.
InstallFails(r) ==
    /\ pc[r] = "installing"
    /\ packages' \in {packages, packages \cup {package[r]}}
    /\ Answer(r)
    /\ UNCHANGED <<file, promised, history>>

\* Mutant: the server is registered although its package was not installed.
PackageInstalled_Skip(r) ==
    /\ pc[r] = "installing"
    /\ Goto(r, "registering")
    /\ UNCHANGED <<file, packages, promised, history>>

PackageInstalled(r) ==
    /\ pc[r] = "installing"
    /\ packages' = packages \cup {package[r]}
    /\ Goto(r, "registering")
    /\ UNCHANGED <<file, promised, history>>

\* Mutant: the thread writes without taking the lock.
TakeLock_Ignored(r) ==
    /\ pc[r] = "registering"
    /\ open' = open \cup {r}
    /\ Goto(r, "writing")
    /\ UNCHANGED <<servers, torn, packages, promised, history>>

\* The thread takes the lock and truncates the file.
TakeLock(r) ==
    /\ pc[r] = "registering"
    /\ open = {}
    /\ open' = {r}
    /\ Goto(r, "writing")
    /\ UNCHANGED <<servers, torn, packages, promised, history>>

\* It writes its copy with the new server, and releases the lock; two writers
\* at the same time would leave a mixture.
ServerRegistered(r) ==
    /\ pc[r] = "writing"
    /\ Save(r, package[r])
    /\ torn' = (open # {r})
    /\ open' = open \ {r}
    /\ Answer(r)
    /\ UNCHANGED <<packages, history>>
-----------------------------------------------------------------------------
(* DELETE /admin/mcp/{name}                                                *)

\* Mutant: a server that was added by hand is treated as an installed one.
RemoveRequest_AnyPackage(r, n) ==
    /\ Load[n] # NoServer
    /\ NewRequest(r, n, Load[n], "removing")

RemoveRequest(r, n) ==
    /\ Load[n] # NoServer
    /\ NewRequest(r, n, IF Load[n] \in Packages THEN Load[n] ELSE n, "removing")

\* Mutant: the entry is popped and the file not saved.
RemoveServer_NoSave(r) ==
    /\ pc[r] = "removing"
    /\ open = {}
    /\ promised' = [promised EXCEPT ![name[r]] = NoServer]
    /\ Answer(r)
    /\ UNCHANGED <<file, packages, history>>

\* The uninstallation is awaited in a thread unless keep_package was given.
RemoveServer(r) ==
    /\ pc[r] = "removing"
    /\ open = {}
    /\ Save(r, NoServer)
    /\ torn' = FALSE
    /\ \/ Answer(r)
       \/ copy[r][name[r]] \in Packages /\ Goto(r, "uninstalling")
    /\ UNCHANGED <<open, packages, history>>

\* Errors of the package manager are only logged.
Uninstalled(r) ==
    /\ pc[r] = "uninstalling"
    /\ packages' \in {packages, packages \ {package[r]}}
    /\ Answer(r)
    /\ UNCHANGED <<file, promised, history>>
-----------------------------------------------------------------------------
\* The process dies, possibly in the middle of a save.
Crash ==
    /\ Disturbance
    /\ \/ open = {} /\ UNCHANGED <<servers, torn, promised>>
       \/ LoseFile /\ \E r \in Requests : Saving(r)
    /\ open' = {}
    /\ pc' = [r \in Requests |-> "free"]
    /\ copy' = [r \in Requests |-> Empty]
    /\ name' = [r \in Requests |-> NoServer] /\ package' = name'
    /\ UNCHANGED <<packages, overlapped>>

RequestStep(r) ==
    \/ AddRefused(r) \/ AddServer(r) \/ InstallFails(r) \/ PackageInstalled(r)
    \/ TakeLock(r) \/ ServerRegistered(r) \/ RemoveServer(r) \/ Uninstalled(r)

NewRequests(r, n) ==
    \/ AddRequest(r, n) \/ RemoveRequest(r, n)
    \/ \E p \in Packages : InstallRequest(r, n, p)

Next ==
    \/ \E r \in Requests, n \in Names : NewRequests(r, n)
    \/ \E r \in Requests : RequestStep(r) \/ SaveFails(r)
    \/ Crash

Spec == Init /\ [][Next]_vars

\* Subprocesses have timeouts and the lock is held only while writing.
Fairness == \A r \in Requests : SF_vars(RequestStep(r))
FairSpec == Spec /\ Fairness
-----------------------------------------------------------------------------
(* Properties                                                              *)

TypeOK ==
    /\ servers \in [Names -> Entries \cup {NoServer}]
    /\ open \subseteq Requests /\ torn \in BOOLEAN
    /\ packages \subseteq Packages
    /\ pc \in [Requests -> Steps]
    /\ copy \in [Requests -> [Names -> Entries \cup {NoServer}]]
    /\ name \in [Requests -> Names \cup {NoServer}]
    /\ package \in [Requests -> Packages \cup {NoServer}]
    /\ promised \in [Names -> Entries \cup {NoServer}]
    /\ overlapped \in BOOLEAN /\ disturbances \in 0..MaxDisturbances

\* What the docstring of McpManager says of its lock ("prevents concurrent
\* modification from multiple concurrent requests"): what was answered with
\* success is in the file.
ChangesAreKept == open = {} => servers = promised

\* As long as administrators wait for each answer, a request changes only the
\* server it names and replaces none; a save that fails or is cut off leaves the
\* servers as they were, or none at all.
Catalog == INSTANCE ServerCatalog WITH Descriptors <- Entries
SequentialStep ==
    ~overlapped =>
        \/ UNCHANGED servers
        \/ IF disturbances' = disturbances THEN Catalog!Change ELSE Catalog!LoseAll
SequentialRequestsAreLocal == [][SequentialStep]_vars

\* Then also what was answered with success is in the file, except what a later
\* save destroyed that failed or was cut off after it truncated the file
\* (mcp_manager.py:201); and a server installed from a package has its package,
\* so jobs can start it (when no two servers share one).
SequentialAnswersHold ==
    ~overlapped =>
        /\ ChangesAreKept
        /\ ~SharePackages =>
             \A n \in Names : servers[n] \in Packages => servers[n] \in packages

\* The lock keeps writers apart: however requests and threads overlap, a file
\* that cannot be parsed is left only by a save that failed or was cut off.
OverlapsNeverTear == torn => disturbances > 0

\* Every request is answered, whatever others hold the lock.
RequestsEnd == \A r \in Requests : pc[r] # "free" ~> pc[r] = "free"
=============================================================================
