------------------------------ MODULE Accounts ------------------------------
(***************************************************************************)
(* Client accounts and security profiles: AuthManager (auth.py) and        *)
(* SecurityProfileManager (security_profiles.py) behind the administration *)
(* endpoints (admin_router.py), the bootstrap of the first administrator   *)
(* (main.py) and create_admin.py, a process of its own that writes the     *)
(* same clients.json and is assumed not to run beside the server.          *)
(*                                                                         *)
(* Both managers keep their data in memory and rewrite their file on every *)
(* change.  An endpoint has no await that suspends: authentication, guards *)
(* and change are one action.                                              *)
(***************************************************************************)
EXTENDS Naturals, FiniteSets

CONSTANTS
    Clients,        \* client identifiers
    AutoAdmin,      \* "auto-admin", the identifier the bootstrap uses
    Keys,           \* API keys: random, never generated twice
    CustomProfiles, \* names of profiles that administrators create
    Common,         \* the built-in profile "common"
    OtherBuiltins,  \* the built-in profiles "unconfined" and "restrictive"
    NoAccount, NoClient,
    GenerateAdmin,  \* the values generate_admin_on_first_startup may have
    MaxFaults,      \* bound on the saves that raise or are cut off by a crash
    MaxRestarts     \* bound on the number of starts of the server

Builtins == {Common} \cup OtherBuiltins
Profiles == Builtins \cup CustomProfiles
Roles == {"admin", "client"}
Account == [key : Keys, role : Roles, active : BOOLEAN, profile : Profiles]

ASSUME ClientsAssumption == IsFiniteSet(Clients) /\ AutoAdmin \in Clients
ASSUME NoneAssumption == NoAccount \notin Account /\ NoClient \notin Clients
ASSUME ProfilesAssumption == Builtins \cap CustomProfiles = {}
ASSUME ModesAssumption ==
    /\ GenerateAdmin \subseteq BOOLEAN
    /\ MaxFaults \in Nat /\ MaxRestarts \in Nat

VARIABLES
    mode,         \* "down"; "up": AuthManager not built yet; "ready"
    starts,       \* starts so far (bounded by MaxRestarts)
    clients,      \* AuthManager._clients: [Clients -> account or NoAccount]
    index,        \* AuthManager._key_id_index: [Keys -> client or NoClient]
    profiles,     \* SecurityProfileManager._data
    clientsFile,  \* the accounts in clients.json; none: empty or absent
    profilesFile, \* profiles.json; no name: empty or absent
    torn,         \* the files that cannot be parsed
    faults,       \* such saves so far
    issued,       \* keys generated so far
    known         \* keys that were shown to somebody

memory == <<clients, index, profiles>>
files  == <<clientsFile, profilesFile, torn, faults>>
keys   == <<issued, known>>
vars   == <<mode, starts, memory, files, keys>>

NoAccounts == [c \in Clients |-> NoAccount]
NoIndex == [k \in Keys |-> NoClient]
NoProfiles == [names |-> {}, default |-> Common]
BuiltinProfiles == [names |-> Builtins, default |-> Common]

Members(book) == {c \in Clients : book[c] # NoAccount}
Admins(book) == {c \in Members(book) : book[c].role = "admin"}
IndexOf(book) ==
    [k \in Keys |-> IF \E c \in Members(book) : book[c].key = k
                    THEN CHOOSE c \in Members(book) : book[c].key = k
                    ELSE NoClient]
NewAccount(k, r, p) == [key |-> k, role |-> r, active |-> TRUE, profile |-> p]

Init ==
    /\ mode = "down"
    /\ starts = 0
    /\ clients = NoAccounts /\ index = NoIndex /\ profiles = NoProfiles
    /\ clientsFile = NoAccounts /\ profilesFile = NoProfiles
    /\ torn = {} /\ faults = 0 /\ issued = {} /\ known = {}
-----------------------------------------------------------------------------
(* Saving                                                                  *)

SaveClients(book) ==
    /\ clientsFile' = book
    /\ torn' = torn \ {"clients"}
    /\ UNCHANGED faults

SaveProfiles(data) ==
    /\ profilesFile' = data
    /\ torn' = torn \ {"profiles"}
    /\ UNCHANGED faults

\* The save raises, or a crash cuts it off: the old file, an emptied one, or
\* one that cannot be parsed.
ClientsCutOff ==
    /\ faults < MaxFaults
    /\ faults' = faults + 1
    /\ \/ UNCHANGED <<clientsFile, torn>>
       \/ clientsFile' = NoAccounts /\ torn' = torn \ {"clients"}
       \/ torn' = torn \cup {"clients"} /\ UNCHANGED clientsFile

ProfilesCutOff ==
    /\ faults < MaxFaults
    /\ faults' = faults + 1
    /\ \/ UNCHANGED <<profilesFile, torn>>
       \/ profilesFile' = NoProfiles /\ torn' = torn \ {"profiles"}
       \/ torn' = torn \cup {"profiles"} /\ UNCHANGED profilesFile

\* The memory is changed first: when the save raises, the change stays.
ChangeClients(book) ==
    /\ clients' = book
    /\ SaveClients(book) \/ ClientsCutOff
    /\ UNCHANGED <<profiles, profilesFile>>

ChangeProfiles(data) ==
    /\ profiles' = data
    /\ SaveProfiles(data) \/ ProfilesCutOff
    /\ UNCHANGED <<clients, index, clientsFile, keys>>
-----------------------------------------------------------------------------
(* Start and stop                                                          *)

LoadClients ==
    /\ "clients" \notin torn
    /\ clients' = clientsFile
    /\ index' = IndexOf(clientsFile)

\* The built-in profiles are created on the first start (or when the file
\* was emptied).
StartingProfiles ==
    IF profilesFile.names = {} THEN BuiltinProfiles ELSE profilesFile

LoadProfiles ==
    /\ "profiles" \notin torn
    /\ profiles' = StartingProfiles
    /\ profilesFile' = StartingProfiles

CanStart ==
    /\ mode = "down"
    /\ starts < MaxRestarts
    /\ starts' = starts + 1

\* Without the bootstrap AuthManager is built by the first request.
Start ==
    /\ CanStart
    /\ FALSE \in GenerateAdmin
    /\ LoadProfiles
    /\ mode' = "up"
    /\ UNCHANGED <<clients, index, clientsFile, torn, faults, issued, known>>

StartWithAdmin ==
    /\ CanStart
    /\ TRUE \in GenerateAdmin
    /\ LoadProfiles
    /\ LoadClients
    /\ Admins(clientsFile) # {}
    /\ mode' = "ready"
    /\ UNCHANGED <<clientsFile, torn, faults, issued, known>>

\* add_client in lifespan: no account has the role admin.
BootstrapKey(k) ==
    /\ CanStart
    /\ TRUE \in GenerateAdmin
    /\ {"clients", "profiles"} \cap torn = {}
    /\ Admins(clientsFile) = {}
    /\ clientsFile[AutoAdmin] = NoAccount
    /\ k \notin issued
    /\ issued' = issued \cup {k}
    /\ profilesFile' = StartingProfiles

WithAutoAdmin(k) == [clientsFile EXCEPT ![AutoAdmin] = NewAccount(k, "admin", Common)]

Bootstrap(k) ==
    /\ BootstrapKey(k)
    /\ SaveClients(WithAutoAdmin(k))
    /\ mode' = "ready"
    /\ clients' = WithAutoAdmin(k)
    /\ index' = IndexOf(WithAutoAdmin(k))
    /\ profiles' = StartingProfiles
    /\ known' = known \cup {k}

\* The account is saved before its key is encrypted and logged: if the public
\* key is invalid (or the process dies in between) nobody ever has the key.
BootstrapFails(k) ==
    /\ BootstrapKey(k)
    /\ SaveClients(WithAutoAdmin(k)) \/ ClientsCutOff
    /\ UNCHANGED <<mode, memory, known>>

BuildAuthManager ==
    /\ mode = "up"
    /\ LoadClients
    /\ mode' = "ready"
    /\ UNCHANGED <<starts, profiles, files, keys>>

\* The process exits or dies; a crash may cut off the save it was making.
Stop ==
    /\ mode # "down"
    /\ mode' = "down"
    /\ clients' = NoAccounts /\ index' = NoIndex /\ profiles' = NoProfiles
    /\ \/ UNCHANGED files
       \/ mode = "ready" /\ ClientsCutOff /\ UNCHANGED profilesFile
       \/ mode = "ready" /\ ProfilesCutOff /\ UNCHANGED clientsFile
    /\ UNCHANGED <<starts, keys>>
-----------------------------------------------------------------------------
(* The administration endpoints; a is the client whose key was sent        *)

\* verify_key and get_admin_client.
Authenticates(k, a) == index[k] = a /\ clients[a].active

Admin(a) ==
    /\ mode = "ready"
    /\ a \in Admins(clients)
    /\ \E k \in known : Authenticates(k, a)
    /\ UNCHANGED <<mode, starts>>

CountAdmins == Cardinality(Admins(clients))

\* POST /clients: the key is in the answer, so it is lost if the save raises.
CreateClient(a, c, r, p) ==
    /\ Admin(a)
    /\ p \in profiles.names
    /\ clients[c] = NoAccount
    /\ \E k \in Keys \ issued :
         LET book == [clients EXCEPT ![c] = NewAccount(k, r, p)]
         IN  /\ issued' = issued \cup {k}
             /\ index' = [index EXCEPT ![k] = c]
             /\ ChangeClients(book)
             /\ \/ known' = known \cup {k} /\ SaveClients(book)
                \/ known' = known /\ ClientsCutOff

\* Mutant: the key stays in _key_id_index.
DeleteClient_KeepIndex(a, c) ==
    /\ Admin(a)
    /\ c \in Members(clients) \ {a}
    /\ c \in Admins(clients) => CountAdmins > 1
    /\ ChangeClients([clients EXCEPT ![c] = NoAccount])
    /\ UNCHANGED <<index, keys>>

\* Mutant: the account is popped from memory and clients.json is not saved.
DeleteClient_NoSave(a, c) ==
    /\ Admin(a)
    /\ c \in Members(clients) \ {a}
    /\ c \in Admins(clients) => CountAdmins > 1
    /\ index' = [index EXCEPT ![clients[c].key] = NoClient]
    /\ clients' = [clients EXCEPT ![c] = NoAccount]
    /\ UNCHANGED <<profiles, files, keys>>

\* DELETE /clients/{c}
DeleteClient(a, c) ==
    /\ Admin(a)
    /\ c \in Members(clients) \ {a}
    /\ c \in Admins(clients) => CountAdmins > 1
    /\ index' = [index EXCEPT ![clients[c].key] = NoClient]
    /\ ChangeClients([clients EXCEPT ![c] = NoAccount])
    /\ UNCHANGED keys

\* POST /clients/{c}/activate
ActivateClient(a, c) ==
    /\ Admin(a)
    /\ c \in Members(clients)
    /\ ChangeClients([clients EXCEPT ![c].active = TRUE])
    /\ UNCHANGED <<index, keys>>

\* POST /clients/{c}/deactivate
DeactivateClient(a, c) ==
    /\ Admin(a)
    /\ c \in Members(clients) \ {a}
    /\ c \in Admins(clients) => CountAdmins > 1
    /\ ChangeClients([clients EXCEPT ![c].active = FALSE])
    /\ UNCHANGED <<index, keys>>

\* Mutant: anybody may be demoted.
UpdateClient_NoGuard(a, c, r, p) ==
    /\ Admin(a)
    /\ c \in Members(clients)
    /\ p \in profiles.names \cup {clients[c].profile}
    /\ ChangeClients([clients EXCEPT ![c].role = r, ![c].profile = p])
    /\ UNCHANGED <<index, keys>>

\* PATCH /clients/{c}; a field that is not given keeps its value.
\* Administrators may demote themselves.
UpdateClient(a, c, r, p) ==
    /\ Admin(a)
    /\ c \in Members(clients)
    /\ r = "client" /\ c \in Admins(clients) => CountAdmins > 1
    /\ p \in profiles.names \cup {clients[c].profile}
    /\ ChangeClients([clients EXCEPT ![c].role = r, ![c].profile = p])
    /\ UNCHANGED <<index, keys>>

\* POST /security-profiles
CreateProfile(a, p) ==
    /\ Admin(a)
    /\ p \notin profiles.names
    /\ ChangeProfiles([profiles EXCEPT !.names = @ \cup {p}])

Assigned(p) == {c \in Members(clients) : clients[c].profile = p}

\* Mutant: the clients the profile is assigned to are not looked for.
DeleteProfile_IgnoreAssigned(a, p) ==
    /\ Admin(a)
    /\ p \in profiles.names \ Builtins
    /\ ChangeProfiles([names |-> profiles.names \ {p},
                       default |-> IF profiles.default = p THEN Common
                                   ELSE profiles.default])

\* Mutant: the default is cleared when its profile is deleted.
DeleteProfile_ClearDefault(a, p) ==
    /\ Admin(a)
    /\ p \in profiles.names \ Builtins
    /\ Assigned(p) = {}
    /\ ChangeProfiles([names |-> profiles.names \ {p},
                       default |-> IF profiles.default = p THEN ""
                                   ELSE profiles.default])

\* Mutant: the default is not reset when its profile is deleted.
DeleteProfile_KeepDefault(a, p) ==
    /\ Admin(a)
    /\ p \in profiles.names \ Builtins
    /\ Assigned(p) = {}
    /\ ChangeProfiles([profiles EXCEPT !.names = @ \ {p}])

\* DELETE /security-profiles/{p}
DeleteProfile(a, p) ==
    /\ Admin(a)
    /\ p \in profiles.names \ Builtins
    /\ Assigned(p) = {}
    /\ ChangeProfiles([names |-> profiles.names \ {p},
                       default |-> IF profiles.default = p THEN Common
                                   ELSE profiles.default])

\* POST /security-profiles/{p}/set-default
SetDefault(a, p) ==
    /\ Admin(a)
    /\ p \in profiles.names
    /\ ChangeProfiles([profiles EXCEPT !.default = p])
-----------------------------------------------------------------------------
(* create_admin.py, which must not run beside the server: the server would  *)
(* overwrite what it adds.                                                  *)

CreateAdmin(c, k) ==
    /\ mode = "down"
    /\ "clients" \notin torn
    /\ clientsFile[c] = NoAccount
    /\ k \notin issued
    /\ issued' = issued \cup {k}
    /\ \/ SaveClients([clientsFile EXCEPT ![c] = NewAccount(k, "admin", Common)])
          /\ known' = known \cup {k}
       \/ ClientsCutOff /\ UNCHANGED known
    /\ UNCHANGED <<mode, starts, memory, profilesFile>>
-----------------------------------------------------------------------------
AdminRequest(a) ==
    \/ \E c \in Clients :
         \/ DeleteClient(a, c) \/ ActivateClient(a, c) \/ DeactivateClient(a, c)
         \/ \E r \in Roles, p \in Profiles :
              CreateClient(a, c, r, p) \/ UpdateClient(a, c, r, p)
    \/ \E p \in CustomProfiles : CreateProfile(a, p) \/ DeleteProfile(a, p)
    \/ \E p \in Profiles : SetDefault(a, p)

Next ==
    \/ Start \/ StartWithAdmin \/ BuildAuthManager \/ Stop
    \/ \E k \in Keys : Bootstrap(k) \/ BootstrapFails(k)
    \/ \E a \in Clients : AdminRequest(a)
    \/ \E c \in Clients, k \in Keys : CreateAdmin(c, k)

Spec == Init /\ [][Next]_vars
-----------------------------------------------------------------------------
(* Properties                                                              *)

Books == [Clients -> Account \cup {NoAccount}]
ProfileData == [names : SUBSET Profiles, default : Profiles]

TypeOK ==
    /\ mode \in {"down", "up", "ready"}
    /\ starts \in 0..MaxRestarts /\ faults \in 0..MaxFaults
    /\ clients \in Books /\ clientsFile \in Books
    /\ index \in [Keys -> Clients \cup {NoClient}]
    /\ profiles \in ProfileData /\ profilesFile \in ProfileData
    /\ torn \subseteq {"clients", "profiles"}
    /\ issued \subseteq Keys /\ known \subseteq issued

\* The accounts that count: those in memory, or those a start would load.
CurrentAccounts == IF mode = "ready" THEN clients ELSE clientsFile
CurrentKeys == {CurrentAccounts[c].key : c \in Members(CurrentAccounts)}

\* As long as every save succeeded, the profile of every account exists, in
\* memory and in the files a restart reads, although accounts and profiles are
\* changed by different endpoints and saved in different files.
AssignedProfileExists ==
    faults = 0 =>
        /\ mode = "ready" =>
             \A c \in Members(clients) : clients[c].profile \in profiles.names
        /\ \A c \in Members(clientsFile) :
             clientsFile[c].profile \in profilesFile.names \cup {Common}

\* The default profile exists, so a job never falls back to another one,
\* whatever saves fail or are cut off.
DefaultExists ==
    mode # "down" => profiles.default \in profiles.names

\* No job is left without a profile: neither its client's nor the default.
ProfilesExist == AssignedProfileExists /\ DefaultExists

\* The key index authenticates exactly the keys of existing accounts, each as
\* its own account, whatever saves fail: none survives the account it was
\* made for.
IndexExact ==
    \A k \in Keys, c \in Clients :
        index[k] = c <=> clients[c] # NoAccount /\ clients[c].key = k

\* What a key is good for: the accounts in memory say it, or those a start
\* would load.
KeyState == [k \in Keys |->
    IF k \notin issued THEN "new"
    ELSE IF \E c \in Members(CurrentAccounts) :
              CurrentAccounts[c].key = k /\ CurrentAccounts[c].active THEN "valid"
    ELSE IF k \in CurrentKeys THEN "suspended"
    ELSE "revoked"]
Registry == INSTANCE KeyRegistry WITH state <- KeyState

\* As long as saves succeed, every step of the server and of create_admin.py
\* is one of the key registry, or leaves every key as it is: a restart brings
\* no revoked key back, and a request for one account disturbs no other key.
KeysFollowRegistry ==
    [][faults' = 0 => Registry!Next \/ UNCHANGED KeyState]_vars

\* Once there is an account with the role admin, there always is one, as long
\* as saves succeed.
AdminRemains ==
    [][faults' = 0 /\ Admins(CurrentAccounts) # {}
         => Admins(CurrentAccounts)' # {}]_vars

\* What docs/api-reference.md says of deleting and deactivating clients and
\* the answer "Cannot demote the last admin": an active one always remains.
ActiveAdminRemains ==
    mode = "ready" /\ Members(clients) # {} =>
        \E a \in Admins(clients) : clients[a].active
=============================================================================
