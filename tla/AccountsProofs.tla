--------------------------- MODULE AccountsProofs ---------------------------
(***************************************************************************)
(* Proofs about Accounts, for every set of clients, keys and profiles and  *)
(* every number of restarts and failed saves.                              *)
(*                                                                         *)
(* IndexExact is not inductive: that a start builds an exact index needs   *)
(* that no two stored accounts share a key, which needs that every stored  *)
(* key was issued (KeysApart).  DefaultExists needs the same of the file   *)
(* (ProfilesSound), AssignedProfileExists that memory and files agree as   *)
(* long as no save failed (FilesMirror).                                   *)
(*                                                                         *)
(* FileStep sums up what a step does to the stored accounts; from it       *)
(* follow the action properties, and step by step that the accounts        *)
(* implement KeyRegistry.                                                  *)
(***************************************************************************)
EXTENDS Accounts, FiniteSetTheorems, TLAPS

\* The accounts of a book have different keys, all taken from ks.
Apart(book, ks) ==
    \A c \in Members(book) :
        /\ book[c].key \in ks
        /\ \A d \in Members(book) : book[d].key = book[c].key => d = c

KeysApart == Apart(clients, issued) /\ Apart(clientsFile, issued)

Sound(data) == Builtins \subseteq data.names /\ data.default \in data.names

ProfilesSound ==
    /\ mode # "down" => Sound(profiles)
    /\ profilesFile.names # {} => Sound(profilesFile)

FilesMirror ==
    faults = 0 =>
        /\ mode = "ready" => clientsFile = clients
        /\ mode # "down" => profilesFile = profiles

AssignedInFiles ==
    faults = 0 =>
        \A c \in Members(clientsFile) :
            clientsFile[c].profile \in profilesFile.names \cup {Common}

AccountInv ==
    TypeOK /\ IndexExact /\ KeysApart /\ ProfilesSound /\ FilesMirror /\ AssignedInFiles

-----------------------------------------------------------------------------
(* What saving leaves                                                      *)

\* An account as add_client makes it.
LEMMA NewAccountType ==
    ASSUME NEW k \in Keys, NEW r \in Roles, NEW p \in Profiles
    PROVE  /\ NewAccount(k, r, p) \in Account
           /\ NewAccount(k, r, p).key = k
           /\ NewAccount(k, r, p).profile = p
           /\ NewAccount(k, r, p).role = r
           /\ NewAccount(k, r, p).active
BY DEF NewAccount, Account

\* An empty book has no members and keys of nobody.
LEMMA EmptyBook ==
    /\ NoAccounts \in Books
    /\ Members(NoAccounts) = {}
    /\ \A ks : Apart(NoAccounts, ks)
BY DEF NoAccounts, Books, Members, Apart

\* A member's entry is an account.
LEMMA MemberType ==
    ASSUME NEW book \in Books, NEW c \in Members(book)
    PROVE  c \in Clients /\ book[c] \in Account /\ book[c].key \in Keys
           /\ book[c].profile \in Profiles
BY DEF Books, Members, Account

\* Only a save that succeeds keeps faults at 0, and every outcome leaves the
\* new book, the old one or an empty one.
LEMMA ClientsSaved ==
    ASSUME TypeOK, NEW book \in Books, SaveClients(book) \/ ClientsCutOff
    PROVE  /\ clientsFile' \in {book, clientsFile, NoAccounts}
           /\ clientsFile' \in Books
           /\ faults' \in 0..MaxFaults
           /\ torn' \subseteq {"clients", "profiles"}
           /\ faults' = 0 => faults = 0 /\ clientsFile' = book
<1>1. CASE SaveClients(book)
  BY <1>1 DEF SaveClients, TypeOK
<1>2. CASE ClientsCutOff
  <2>1. faults' \in 1..MaxFaults
    BY <1>2, ModesAssumption DEF ClientsCutOff, TypeOK
  <2>2. clientsFile' \in {clientsFile, NoAccounts} /\ torn' \subseteq torn \cup {"clients"}
    BY <1>2 DEF ClientsCutOff
  <2>3. QED BY <2>1, <2>2, EmptyBook, ModesAssumption DEF TypeOK
<1>3. QED BY <1>1, <1>2

\* The built-in profiles are sound data.
LEMMA BuiltinsType ==
    /\ NoProfiles \in ProfileData
    /\ BuiltinProfiles \in ProfileData
    /\ Sound(BuiltinProfiles)
    /\ Common \in Builtins
BY DEF NoProfiles, BuiltinProfiles, ProfileData, Sound, Builtins, Profiles

\* The same for the profiles.
LEMMA ProfilesSaved ==
    ASSUME TypeOK, NEW data \in ProfileData, SaveProfiles(data) \/ ProfilesCutOff
    PROVE  /\ profilesFile' \in {data, profilesFile, NoProfiles}
           /\ profilesFile' \in ProfileData
           /\ faults' \in 0..MaxFaults
           /\ torn' \subseteq {"clients", "profiles"}
           /\ faults' = 0 => faults = 0 /\ profilesFile' = data
<1>1. CASE SaveProfiles(data)
  BY <1>1 DEF SaveProfiles, TypeOK
<1>2. CASE ProfilesCutOff
  <2>1. faults' \in 1..MaxFaults
    BY <1>2, ModesAssumption DEF ProfilesCutOff, TypeOK
  <2>2. profilesFile' \in {profilesFile, NoProfiles} /\ torn' \subseteq torn \cup {"profiles"}
    BY <1>2 DEF ProfilesCutOff
  <2>3. QED BY <2>1, <2>2, BuiltinsType, ModesAssumption DEF TypeOK
<1>3. QED BY <1>1, <1>2

\* What a start reads is sound, and has every profile the file had.
LEMMA StartingSound ==
    ASSUME TypeOK, ProfilesSound
    PROVE  /\ StartingProfiles \in ProfileData
           /\ Sound(StartingProfiles)
           /\ profilesFile.names \cup {Common} \subseteq StartingProfiles.names
BY BuiltinsType DEF StartingProfiles, TypeOK, ProfilesSound, Sound, BuiltinProfiles

\* The index built from a book whose accounts have different keys is exact.
LEMMA IndexOfExact ==
    ASSUME NEW book \in Books, NEW ks, Apart(book, ks)
    PROVE  /\ IndexOf(book) \in [Keys -> Clients \cup {NoClient}]
           /\ \A k \in Keys, c \in Clients :
                IndexOf(book)[k] = c <=> book[c] # NoAccount /\ book[c].key = k
<1> DEFINE Owner(k) == CHOOSE c \in Members(book) : book[c].key = k
           Owned(k) == \E c \in Members(book) : book[c].key = k
<1>1. \A k \in Keys : Owned(k) => Owner(k) \in Members(book) /\ book[Owner(k)].key = k
  OBVIOUS
<1>2. \A k \in Keys : IndexOf(book)[k] = IF Owned(k) THEN Owner(k) ELSE NoClient
  BY DEF IndexOf
<1>3. Members(book) \subseteq Clients
  BY DEF Members
<1>4. IndexOf(book) \in [Keys -> Clients \cup {NoClient}]
  BY <1>1, <1>3 DEF IndexOf
<1>5. ASSUME NEW k \in Keys, NEW c \in Clients
      PROVE  IndexOf(book)[k] = c <=> book[c] # NoAccount /\ book[c].key = k
  <2>1. CASE Owned(k)
    <3>1. IndexOf(book)[k] = Owner(k) /\ Owner(k) \in Members(book) /\ book[Owner(k)].key = k
      BY <1>1, <1>2, <2>1
    <3>2. c \in Members(book) /\ book[c].key = k => c = Owner(k)
      BY <3>1 DEF Apart
    <3>3. QED BY <3>1, <3>2 DEF Members
  <2>2. CASE ~Owned(k)
    <3>1. IndexOf(book)[k] = NoClient
      BY <1>2, <2>2
    <3>2. ~(book[c] # NoAccount /\ book[c].key = k)
      BY <2>2 DEF Members
    <3>3. QED BY <3>1, <3>2, NoneAssumption
  <2>3. QED BY <2>1, <2>2
<1>6. QED BY <1>4, <1>5
-----------------------------------------------------------------------------
(* What the endpoints change                                               *)

\* The account of c is replaced by acct, with the same key and a profile that
\* exists or that it had; the last administrator stays one.
EditAccount(c, acct) ==
    /\ mode = "ready" /\ UNCHANGED <<mode, starts>>
    /\ c \in Members(clients)
    /\ acct \in Account
    /\ acct.key = clients[c].key
    /\ acct.profile \in profiles.names \cup {clients[c].profile}
    /\ c \in Admins(clients) /\ acct.role # "admin" => CountAdmins > 1
    /\ ChangeClients([clients EXCEPT ![c] = acct])
    /\ UNCHANGED <<index, keys>>

\* The profiles become data, which is sound and lacks no assigned profile.
EditProfiles(data) ==
    /\ mode = "ready" /\ UNCHANGED <<mode, starts>>
    /\ data \in ProfileData
    /\ Sound(profiles) => Sound(data)
    /\ \A p \in profiles.names : p \in data.names \/ Assigned(p) = {}
    /\ ChangeProfiles(data)

\* Activating, deactivating and updating an account edit it.
LEMMA AccountEdited ==
    ASSUME TypeOK, NEW a \in Clients, NEW c \in Clients,
           NEW r \in Roles, NEW p \in Profiles,
           ActivateClient(a, c) \/ DeactivateClient(a, c) \/ UpdateClient(a, c, r, p)
    PROVE  \E acct \in Account : EditAccount(c, acct)
<1>1. c \in Members(clients) /\ clients[c] \in Account /\ clients \in Books
  BY MemberType DEF ActivateClient, DeactivateClient, UpdateClient, TypeOK
<1>2. CASE ActivateClient(a, c)
  <2> DEFINE acct == [clients[c] EXCEPT !.active = TRUE]
  <2>1. acct \in Account /\ acct.key = clients[c].key /\ acct.profile = clients[c].profile
        /\ acct.role = clients[c].role
    BY <1>1 DEF Account
  <2>2. c \in Admins(clients) => acct.role = "admin"
    BY <2>1 DEF Admins
  <2>3. [clients EXCEPT ![c].active = TRUE] = [clients EXCEPT ![c] = acct]
    BY <1>1 DEF Books
  <2>4. QED
    BY <1>1, <1>2, <2>1, <2>2, <2>3 DEF ActivateClient, Admin, EditAccount
<1>3. CASE DeactivateClient(a, c)
  <2> DEFINE acct == [clients[c] EXCEPT !.active = FALSE]
  <2>1. acct \in Account /\ acct.key = clients[c].key /\ acct.profile = clients[c].profile
        /\ acct.role = clients[c].role
    BY <1>1 DEF Account
  <2>2. c \in Admins(clients) => acct.role = "admin"
    BY <2>1 DEF Admins
  <2>3. [clients EXCEPT ![c].active = FALSE] = [clients EXCEPT ![c] = acct]
    BY <1>1 DEF Books
  <2>4. QED
    BY <1>1, <1>3, <2>1, <2>2, <2>3 DEF DeactivateClient, Admin, EditAccount
<1>4. CASE UpdateClient(a, c, r, p)
  <2> DEFINE acct == [clients[c] EXCEPT !.role = r, !.profile = p]
  <2>1. acct \in Account /\ acct.key = clients[c].key /\ acct.profile = p /\ acct.role = r
    BY <1>1 DEF Account
  <2>2. c \in Admins(clients) /\ acct.role # "admin" => CountAdmins > 1
    BY <2>1, <1>4 DEF UpdateClient, Roles
  <2>3. [clients EXCEPT ![c].role = r, ![c].profile = p] = [clients EXCEPT ![c] = acct]
    BY <1>1 DEF Books
  <2>4. QED
    BY <1>1, <1>4, <2>1, <2>2, <2>3 DEF UpdateClient, Admin, EditAccount
<1>5. QED BY <1>2, <1>3, <1>4

\* Creating, deleting and choosing a profile edit the profiles.
LEMMA ProfilesEdited ==
    ASSUME TypeOK, NEW a \in Clients, NEW p \in Profiles,
           \/ p \in CustomProfiles /\ (CreateProfile(a, p) \/ DeleteProfile(a, p))
           \/ SetDefault(a, p)
    PROVE  \E data \in ProfileData : EditProfiles(data)
<1>0. profiles \in ProfileData /\ profiles.names \subseteq Profiles
      /\ profiles.default \in Profiles
  BY DEF TypeOK, ProfileData
<1>1. CASE CreateProfile(a, p)
  <2> DEFINE data == [profiles EXCEPT !.names = @ \cup {p}]
  <2>1. data \in ProfileData /\ data.names = profiles.names \cup {p}
        /\ data.default = profiles.default
    BY <1>0 DEF ProfileData
  <2>2. Sound(profiles) => Sound(data)
    BY <2>1 DEF Sound
  <2>3. QED BY <1>1, <2>1, <2>2 DEF CreateProfile, Admin, EditProfiles
<1>2. CASE p \in CustomProfiles /\ DeleteProfile(a, p)
  <2> DEFINE data == [names |-> profiles.names \ {p},
                      default |-> IF profiles.default = p THEN Common
                                  ELSE profiles.default]
  <2>1. data \in ProfileData
    BY <1>0, BuiltinsType DEF ProfileData, Profiles
  <2>2. Sound(profiles) => Sound(data)
    BY <1>2, BuiltinsType DEF Sound, DeleteProfile
  <2>3. \A q \in profiles.names : q \in data.names \/ Assigned(q) = {}
    BY <1>2 DEF DeleteProfile
  <2>4. QED BY <1>2, <2>1, <2>2, <2>3 DEF DeleteProfile, Admin, EditProfiles
<1>3. CASE SetDefault(a, p)
  <2> DEFINE data == [profiles EXCEPT !.default = p]
  <2>1. data \in ProfileData /\ data.names = profiles.names /\ data.default = p
    BY <1>0 DEF ProfileData
  <2>2. Sound(profiles) => Sound(data)
    BY <2>1, <1>3 DEF Sound, SetDefault
  <2>3. QED BY <1>3, <2>1, <2>2 DEF SetDefault, Admin, EditProfiles
<1>4. QED BY <1>1, <1>2, <1>3
-----------------------------------------------------------------------------
(* Books whose accounts have different keys                                *)

\* Issuing more keys keeps the keys of a book apart.
LEMMA ApartMore ==
    ASSUME NEW book, NEW ks, NEW more, Apart(book, ks), ks \subseteq more
    PROVE  Apart(book, more)
BY DEF Apart

\* An account that keeps its key, or gets one that was not issued.
LEMMA ApartSet ==
    ASSUME NEW book \in Books, NEW ks, NEW more, Apart(book, ks), ks \subseteq more,
           NEW c \in Clients, NEW acct \in Account, acct.key \in more,
           acct.key \notin ks \/ (c \in Members(book) /\ acct.key = book[c].key)
    PROVE  /\ [book EXCEPT ![c] = acct] \in Books
           /\ Members([book EXCEPT ![c] = acct]) = Members(book) \cup {c}
           /\ Apart([book EXCEPT ![c] = acct], more)
<1> DEFINE new == [book EXCEPT ![c] = acct]
<1>1. new \in Books /\ new[c] = acct /\ \A d \in Clients \ {c} : new[d] = book[d]
  BY DEF Books
<1>2. Members(new) = Members(book) \cup {c}
  BY <1>1, NoneAssumption DEF Members
<1>3. \A d \in Members(book) \ {c} : new[d].key \in ks /\ new[d].key # acct.key
  BY <1>1, <1>2 DEF Apart, Members
<1>4. Apart(new, more)
  BY <1>1, <1>2, <1>3 DEF Apart, Members
<1>5. QED BY <1>1, <1>2, <1>4

\* A deleted account.
LEMMA ApartDelete ==
    ASSUME NEW book \in Books, NEW ks, Apart(book, ks), NEW c \in Clients
    PROVE  /\ [book EXCEPT ![c] = NoAccount] \in Books
           /\ Members([book EXCEPT ![c] = NoAccount]) = Members(book) \ {c}
           /\ Apart([book EXCEPT ![c] = NoAccount], ks)
<1> DEFINE new == [book EXCEPT ![c] = NoAccount]
<1>1. new \in Books /\ new[c] = NoAccount /\ \A d \in Clients \ {c} : new[d] = book[d]
  BY DEF Books
<1>2. Members(new) = Members(book) \ {c}
  BY <1>1 DEF Members
<1>3. QED BY <1>1, <1>2 DEF Apart, Members
-----------------------------------------------------------------------------
(* Every step keeps AccountInv                                             *)

\* No account, no key, no file.
LEMMA InitAccountInv == Init => AccountInv
<1> SUFFICES ASSUME Init PROVE AccountInv
  OBVIOUS
<1>1. TypeOK
  BY EmptyBook, BuiltinsType, ModesAssumption DEF Init, TypeOK, NoIndex
<1>2. IndexExact
  BY NoneAssumption DEF Init, IndexExact, NoIndex, NoAccounts
<1>3. KeysApart
  BY EmptyBook DEF Init, KeysApart
<1>4. ProfilesSound /\ FilesMirror /\ AssignedInFiles
  BY EmptyBook DEF Init, ProfilesSound, FilesMirror, AssignedInFiles, NoProfiles
<1>5. QED BY <1>1, <1>2, <1>3, <1>4 DEF AccountInv

\* A start without the bootstrap.
LEMMA StartStep == ASSUME AccountInv, Start PROVE AccountInv'
<1>1. TypeOK /\ ProfilesSound
  BY DEF AccountInv
<1>2. /\ profiles' = StartingProfiles /\ profilesFile' = StartingProfiles
      /\ Sound(StartingProfiles) /\ StartingProfiles \in ProfileData
      /\ profilesFile.names \cup {Common} \subseteq StartingProfiles.names
  BY <1>1, StartingSound DEF Start, LoadProfiles
<1>3. TypeOK'
  BY <1>1, <1>2, ModesAssumption DEF TypeOK, Start, CanStart
<1>4. IndexExact' /\ KeysApart'
  BY DEF AccountInv, IndexExact, KeysApart, Start, Members, Apart
<1>5. ProfilesSound' /\ FilesMirror'
  BY <1>2 DEF ProfilesSound, FilesMirror, Start
<1>6. AssignedInFiles'
  BY <1>2 DEF AccountInv, AssignedInFiles, Start, Members
<1>7. QED BY <1>3, <1>4, <1>5, <1>6 DEF AccountInv

\* A start that finds an administrator.
LEMMA StartWithAdminStep == ASSUME AccountInv, StartWithAdmin PROVE AccountInv'
<1>1. TypeOK /\ ProfilesSound /\ clientsFile \in Books /\ Apart(clientsFile, issued)
  BY DEF AccountInv, TypeOK, KeysApart
<1>2. /\ profiles' = StartingProfiles /\ profilesFile' = StartingProfiles
      /\ Sound(StartingProfiles) /\ StartingProfiles \in ProfileData
      /\ profilesFile.names \cup {Common} \subseteq StartingProfiles.names
  BY <1>1, StartingSound DEF StartWithAdmin, LoadProfiles
<1>3. /\ clients' = clientsFile /\ clientsFile' = clientsFile /\ issued' = issued
      /\ index' = IndexOf(clientsFile)
  BY DEF StartWithAdmin, LoadClients
<1>4. TypeOK'
  BY <1>1, <1>2, <1>3, IndexOfExact, ModesAssumption
     DEF TypeOK, StartWithAdmin, CanStart
<1>5. IndexExact'
  BY <1>1, <1>3, IndexOfExact DEF IndexExact
<1>6. KeysApart'
  BY <1>1, <1>3 DEF KeysApart, Members, Apart
<1>7. ProfilesSound' /\ FilesMirror'
  BY <1>2, <1>3 DEF ProfilesSound, FilesMirror, StartWithAdmin
<1>8. AssignedInFiles'
  BY <1>2, <1>3 DEF AccountInv, AssignedInFiles, StartWithAdmin, Members
<1>9. QED BY <1>4, <1>5, <1>6, <1>7, <1>8 DEF AccountInv

\* The first request reads clients.json.
LEMMA BuildStep == ASSUME AccountInv, BuildAuthManager PROVE AccountInv'
<1>1. TypeOK /\ clientsFile \in Books /\ Apart(clientsFile, issued) /\ mode = "up"
  BY DEF AccountInv, TypeOK, KeysApart, BuildAuthManager
<1>2. /\ clients' = clientsFile /\ clientsFile' = clientsFile
      /\ index' = IndexOf(clientsFile) /\ UNCHANGED <<starts, profiles, files, keys>>
  BY DEF BuildAuthManager, LoadClients, files
<1>3. TypeOK'
  BY <1>1, <1>2, IndexOfExact DEF TypeOK, BuildAuthManager, files, keys
<1>4. IndexExact'
  BY <1>1, <1>2, IndexOfExact DEF IndexExact
<1>5. KeysApart'
  BY <1>1, <1>2 DEF KeysApart, Members, Apart, keys
<1>6. ProfilesSound' /\ FilesMirror'
  BY <1>1, <1>2 DEF AccountInv, ProfilesSound, FilesMirror, BuildAuthManager, files
<1>7. AssignedInFiles'
  BY <1>2 DEF AccountInv, AssignedInFiles, Members, files
<1>8. QED BY <1>3, <1>4, <1>5, <1>6, <1>7 DEF AccountInv

\* The account that the bootstrap or create_admin.py adds to clients.json.
LEMMA AdminAdded ==
    ASSUME AccountInv, NEW c \in Clients, NEW k \in Keys, k \notin issued
    PROVE  LET book == [clientsFile EXCEPT ![c] = NewAccount(k, "admin", Common)]
           IN  /\ book \in Books
               /\ Members(book) = Members(clientsFile) \cup {c}
               /\ Apart(book, issued \cup {k})
<1>1. clientsFile \in Books /\ Apart(clientsFile, issued)
  BY DEF AccountInv, TypeOK, KeysApart
<1> DEFINE acct == NewAccount(k, "admin", Common)
           more == issued \cup {k}
<1>2. acct \in Account /\ acct.key = k
  BY NewAccountType, BuiltinsType DEF Roles, Profiles
<1>3. issued \subseteq more /\ acct.key \in more /\ acct.key \notin issued
  BY <1>2
<1> HIDE DEF acct, more
<1>4. /\ [clientsFile EXCEPT ![c] = acct] \in Books
      /\ Members([clientsFile EXCEPT ![c] = acct]) = Members(clientsFile) \cup {c}
      /\ Apart([clientsFile EXCEPT ![c] = acct], more)
  BY <1>1, <1>2, <1>3, ApartSet
<1>5. QED BY <1>4 DEF acct, more

\* Its profile is "common", which needs no file.
LEMMA AdminAddedAssigned ==
    ASSUME AccountInv, NEW c \in Clients, NEW k \in Keys, NEW names,
           \A d \in Members(clientsFile) : clientsFile[d].profile \in names \cup {Common}
    PROVE  LET book == [clientsFile EXCEPT ![c] = NewAccount(k, "admin", Common)]
           IN  \A d \in Members(book) : book[d].profile \in names \cup {Common}
<1> DEFINE book == [clientsFile EXCEPT ![c] = NewAccount(k, "admin", Common)]
<1>1. clientsFile \in Books
  BY DEF AccountInv, TypeOK
<1>2. \A d \in Clients : book[d] = IF d = c THEN NewAccount(k, "admin", Common) ELSE clientsFile[d]
  BY <1>1 DEF Books
<1>3. NewAccount(k, "admin", Common).profile = Common
  BY DEF NewAccount
<1>4. QED BY <1>2, <1>3 DEF Members

\* The bootstrap that succeeds.
LEMMA BootstrapStep == ASSUME AccountInv, NEW k \in Keys, Bootstrap(k) PROVE AccountInv'
<1> DEFINE book == WithAutoAdmin(k)
<1>1. TypeOK /\ ProfilesSound /\ AutoAdmin \in Clients /\ k \notin issued
  BY ClientsAssumption DEF AccountInv, Bootstrap, BootstrapKey
<1>2. /\ profiles' = StartingProfiles /\ profilesFile' = StartingProfiles
      /\ Sound(StartingProfiles) /\ StartingProfiles \in ProfileData
      /\ profilesFile.names \cup {Common} \subseteq StartingProfiles.names
  BY <1>1, StartingSound DEF Bootstrap, BootstrapKey
<1>3. book \in Books /\ Apart(book, issued \cup {k})
  BY <1>1, AdminAdded DEF WithAutoAdmin
<1>4. /\ clients' = book /\ clientsFile' = book /\ index' = IndexOf(book)
      /\ issued' = issued \cup {k} /\ mode' = "ready" /\ faults' = faults
      /\ torn' \subseteq torn /\ known' = known \cup {k}
  BY DEF Bootstrap, BootstrapKey, SaveClients
<1>5. TypeOK'
  BY <1>1, <1>2, <1>3, <1>4, IndexOfExact, ModesAssumption
     DEF TypeOK, Bootstrap, BootstrapKey, CanStart
<1>6. IndexExact'
  BY <1>3, <1>4, IndexOfExact DEF IndexExact
<1>7. KeysApart'
  BY <1>3, <1>4 DEF KeysApart, Members, Apart
<1>8. ProfilesSound' /\ FilesMirror'
  BY <1>2, <1>4 DEF ProfilesSound, FilesMirror
<1>9. AssignedInFiles'
  <2> SUFFICES ASSUME faults = 0
               PROVE  \A d \in Members(book) : book[d].profile \in StartingProfiles.names \cup {Common}
    BY <1>2, <1>4 DEF AssignedInFiles, Members
  <2>1. \A d \in Members(clientsFile) :
          clientsFile[d].profile \in StartingProfiles.names \cup {Common}
    BY <1>2 DEF AccountInv, AssignedInFiles
  <2>2. QED BY <1>1, <2>1, AdminAddedAssigned DEF WithAutoAdmin
<1>10. QED BY <1>5, <1>6, <1>7, <1>8, <1>9 DEF AccountInv

\* A step that only adds an account to clients.json, or tries to.
AdminToFile(c, k) ==
    /\ k \notin issued /\ issued' = issued \cup {k}
    /\ LET book == [clientsFile EXCEPT ![c] = NewAccount(k, "admin", Common)]
       IN  SaveClients(book) \/ ClientsCutOff
    /\ known' \in {known, known \cup {k}}
    /\ mode = "down"
    /\ UNCHANGED <<mode, memory>>

\* It keeps the invariant, whatever it leaves of the profiles a start reads.
LEMMA AdminToFileStep ==
    ASSUME AccountInv, NEW c \in Clients, NEW k \in Keys, AdminToFile(c, k),
           starts' \in 0..MaxRestarts, profilesFile' \in {profilesFile, StartingProfiles}
    PROVE  AccountInv'
<1> DEFINE book == [clientsFile EXCEPT ![c] = NewAccount(k, "admin", Common)]
<1>1. TypeOK /\ ProfilesSound /\ k \notin issued /\ issued' = issued \cup {k}
      /\ mode' = "down" /\ mode = "down"
      /\ clients' = clients /\ index' = index /\ profiles' = profiles
  BY DEF AccountInv, AdminToFile, memory
<1>2. /\ Sound(StartingProfiles) /\ StartingProfiles \in ProfileData
      /\ profilesFile.names \cup {Common} \subseteq StartingProfiles.names
  BY <1>1, StartingSound
<1>3. book \in Books /\ Apart(book, issued')
  BY <1>1, AdminAdded
<1>4. /\ clientsFile' \in {book, clientsFile, NoAccounts} /\ clientsFile' \in Books
      /\ faults' \in 0..MaxFaults /\ torn' \subseteq {"clients", "profiles"}
      /\ faults' = 0 => faults = 0 /\ clientsFile' = book
  BY <1>1, <1>3, ClientsSaved DEF AdminToFile
<1>5. TypeOK'
  BY <1>1, <1>2, <1>4 DEF TypeOK, AdminToFile
<1>6. IndexExact'
  BY <1>1 DEF AccountInv, IndexExact
<1>7. KeysApart'
  <2>1. Apart(clients, issued') /\ Apart(clientsFile, issued')
    BY <1>1, ApartMore DEF AccountInv, KeysApart
  <2>2. Apart(clientsFile', issued')
    BY <1>3, <1>4, <2>1, EmptyBook
  <2>3. QED BY <1>1, <2>1, <2>2 DEF KeysApart, Members, Apart
<1>8. ProfilesSound' /\ FilesMirror'
  BY <1>1, <1>2 DEF ProfilesSound, FilesMirror
<1>9. AssignedInFiles'
  <2> SUFFICES ASSUME faults' = 0
               PROVE  \A d \in Members(book) : book[d].profile \in profilesFile'.names \cup {Common}
    BY <1>4 DEF AssignedInFiles, Members
  <2>1. \A d \in Members(clientsFile) :
          clientsFile[d].profile \in profilesFile'.names \cup {Common}
    BY <1>2, <1>4 DEF AccountInv, AssignedInFiles
  <2>2. QED BY <2>1, AdminAddedAssigned
<1>10. QED BY <1>5, <1>6, <1>7, <1>8, <1>9 DEF AccountInv

\* The bootstrap that fails after saving.
LEMMA BootstrapFailsStep ==
    ASSUME AccountInv, NEW k \in Keys, BootstrapFails(k) PROVE AccountInv'
<1>1. AutoAdmin \in Clients /\ AdminToFile(AutoAdmin, k)
  BY ClientsAssumption
     DEF BootstrapFails, BootstrapKey, CanStart, WithAutoAdmin, AdminToFile
<1>2. starts' \in 0..MaxRestarts
  BY ModesAssumption DEF AccountInv, TypeOK, BootstrapFails, BootstrapKey, CanStart
<1>3. QED BY <1>1, <1>2, AdminToFileStep DEF BootstrapFails, BootstrapKey

\* create_admin.py while the server is down.
LEMMA CreateAdminStep ==
    ASSUME AccountInv, NEW c \in Clients, NEW k \in Keys, CreateAdmin(c, k)
    PROVE  AccountInv'
<1>1. AdminToFile(c, k)
  BY DEF CreateAdmin, AdminToFile
<1>2. starts' \in 0..MaxRestarts
  BY DEF AccountInv, TypeOK, CreateAdmin
<1>3. QED BY <1>1, <1>2, AdminToFileStep DEF CreateAdmin

\* The process exits or dies, perhaps in the middle of a save.
LEMMA StopStep == ASSUME AccountInv, Stop PROVE AccountInv'
<1>1. TypeOK /\ ProfilesSound
  BY DEF AccountInv
<1>2. /\ clients' = NoAccounts /\ index' = NoIndex /\ profiles' = NoProfiles
      /\ mode' = "down" /\ UNCHANGED <<starts, keys>>
  BY DEF Stop
<1>3. /\ clientsFile' \in {clientsFile, NoAccounts} /\ profilesFile' \in {profilesFile, NoProfiles}
      /\ faults' \in 0..MaxFaults /\ torn' \subseteq {"clients", "profiles"}
      /\ faults' = 0 => faults = 0 /\ clientsFile' = clientsFile /\ profilesFile' = profilesFile
  <2>1. CASE UNCHANGED files
    BY <1>1, <2>1 DEF files, TypeOK
  <2>2. CASE ClientsCutOff /\ UNCHANGED profilesFile
    <3>1. faults' \in 1..MaxFaults
      BY <1>1, <2>2, ModesAssumption DEF ClientsCutOff, TypeOK
    <3>2. /\ clientsFile' \in {clientsFile, NoAccounts} /\ torn' \subseteq torn \cup {"clients"}
          /\ profilesFile' = profilesFile
      BY <2>2 DEF ClientsCutOff
    <3>3. QED BY <1>1, <3>1, <3>2, ModesAssumption DEF TypeOK
  <2>3. CASE ProfilesCutOff /\ UNCHANGED clientsFile
    <3>1. faults' \in 1..MaxFaults
      BY <1>1, <2>3, ModesAssumption DEF ProfilesCutOff, TypeOK
    <3>2. /\ profilesFile' \in {profilesFile, NoProfiles} /\ torn' \subseteq torn \cup {"profiles"}
          /\ clientsFile' = clientsFile
      BY <2>3 DEF ProfilesCutOff
    <3>3. QED BY <1>1, <3>1, <3>2, ModesAssumption DEF TypeOK
  <2>4. QED BY <2>1, <2>2, <2>3 DEF Stop
<1>4. TypeOK'
  BY <1>1, <1>2, <1>3, EmptyBook, BuiltinsType DEF TypeOK, NoIndex, keys
<1>5. IndexExact'
  BY <1>2, NoneAssumption DEF IndexExact, NoIndex, NoAccounts
<1>6. KeysApart'
  <2>1. Apart(clientsFile', issued) /\ Apart(NoAccounts, issued) /\ issued' = issued
    BY <1>2, <1>3, EmptyBook DEF AccountInv, KeysApart, keys
  <2>2. QED BY <1>2, <2>1 DEF KeysApart, Members, Apart
<1>7. ProfilesSound' /\ FilesMirror'
  BY <1>1, <1>2, <1>3 DEF ProfilesSound, FilesMirror, NoProfiles
<1>8. AssignedInFiles'
  BY <1>3 DEF AccountInv, AssignedInFiles, Members
<1>9. QED BY <1>4, <1>5, <1>6, <1>7, <1>8 DEF AccountInv

\* What a change of the accounts through an endpoint shares: the new book is
\* sound if its keys are apart and the profiles it assigns exist.
LEMMA BookStep ==
    ASSUME AccountInv, NEW book \in Books, mode = "ready",
           UNCHANGED <<mode, starts, profiles, profilesFile>>,
           clients' = book, SaveClients(book) \/ ClientsCutOff,
           issued \subseteq issued', issued' \subseteq Keys, known' \subseteq issued',
           Apart(book, issued'),
           \A d \in Members(book) :
              book[d].profile \in profiles.names
              \/ (d \in Members(clients) /\ book[d].profile = clients[d].profile),
           index' \in [Keys -> Clients \cup {NoClient}],
           \A k \in Keys, d \in Clients :
              index'[k] = d <=> book[d] # NoAccount /\ book[d].key = k
    PROVE  AccountInv'
<1>1. TypeOK
  BY DEF AccountInv
<1>2. /\ clientsFile' \in {book, clientsFile, NoAccounts} /\ clientsFile' \in Books
      /\ faults' \in 0..MaxFaults /\ torn' \subseteq {"clients", "profiles"}
      /\ faults' = 0 => faults = 0 /\ clientsFile' = book
  BY <1>1, ClientsSaved
<1>3. TypeOK'
  BY <1>1, <1>2 DEF TypeOK
<1>4. IndexExact'
  BY DEF IndexExact
<1>5. KeysApart'
  <2>1. Apart(clientsFile, issued')
    BY ApartMore DEF AccountInv, KeysApart
  <2>2. Apart(clientsFile', issued')
    BY <1>2, <2>1, EmptyBook
  <2>3. QED BY <2>2 DEF KeysApart, Members, Apart
<1>6. ProfilesSound' /\ FilesMirror'
  BY <1>2 DEF AccountInv, ProfilesSound, FilesMirror
<1>7. AssignedInFiles'
  <2> SUFFICES ASSUME faults' = 0
               PROVE  \A d \in Members(book) : book[d].profile \in profilesFile.names \cup {Common}
    BY <1>2 DEF AssignedInFiles, Members
  <2>1. clients = clientsFile /\ profiles = profilesFile
    BY <1>2 DEF AccountInv, FilesMirror
  <2>2. \A d \in Members(clients) : clients[d].profile \in profilesFile.names \cup {Common}
    BY <1>2, <2>1 DEF AccountInv, AssignedInFiles
  <2>3. QED BY <2>1, <2>2
<1>8. QED BY <1>3, <1>4, <1>5, <1>6, <1>7 DEF AccountInv

\* Creating an account, with a new key.
LEMMA CreateClientStep ==
    ASSUME AccountInv, NEW a \in Clients, NEW c \in Clients, NEW r \in Roles,
           NEW p \in Profiles, CreateClient(a, c, r, p)
    PROVE  AccountInv'
<1>1. PICK k \in Keys \ issued :
        LET book == [clients EXCEPT ![c] = NewAccount(k, r, p)]
        IN  /\ issued' = issued \cup {k}
            /\ index' = [index EXCEPT ![k] = c]
            /\ ChangeClients(book)
            /\ \/ known' = known \cup {k} /\ SaveClients(book)
               \/ known' = known /\ ClientsCutOff
  BY DEF CreateClient
<1> DEFINE acct == NewAccount(k, r, p)
           book == [clients EXCEPT ![c] = acct]
<1>2. /\ clients \in Books /\ Apart(clients, issued) /\ issued \subseteq Keys
      /\ known \subseteq issued /\ index \in [Keys -> Clients \cup {NoClient}]
  BY DEF AccountInv, TypeOK, KeysApart
<1>3. acct \in Account /\ acct.key = k /\ acct.profile = p /\ p \in profiles.names
      /\ clients[c] = NoAccount /\ mode = "ready" /\ UNCHANGED <<mode, starts>>
  BY NewAccountType DEF CreateClient, Admin
<1>4. issued \subseteq issued' /\ k \in issued' /\ k \notin issued /\ issued' \subseteq Keys
      /\ known' \subseteq issued'
  BY <1>1, <1>2
<1>5. index' = [index EXCEPT ![k] = c] /\ clients' = book
      /\ (SaveClients(book) \/ ClientsCutOff) /\ UNCHANGED <<profiles, profilesFile>>
  BY <1>1 DEF ChangeClients
<1> HIDE DEF acct
<1>6. book \in Books /\ Members(book) = Members(clients) \cup {c} /\ Apart(book, issued')
  <2> DEFINE more == issued \cup {k}
  <2>1. issued \subseteq more /\ acct.key \in more /\ acct.key \notin issued
    BY <1>3
  <2> HIDE DEF more
  <2>2. clients \in Books /\ Apart(clients, issued) /\ acct \in Account
    BY <1>2, <1>3
  <2>3. /\ [clients EXCEPT ![c] = acct] \in Books
        /\ Members([clients EXCEPT ![c] = acct]) = Members(clients) \cup {c}
        /\ Apart([clients EXCEPT ![c] = acct], more)
    BY <2>1, <2>2, ApartSet
  <2>4. QED BY <1>1, <2>3 DEF more
<1>7. \A d \in Clients : book[d] = IF d = c THEN acct ELSE clients[d]
  BY <1>2 DEF Books
<1>8. \A d \in Members(book) :
        book[d].profile \in profiles.names
        \/ (d \in Members(clients) /\ book[d].profile = clients[d].profile)
  BY <1>3, <1>6, <1>7 DEF Members
<1>9. index' \in [Keys -> Clients \cup {NoClient}]
  BY <1>1, <1>2, <1>5
<1>10. ASSUME NEW q \in Keys, NEW d \in Clients
       PROVE  index'[q] = d <=> book[d] # NoAccount /\ book[d].key = q
  <2>1. index[q] = d <=> clients[d] # NoAccount /\ clients[d].key = q
    BY DEF AccountInv, IndexExact
  <2>2. index'[q] = IF q = k THEN c ELSE index[q]
    BY <1>2, <1>5
  <2>3. clients[d] # NoAccount => clients[d].key # k
    BY <1>2, <1>4 DEF Apart, Members
  <2>4. acct # NoAccount
    BY <1>3, NoneAssumption
  <2>5. CASE d = c
    BY <1>3, <1>7, <2>1, <2>2, <2>4, <2>5
  <2>6. CASE d # c
    BY <1>7, <2>1, <2>2, <2>3, <2>6
  <2>7. QED BY <2>5, <2>6
<1>11. QED
  <2> HIDE DEF book
  <2> QED BY <1>3, <1>4, <1>5, <1>6, <1>8, <1>9, <1>10, BookStep

\* Deleting an account, with its key.
LEMMA DeleteClientStep ==
    ASSUME AccountInv, NEW a \in Clients, NEW c \in Clients, DeleteClient(a, c)
    PROVE  AccountInv'
<1> DEFINE book == [clients EXCEPT ![c] = NoAccount]
           k == clients[c].key
<1>1. /\ clients \in Books /\ Apart(clients, issued) /\ issued \subseteq Keys
      /\ known \subseteq issued /\ index \in [Keys -> Clients \cup {NoClient}]
  BY DEF AccountInv, TypeOK, KeysApart
<1>2. c \in Members(clients) /\ k \in Keys
      /\ mode = "ready" /\ UNCHANGED <<mode, starts, keys>>
  BY <1>1, MemberType DEF DeleteClient, Admin
<1>3. index' = [index EXCEPT ![k] = NoClient] /\ clients' = book
      /\ (SaveClients(book) \/ ClientsCutOff) /\ UNCHANGED <<profiles, profilesFile>>
  BY DEF DeleteClient, ChangeClients
<1>4. book \in Books /\ Members(book) = Members(clients) \ {c} /\ Apart(book, issued)
  BY <1>1, ApartDelete
<1>5. \A d \in Clients : book[d] = IF d = c THEN NoAccount ELSE clients[d]
  BY <1>1 DEF Books
<1>6. \A d \in Members(book) : d \in Members(clients) /\ book[d].profile = clients[d].profile
  BY <1>4, <1>5 DEF Members
<1>7. index' \in [Keys -> Clients \cup {NoClient}]
  BY <1>1, <1>2, <1>3
<1>8. ASSUME NEW q \in Keys, NEW d \in Clients
      PROVE  index'[q] = d <=> book[d] # NoAccount /\ book[d].key = q
  <2>1. index[q] = d <=> clients[d] # NoAccount /\ clients[d].key = q
    BY DEF AccountInv, IndexExact
  <2>2. index'[q] = IF q = k THEN NoClient ELSE index[q]
    BY <1>1, <1>3
  <2>3. d # NoClient
    BY NoneAssumption
  <2>4. clients[d] # NoAccount /\ clients[d].key = k => d = c
    BY <1>1, <1>2 DEF Apart, Members
  <2>5. CASE d = c
    BY <1>5, <2>1, <2>2, <2>3, <2>5
  <2>6. CASE d # c
    BY <1>5, <2>1, <2>2, <2>3, <2>4, <2>6
  <2>7. QED BY <2>5, <2>6
<1>9. issued' = issued /\ known' = known
  BY <1>2 DEF keys
<1>10. QED
  <2> HIDE DEF book
  <2> QED BY <1>1, <1>2, <1>3, <1>4, <1>6, <1>7, <1>8, <1>9, BookStep

\* Activating, deactivating and updating an account.
LEMMA EditAccountStep ==
    ASSUME AccountInv, NEW c \in Clients, NEW acct \in Account, EditAccount(c, acct)
    PROVE  AccountInv'
<1> DEFINE book == [clients EXCEPT ![c] = acct]
<1>1. /\ clients \in Books /\ Apart(clients, issued) /\ issued \subseteq Keys
      /\ known \subseteq issued /\ index \in [Keys -> Clients \cup {NoClient}]
  BY DEF AccountInv, TypeOK, KeysApart
<1>2. /\ mode = "ready" /\ UNCHANGED <<mode, starts>> /\ c \in Members(clients)
      /\ acct.key = clients[c].key
      /\ acct.profile \in profiles.names \cup {clients[c].profile}
      /\ index' = index /\ issued' = issued /\ known' = known /\ clients' = book
      /\ (SaveClients(book) \/ ClientsCutOff) /\ UNCHANGED <<profiles, profilesFile>>
  BY DEF EditAccount, ChangeClients, keys
<1>3. acct.key \in issued
  BY <1>1, <1>2 DEF Apart
<1>4. book \in Books /\ Members(book) = Members(clients) \cup {c} /\ Apart(book, issued)
  <2>1. issued \subseteq issued /\ c \in Clients
    OBVIOUS
  <2>2. /\ [clients EXCEPT ![c] = acct] \in Books
        /\ Members([clients EXCEPT ![c] = acct]) = Members(clients) \cup {c}
        /\ Apart([clients EXCEPT ![c] = acct], issued)
    BY <1>1, <1>2, <1>3, <2>1, ApartSet
  <2>3. QED BY <2>2
<1>5. \A d \in Clients : book[d] = IF d = c THEN acct ELSE clients[d]
  BY <1>1 DEF Books
<1>6. \A d \in Members(book) :
        book[d].profile \in profiles.names
        \/ (d \in Members(clients) /\ book[d].profile = clients[d].profile)
  BY <1>2, <1>4, <1>5 DEF Members
<1>7. \A q \in Keys, d \in Clients :
        index'[q] = d <=> book[d] # NoAccount /\ book[d].key = q
  BY <1>2, <1>5, NoneAssumption DEF AccountInv, IndexExact, Members
<1>8. QED
  <2> HIDE DEF book
  <2> QED BY <1>1, <1>2, <1>4, <1>6, <1>7, BookStep

\* Creating, deleting and choosing a profile.
LEMMA EditProfilesStep ==
    ASSUME AccountInv, NEW data \in ProfileData, EditProfiles(data)
    PROVE  AccountInv'
<1>1. TypeOK /\ mode = "ready" /\ mode' = mode /\ starts' = starts
      /\ profiles' = data /\ (SaveProfiles(data) \/ ProfilesCutOff)
      /\ UNCHANGED <<clients, index, clientsFile, issued, known>>
  BY DEF AccountInv, EditProfiles, ChangeProfiles, keys
<1>2. Sound(data)
  BY <1>1 DEF AccountInv, ProfilesSound, EditProfiles
<1>3. /\ profilesFile' \in {data, profilesFile, NoProfiles} /\ profilesFile' \in ProfileData
      /\ faults' \in 0..MaxFaults /\ torn' \subseteq {"clients", "profiles"}
      /\ faults' = 0 => faults = 0 /\ profilesFile' = data
  BY <1>1, ProfilesSaved
<1>4. TypeOK'
  BY <1>1, <1>3 DEF TypeOK
<1>5. IndexExact' /\ KeysApart'
  BY <1>1 DEF AccountInv, IndexExact, KeysApart, Members, Apart
<1>6. ProfilesSound' /\ FilesMirror'
  BY <1>1, <1>2, <1>3 DEF AccountInv, ProfilesSound, FilesMirror, NoProfiles
<1>7. AssignedInFiles'
  <2> SUFFICES ASSUME faults' = 0, NEW d \in Members(clientsFile)
               PROVE  clientsFile[d].profile \in data.names \cup {Common}
    BY <1>1, <1>3 DEF AssignedInFiles, Members
  <2>1. clients = clientsFile /\ profiles = profilesFile
    BY <1>1, <1>3 DEF AccountInv, FilesMirror
  <2>2. clientsFile[d].profile \in profiles.names \cup {Common}
    BY <1>3, <2>1 DEF AccountInv, AssignedInFiles
  <2>3. CASE clientsFile[d].profile \in profiles.names
    <3>1. d \in Assigned(clientsFile[d].profile)
      BY <2>1 DEF Assigned
    <3>2. QED BY <2>3, <3>1 DEF EditProfiles
  <2>4. QED BY <2>2, <2>3
<1>8. QED BY <1>4, <1>5, <1>6, <1>7 DEF AccountInv

\* Nothing changes.
LEMMA StutterAccounts == ASSUME AccountInv, UNCHANGED vars PROVE AccountInv'
BY DEF AccountInv, vars, memory, files, keys, TypeOK, IndexExact, KeysApart,
       ProfilesSound, FilesMirror, AssignedInFiles, Members, Apart
-----------------------------------------------------------------------------
(* Theorems                                                                *)

\* Every request of an administrator keeps the invariant.
LEMMA RequestKeepsInv ==
    ASSUME AccountInv, NEW a \in Clients, AdminRequest(a) PROVE AccountInv'
<1>1. TypeOK
  BY DEF AccountInv
<1>2. ASSUME NEW c \in Clients, DeleteClient(a, c) PROVE AccountInv'
  BY <1>2, DeleteClientStep
<1>3. ASSUME NEW c \in Clients, NEW r \in Roles, NEW p \in Profiles, CreateClient(a, c, r, p)
      PROVE  AccountInv'
  BY <1>3, CreateClientStep
<1>4. ASSUME NEW c \in Clients, NEW r \in Roles, NEW p \in Profiles,
             ActivateClient(a, c) \/ DeactivateClient(a, c) \/ UpdateClient(a, c, r, p)
      PROVE  AccountInv'
  <2>1. PICK acct \in Account : EditAccount(c, acct)
    BY <1>1, <1>4, AccountEdited
  <2>2. QED BY <2>1, EditAccountStep
<1>5. ASSUME NEW p \in Profiles,
             \/ p \in CustomProfiles /\ (CreateProfile(a, p) \/ DeleteProfile(a, p))
             \/ SetDefault(a, p)
      PROVE  AccountInv'
  <2>1. PICK data \in ProfileData : EditProfiles(data)
    BY <1>1, <1>5, ProfilesEdited
  <2>2. QED BY <2>1, EditProfilesStep
<1>6. "client" \in Roles /\ Common \in Profiles /\ CustomProfiles \subseteq Profiles
  BY DEF Roles, Profiles, Builtins
<1>7. QED BY <1>2, <1>3, <1>4, <1>5, <1>6 DEF AdminRequest

\* Every step does.
LEMMA NextKeepsAccountInv == AccountInv /\ [Next]_vars => AccountInv'
<1> SUFFICES ASSUME AccountInv, [Next]_vars PROVE AccountInv'
  OBVIOUS
<1>1. CASE Start BY <1>1, StartStep
<1>2. CASE StartWithAdmin BY <1>2, StartWithAdminStep
<1>3. CASE BuildAuthManager BY <1>3, BuildStep
<1>4. CASE Stop BY <1>4, StopStep
<1>5. ASSUME NEW k \in Keys, Bootstrap(k) PROVE AccountInv'
  BY <1>5, BootstrapStep
<1>6. ASSUME NEW k \in Keys, BootstrapFails(k) PROVE AccountInv'
  BY <1>6, BootstrapFailsStep
<1>7. ASSUME NEW a \in Clients, AdminRequest(a) PROVE AccountInv'
  BY <1>7, RequestKeepsInv
<1>8. ASSUME NEW c \in Clients, NEW k \in Keys, CreateAdmin(c, k) PROVE AccountInv'
  BY <1>8, CreateAdminStep
<1>9. CASE UNCHANGED vars BY <1>9, StutterAccounts
<1>10. QED BY <1>1, <1>2, <1>3, <1>4, <1>5, <1>6, <1>7, <1>8, <1>9 DEF Next

\* The inductive invariant holds in every reachable state, whatever saves
\* fail and however often the server restarts.
THEOREM AccountInvariant == Spec => []AccountInv
<1>1. Init => AccountInv
  BY InitAccountInv
<1>2. AccountInv /\ [Next]_vars => AccountInv'
  BY NextKeepsAccountInv
<1>3. QED BY <1>1, <1>2, PTL DEF Spec

\* The variables of Accounts have their types.
THEOREM AccountTypes == Spec => []TypeOK
<1>1. AccountInv => TypeOK
  BY DEF AccountInv
<1>2. QED BY <1>1, AccountInvariant, PTL

\* _key_id_index authenticates exactly the keys of the existing accounts.
THEOREM IndexIsExact == Spec => []IndexExact
<1>1. AccountInv => IndexExact
  BY DEF AccountInv
<1>2. QED BY <1>1, AccountInvariant, PTL

\* The default profile of SecurityProfileManager always exists.
THEOREM DefaultAlwaysExists == Spec => []DefaultExists
<1>1. AccountInv => DefaultExists
  BY DEF AccountInv, ProfilesSound, Sound, DefaultExists
<1>2. QED BY <1>1, AccountInvariant, PTL

\* As long as every save succeeded, the profile of every account exists.
THEOREM AssignedProfilesExist == Spec => []AssignedProfileExists
<1>1. AccountInv => AssignedProfileExists
  <2> SUFFICES ASSUME AccountInv, faults = 0
               PROVE  /\ mode = "ready" =>
                           \A c \in Members(clients) : clients[c].profile \in profiles.names
                      /\ \A c \in Members(clientsFile) :
                           clientsFile[c].profile \in profilesFile.names \cup {Common}
    BY DEF AssignedProfileExists
  <2>1. \A c \in Members(clientsFile) :
          clientsFile[c].profile \in profilesFile.names \cup {Common}
    BY DEF AccountInv, AssignedInFiles
  <2>2. mode = "ready" =>
          clients = clientsFile /\ profiles = profilesFile /\ Common \in profiles.names
    BY BuiltinsType DEF AccountInv, FilesMirror, ProfilesSound, Sound
  <2>3. QED BY <2>1, <2>2
<1>2. QED BY <1>1, AccountInvariant, PTL

\* The profile of an account and the default exist, so no job lacks one.
THEOREM ProfilesAlwaysExist == Spec => []ProfilesExist
BY AssignedProfilesExist, DefaultAlwaysExists, PTL DEF ProfilesExist

-----------------------------------------------------------------------------
(* What a step does to the stored accounts as long as saves succeed        *)

\* An active account with a new key is added.
Added(c, acct) ==
    /\ clientsFile[c] = NoAccount /\ acct.active
    /\ acct.key \notin issued /\ issued' = issued \cup {acct.key}
    /\ clientsFile' = [clientsFile EXCEPT ![c] = acct]

\* An account is deleted while another one is an administrator.
Deleted(c) ==
    /\ Admins(clientsFile) \ {c} # {}
    /\ clientsFile' = [clientsFile EXCEPT ![c] = NoAccount]
    /\ UNCHANGED issued

\* An account keeps its key, and its role if it is the only administrator.
Changed(c, acct) ==
    /\ c \in Members(clientsFile) /\ acct.key = clientsFile[c].key
    /\ c \in Admins(clientsFile) /\ acct.role # "admin" => Admins(clientsFile) \ {c} # {}
    /\ clientsFile' = [clientsFile EXCEPT ![c] = acct]
    /\ UNCHANGED issued

FileStep ==
    \/ UNCHANGED <<clientsFile, issued>>
    \/ \E c \in Clients, acct \in Account : Added(c, acct) \/ Changed(c, acct)
    \/ \E c \in Clients : Deleted(c)

\* More than one administrator means another one.
LEMMA OtherAdmin ==
    ASSUME CountAdmins > 1, NEW c
    PROVE  Admins(clients) \ {c} # {}
<1> SUFFICES ASSUME Admins(clients) \subseteq {c} PROVE FALSE
  OBVIOUS
<1>1. IsFiniteSet({c}) /\ Cardinality({c}) = 1
  BY FS_Singleton
<1>2. Cardinality(Admins(clients)) <= 1 /\ Cardinality(Admins(clients)) \in Nat
  BY <1>1, FS_Subset, FS_CardinalityType
<1>3. QED BY <1>2 DEF CountAdmins

\* Every request is such a step.
LEMMA RequestFileStep ==
    ASSUME AccountInv, NEW a \in Clients, AdminRequest(a), faults' = 0
    PROVE  FileStep /\ faults = 0
<1>1. TypeOK /\ mode = "ready" /\ a \in Admins(clients)
  BY DEF AccountInv, AdminRequest, DeleteClient, ActivateClient, DeactivateClient,
         CreateClient, UpdateClient, CreateProfile, DeleteProfile, SetDefault, Admin
<1>2. ASSUME NEW book \in Books, ChangeClients(book)
      PROVE  clientsFile' = book /\ faults = 0 /\ clients = clientsFile
  <2>1. clientsFile' = book /\ faults = 0
    BY <1>1, <1>2, ClientsSaved DEF ChangeClients
  <2>2. QED BY <1>1, <2>1 DEF AccountInv, FilesMirror
<1>3. ASSUME NEW c \in Clients, DeleteClient(a, c) PROVE FileStep /\ faults = 0
  <2>1. [clients EXCEPT ![c] = NoAccount] \in Books
    BY <1>1 DEF TypeOK, Books
  <2>2. /\ clientsFile' = [clients EXCEPT ![c] = NoAccount] /\ faults = 0
        /\ clients = clientsFile
    BY <1>2, <1>3, <2>1 DEF DeleteClient
  <2>3. a \in Admins(clients) \ {c}
    BY <1>1, <1>3 DEF DeleteClient
  <2>4. UNCHANGED issued
    BY <1>3 DEF DeleteClient, keys
  <2>5. QED BY <2>2, <2>3, <2>4 DEF FileStep, Deleted
<1>4. ASSUME NEW c \in Clients, NEW r \in Roles, NEW p \in Profiles, CreateClient(a, c, r, p)
      PROVE  FileStep /\ faults = 0
  <2>1. PICK k \in Keys \ issued :
          ChangeClients([clients EXCEPT ![c] = NewAccount(k, r, p)]) /\ issued' = issued \cup {k}
    BY <1>4 DEF CreateClient
  <2> DEFINE acct == NewAccount(k, r, p)
  <2>2. /\ acct \in Account /\ acct.active /\ clients[c] = NoAccount
        /\ acct.key \notin issued /\ issued' = issued \cup {acct.key}
    BY <1>4, <2>1, NewAccountType DEF CreateClient
  <2>3. ChangeClients([clients EXCEPT ![c] = acct])
    BY <2>1
  <2> HIDE DEF acct
  <2>4. [clients EXCEPT ![c] = acct] \in Books
    BY <1>1, <2>2 DEF TypeOK, Books
  <2>5. clientsFile' = [clients EXCEPT ![c] = acct] /\ faults = 0 /\ clients = clientsFile
    BY <1>2, <2>3, <2>4
  <2>6. QED BY <2>2, <2>5 DEF FileStep, Added
<1>5. ASSUME NEW c \in Clients, NEW r \in Roles, NEW p \in Profiles,
             ActivateClient(a, c) \/ DeactivateClient(a, c) \/ UpdateClient(a, c, r, p)
      PROVE  FileStep /\ faults = 0
  <2>1. PICK acct \in Account : EditAccount(c, acct)
    BY <1>1, <1>5, AccountEdited
  <2>2. [clients EXCEPT ![c] = acct] \in Books
    BY <1>1 DEF TypeOK, Books
  <2>3. clientsFile' = [clients EXCEPT ![c] = acct] /\ faults = 0 /\ clients = clientsFile
    BY <1>2, <2>1, <2>2 DEF EditAccount
  <2>4. Changed(c, acct)
    BY <2>1, <2>3, OtherAdmin DEF EditAccount, Changed, keys
  <2>5. QED BY <2>3, <2>4 DEF FileStep
<1>6. ASSUME NEW p \in Profiles,
             \/ p \in CustomProfiles /\ (CreateProfile(a, p) \/ DeleteProfile(a, p))
             \/ SetDefault(a, p)
      PROVE  FileStep /\ faults = 0
  <2>1. PICK data \in ProfileData : EditProfiles(data)
    BY <1>1, <1>6, ProfilesEdited
  <2>2. faults = 0 /\ UNCHANGED <<clientsFile, issued>>
    BY <1>1, <2>1, ProfilesSaved DEF EditProfiles, ChangeProfiles, keys
  <2>3. QED BY <2>2 DEF FileStep
<1>7. "client" \in Roles /\ Common \in Profiles /\ CustomProfiles \subseteq Profiles
  BY DEF Roles, Profiles, Builtins
<1>8. QED BY <1>3, <1>4, <1>5, <1>6, <1>7 DEF AdminRequest

\* Also adding the bootstrap's account and that of create_admin.py.
LEMMA NewAdminFileStep ==
    ASSUME AccountInv, NEW c \in Clients, NEW k \in Keys, k \notin issued,
           clientsFile[c] = NoAccount, faults' = 0, issued' = issued \cup {k},
           \/ SaveClients([clientsFile EXCEPT ![c] = NewAccount(k, "admin", Common)])
           \/ ClientsCutOff
    PROVE  FileStep /\ faults = 0
<1> DEFINE acct == NewAccount(k, "admin", Common)
<1>1. acct \in Account /\ acct.key = k /\ acct.active
  BY NewAccountType, BuiltinsType DEF Roles, Profiles
<1>2. TypeOK /\ [clientsFile EXCEPT ![c] = acct] \in Books
  BY <1>1 DEF AccountInv, TypeOK, Books
<1>3. clientsFile' = [clientsFile EXCEPT ![c] = acct] /\ faults = 0
  BY <1>2, ClientsSaved
<1>4. Added(c, acct)
  BY <1>1, <1>3 DEF Added
<1>5. QED BY <1>1, <1>3, <1>4 DEF FileStep

\* Every step is one.
LEMMA NextFileStep ==
    ASSUME AccountInv, [Next]_vars, faults' = 0
    PROVE  FileStep /\ faults = 0
<1>1. faults \in Nat
  BY ModesAssumption DEF AccountInv, TypeOK
<1>2. CASE Start \/ StartWithAdmin \/ BuildAuthManager \/ UNCHANGED vars
  BY <1>2 DEF Start, StartWithAdmin, BuildAuthManager, vars, files, keys, FileStep
<1>3. CASE Stop
  BY <1>1, <1>3 DEF Stop, files, keys, ClientsCutOff, ProfilesCutOff, FileStep
<1>4. ASSUME NEW k \in Keys, Bootstrap(k) \/ BootstrapFails(k) PROVE FileStep /\ faults = 0
  BY <1>4, ClientsAssumption, NewAdminFileStep
     DEF Bootstrap, BootstrapFails, BootstrapKey, WithAutoAdmin
<1>5. ASSUME NEW a \in Clients, AdminRequest(a) PROVE FileStep /\ faults = 0
  BY <1>5, RequestFileStep
<1>6. ASSUME NEW c \in Clients, NEW k \in Keys, CreateAdmin(c, k) PROVE FileStep /\ faults = 0
  BY <1>6, NewAdminFileStep DEF CreateAdmin
<1>7. QED BY <1>2, <1>3, <1>4, <1>5, <1>6 DEF Next

\* Such a step leaves an administrator if there was one.
LEMMA FileStepKeepsAdmin ==
    ASSUME clientsFile \in Books, FileStep, Admins(clientsFile) # {}
    PROVE  Admins(clientsFile') # {}
<1>1. ASSUME NEW c \in Clients, NEW new, clientsFile' = [clientsFile EXCEPT ![c] = new],
             Admins(clientsFile) \ {c} # {}
      PROVE  Admins(clientsFile') # {}
  <2>1. PICK d \in Admins(clientsFile) : d # c
    BY <1>1
  <2>2. d \in Clients /\ clientsFile'[d] = clientsFile[d]
    BY <1>1, <2>1 DEF Admins, Members, Books
  <2>3. QED BY <2>1, <2>2 DEF Admins, Members
<1>2. ASSUME NEW c \in Clients, NEW acct \in Account, Added(c, acct)
      PROVE  Admins(clientsFile') # {}
  <2>1. Admins(clientsFile) \ {c} # {}
    BY <1>2 DEF Added, Admins, Members
  <2>2. QED BY <1>1, <1>2, <2>1 DEF Added
<1>3. ASSUME NEW c \in Clients, NEW acct \in Account, Changed(c, acct)
      PROVE  Admins(clientsFile') # {}
  <2>1. CASE acct.role = "admin"
    <3>1. clientsFile'[c] = acct /\ acct # NoAccount /\ c \in Clients
      BY <1>3, NoneAssumption DEF Changed, Books
    <3>2. c \in Admins(clientsFile')
      BY <2>1, <3>1 DEF Admins, Members
    <3>3. QED BY <3>2
  <2>2. CASE acct.role # "admin"
    <3>1. Admins(clientsFile) \ {c} # {}
      BY <1>3, <2>2 DEF Changed
    <3>2. QED BY <1>1, <1>3, <3>1 DEF Changed
  <2>3. QED BY <2>1, <2>2
<1>4. ASSUME NEW c \in Clients, Deleted(c) PROVE Admins(clientsFile') # {}
  BY <1>1, <1>4 DEF Deleted
<1>5. QED BY <1>2, <1>3, <1>4 DEF FileStep

\* Such a step brings no issued key into the book.
LEMMA FileStepKeepsRevoked ==
    ASSUME clientsFile \in Books, FileStep, NEW k \in issued, NEW d \in Members(clientsFile'),
           clientsFile'[d].key = k
    PROVE  \E c \in Members(clientsFile) : clientsFile[c].key = k
<1>1. CASE clientsFile' = clientsFile
  BY <1>1
<1>2. ASSUME NEW c \in Clients, NEW acct \in Account, Added(c, acct) \/ Changed(c, acct)
      PROVE  \E e \in Members(clientsFile) : clientsFile[e].key = k
  <2>1. \A e \in Clients : clientsFile'[e] = IF e = c THEN acct ELSE clientsFile[e]
    BY <1>2 DEF Added, Changed, Books
  <2>2. CASE d = c
    <3>1. acct.key = k
      BY <2>1, <2>2
    <3>2. c \in Members(clientsFile) /\ clientsFile[c].key = k
      BY <1>2, <3>1 DEF Added, Changed
    <3>3. QED BY <3>2
  <2>3. CASE d # c
    BY <2>1, <2>3 DEF Members
  <2>4. QED BY <2>2, <2>3
<1>3. ASSUME NEW c \in Clients, Deleted(c)
      PROVE  \E e \in Members(clientsFile) : clientsFile[e].key = k
  <2>1. \A e \in Clients : clientsFile'[e] = IF e = c THEN NoAccount ELSE clientsFile[e]
    BY <1>3 DEF Deleted, Books
  <2>2. d \in Members(clientsFile) /\ clientsFile[d].key = k
    BY <2>1 DEF Members
  <2>3. QED BY <2>2
<1>4. QED BY <1>1, <1>2, <1>3 DEF FileStep

\* With reliable saves, once there is an account with the role admin there
\* always is one, across every request and restart.
THEOREM AdminAlwaysRemains == Spec => AdminRemains
<1>1. AccountInv /\ AccountInv' /\ [Next]_vars =>
        [faults' = 0 /\ Admins(CurrentAccounts) # {} => Admins(CurrentAccounts)' # {}]_vars
  <2> SUFFICES ASSUME AccountInv, AccountInv', [Next]_vars, faults' = 0,
                      Admins(CurrentAccounts) # {}
               PROVE  Admins(CurrentAccounts)' # {}
    OBVIOUS
  <2>1. FileStep /\ faults = 0
    BY NextFileStep
  <2>2. CurrentAccounts = clientsFile /\ CurrentAccounts' = clientsFile'
    BY <2>1 DEF AccountInv, FilesMirror, CurrentAccounts
  <2>3. clientsFile \in Books
    BY DEF AccountInv, TypeOK
  <2>4. Admins(clientsFile') # {}
    BY <2>1, <2>2, <2>3, FileStepKeepsAdmin
  <2>5. QED BY <2>2, <2>4 DEF Admins, Members
<1>2. QED BY <1>1, AccountInvariant, PTL DEF Spec, AdminRemains

\* A key that was revoked by deleting its account (or was never stored) does
\* not come back, across restarts of the server, as long as saves succeed.
RevokedStaysRevoked ==
    [][faults' = 0 =>
         \A k \in issued : k \notin CurrentKeys => k \notin CurrentKeys']_vars

\* With reliable saves, a key that is no longer stored never authenticates
\* again, across every request and restart.
THEOREM RevokedKeysStayRevoked == Spec => RevokedStaysRevoked
<1>1. AccountInv /\ AccountInv' /\ [Next]_vars =>
        [faults' = 0 => \A k \in issued : k \notin CurrentKeys => k \notin CurrentKeys']_vars
  <2> SUFFICES ASSUME AccountInv, AccountInv', [Next]_vars, faults' = 0,
                      NEW k \in issued, k \notin CurrentKeys, k \in CurrentKeys'
               PROVE  FALSE
    OBVIOUS
  <2>1. FileStep /\ faults = 0
    BY NextFileStep
  <2>2. CurrentAccounts = clientsFile /\ CurrentAccounts' = clientsFile'
    BY <2>1 DEF AccountInv, FilesMirror, CurrentAccounts
  <2>3. clientsFile \in Books
    BY DEF AccountInv, TypeOK
  <2>4. PICK d \in Members(clientsFile') : clientsFile'[d].key = k
    BY <2>2 DEF CurrentKeys, Members
  <2>5. PICK c \in Members(clientsFile) : clientsFile[c].key = k
    BY <2>1, <2>3, <2>4, FileStepKeepsRevoked
  <2>6. QED BY <2>2, <2>5 DEF CurrentKeys
<1>2. QED BY <1>1, AccountInvariant, PTL DEF Spec, RevokedStaysRevoked

-----------------------------------------------------------------------------
(* Accounts implements KeyRegistry as long as saves succeed                *)

\* The accounts whose key is k.
Owners(book, k) == {c \in Members(book) : book[c].key = k}

\* As long as saves succeed the accounts in force are those in clients.json.
LEMMA CurrentIsFile ==
    ASSUME AccountInv, faults = 0
    PROVE  CurrentAccounts = clientsFile
BY DEF AccountInv, FilesMirror, CurrentAccounts

\* The state of a key, read off clients.json.
StateInFile(k) ==
    IF k \notin issued THEN "new"
    ELSE IF \E c \in Owners(clientsFile, k) : clientsFile[c].active THEN "valid"
    ELSE IF Owners(clientsFile, k) # {} THEN "suspended" ELSE "revoked"

StatesInFile == KeyState = [k \in Keys |-> StateInFile(k)]

\* As long as saves succeed it is the state of the key.
LEMMA KeyStateFromFile == AccountInv /\ faults = 0 => StatesInFile
BY CurrentIsFile DEF KeyState, CurrentKeys, Owners, StatesInFile, StateInFile

\* The same after a step.
LEMMA NextKeyStateFromFile == AccountInv' /\ faults' = 0 => StatesInFile'
<1>1. (AccountInv /\ faults = 0 => StatesInFile)'
  BY KeyStateFromFile, PTL
<1>2. QED BY <1>1

\* The key of a stored account was issued and is nobody else's.
OneOwner ==
    \A c \in Members(clientsFile) :
        /\ clientsFile[c].key \in issued /\ clientsFile[c].key \in Keys
        /\ Owners(clientsFile, clientsFile[c].key) = {c}

\* AccountInv says so of the file.
LEMMA KeysHaveOneOwner == AccountInv => OneOwner
BY MemberType DEF AccountInv, TypeOK, KeysApart, Apart, Owners, OneOwner

\* The same after a step.
LEMMA NextKeysHaveOneOwner == AccountInv' => OneOwner'
BY KeysHaveOneOwner, PTL

\* A step that touches one account and issues at most one key changes the
\* state of one key.
LEMMA OneKeyChanges ==
    ASSUME AccountInv, AccountInv', faults = 0, faults' = 0,
           NEW key \in Keys, NEW c \in Clients,
           issued' \in {issued, issued \cup {key}},
           \A d \in Clients \ {c} : clientsFile'[d] = clientsFile[d],
           c \in Members(clientsFile) => clientsFile[c].key = key,
           c \in Members(clientsFile') => clientsFile'[c].key = key
    PROVE  /\ KeyState' = [KeyState EXCEPT ![key] = StateInFile(key)']
           /\ KeyState[key] = StateInFile(key)
<1>1. ASSUME NEW k \in Keys, k # key PROVE StateInFile(k)' = StateInFile(k)
  <2>1. Owners(clientsFile', k) = Owners(clientsFile, k)
    BY <1>1 DEF Owners, Members
  <2>2. \A d \in Owners(clientsFile, k) : d \in Clients \ {c}
    BY <1>1 DEF Owners, Members
  <2>3. k \in issued' <=> k \in issued
    BY <1>1
  <2>4. (\E d \in Owners(clientsFile', k) : clientsFile'[d].active)
        <=> (\E d \in Owners(clientsFile, k) : clientsFile[d].active)
    BY <2>1, <2>2
  <2>5. QED BY <2>1, <2>3, <2>4 DEF StateInFile
<1>2. StatesInFile /\ StatesInFile'
  BY KeyStateFromFile, NextKeyStateFromFile
<1>3. QED BY <1>1, <1>2 DEF StatesInFile

\* The state of the key of a stored account.
LEMMA StateOfOwned ==
    ASSUME OneOwner, NEW c \in Members(clientsFile), NEW key, clientsFile[c].key = key
    PROVE  StateInFile(key) = IF clientsFile[c].active THEN "valid" ELSE "suspended"
BY DEF OneOwner, StateInFile

\* The same after a step.
LEMMA NextStateOfOwned ==
    ASSUME OneOwner', NEW c \in Members(clientsFile'), NEW key, clientsFile'[c].key = key
    PROVE  StateInFile(key)' = IF clientsFile'[c].active THEN "valid" ELSE "suspended"
<1>1. Owners(clientsFile', key) = {c} /\ key \in issued'
  BY DEF OneOwner, Members, Owners
<1>2. QED BY <1>1 DEF StateInFile

\* A step that FileStep describes is one of the registry.
LEMMA RegistryStep ==
    ASSUME AccountInv, AccountInv', FileStep, faults = 0, faults' = 0
    PROVE  Registry!Next \/ UNCHANGED KeyState
<1> USE KeysHaveOneOwner, NextKeysHaveOneOwner
<1>0. clientsFile \in Books /\ clientsFile' \in Books
  BY DEF AccountInv, TypeOK
<1>1. CASE UNCHANGED <<clientsFile, issued>>
  <2>1. StatesInFile /\ StatesInFile'
    BY KeyStateFromFile, NextKeyStateFromFile
  <2>2. QED BY <1>1, <2>1 DEF StatesInFile, StateInFile
<1>2. ASSUME NEW c \in Clients, NEW acct \in Account, Added(c, acct)
      PROVE  Registry!Next
  <2> DEFINE key == acct.key
  <2>1. /\ clientsFile'[c] = acct /\ c \in Members(clientsFile')
        /\ \A d \in Clients \ {c} : clientsFile'[d] = clientsFile[d]
        /\ c \notin Members(clientsFile) /\ key \in Keys
    BY <1>0, <1>2, NoneAssumption DEF Added, Members, Books, Account
  <2>2. StateInFile(key) = "new" /\ StateInFile(key)' = "valid"
    <3>1. StateInFile(key) = "new"
      BY <1>2 DEF Added, StateInFile
    <3>2. QED BY <1>2, <2>1, <3>1, NextStateOfOwned DEF Added
  <2>3. Registry!Issue(key)
    BY <1>2, <2>1, <2>2, OneKeyChanges DEF Added, Registry!Issue
  <2>4. QED BY <2>1, <2>3 DEF Registry!Next
<1>3. ASSUME NEW c \in Clients, NEW acct \in Account, Changed(c, acct)
      PROVE  Registry!Next \/ UNCHANGED KeyState
  <2> DEFINE key == acct.key
  <2>1. /\ clientsFile'[c] = acct /\ c \in Members(clientsFile')
        /\ \A d \in Clients \ {c} : clientsFile'[d] = clientsFile[d]
        /\ c \in Members(clientsFile) /\ clientsFile[c].key = key /\ key \in Keys
    BY <1>0, <1>3, NoneAssumption DEF Changed, Members, Books, Account
  <2>2. /\ StateInFile(key) = IF clientsFile[c].active THEN "valid" ELSE "suspended"
        /\ StateInFile(key)' = IF acct.active THEN "valid" ELSE "suspended"
    BY <2>1, StateOfOwned, NextStateOfOwned
  <2>3. /\ KeyState' = [KeyState EXCEPT ![key] = StateInFile(key)']
        /\ KeyState[key] = StateInFile(key)
    BY <1>3, <2>1, OneKeyChanges DEF Changed
  <2>4. KeyState = [k \in Keys |-> KeyState[k]]
    BY DEF KeyState
  <2>5. CASE clientsFile[c].active = acct.active
    BY <2>2, <2>3, <2>4, <2>5
  <2>6. CASE clientsFile[c].active /\ ~acct.active
    <3>1. Registry!Suspend(key)
      BY <2>2, <2>3, <2>6 DEF Registry!Suspend
    <3>2. QED BY <2>1, <3>1 DEF Registry!Next
  <2>7. CASE ~clientsFile[c].active /\ acct.active
    <3>1. Registry!Resume(key)
      BY <2>2, <2>3, <2>7 DEF Registry!Resume
    <3>2. QED BY <2>1, <3>1 DEF Registry!Next
  <2>8. clientsFile[c].active \in BOOLEAN /\ acct.active \in BOOLEAN
    BY <1>0, <2>1, MemberType DEF Account
  <2>9. QED BY <2>5, <2>6, <2>7, <2>8
<1>4. ASSUME NEW c \in Clients, Deleted(c)
      PROVE  Registry!Next \/ UNCHANGED KeyState
  <2>1. CASE c \notin Members(clientsFile)
    BY <1>0, <1>1, <1>4, <2>1 DEF Deleted, Members, Books
  <2>2. CASE c \in Members(clientsFile)
    <3>0. PICK key \in Keys : key = clientsFile[c].key
      BY <2>2 DEF OneOwner
    <3>1. /\ c \notin Members(clientsFile')
          /\ \A d \in Clients \ {c} : clientsFile'[d] = clientsFile[d]
      BY <1>0, <1>4, <2>2 DEF Deleted, Members, Books
    <3>2. StateInFile(key) \in {"valid", "suspended"}
      BY <2>2, <3>0, StateOfOwned
    <3>3. StateInFile(key)' = "revoked"
      <4>1. Owners(clientsFile', key) = {}
        BY <2>2, <3>0, <3>1 DEF Owners, Members, OneOwner
      <4>2. key \in issued'
        BY <1>4, <2>2, <3>0 DEF OneOwner, Deleted
      <4>3. QED BY <4>1, <4>2 DEF StateInFile
    <3>4. Registry!Revoke(key)
      BY <1>4, <3>0, <3>1, <3>2, <3>3, OneKeyChanges DEF Deleted, Registry!Revoke
    <3>5. QED BY <3>4 DEF Registry!Next
  <2>3. QED BY <2>1, <2>2
<1>5. QED BY <1>1, <1>2, <1>3, <1>4 DEF FileStep

\* Until a save fails, the server and create_admin.py implement the abstract
\* key registry: what authenticates is decided key by key, a key is issued
\* once and revoked for good, across every request, bootstrap and restart.
THEOREM AccountsImplementRegistry == Spec => KeysFollowRegistry
<1>1. AccountInv /\ AccountInv' /\ [Next]_vars =>
        [faults' = 0 => Registry!Next \/ UNCHANGED KeyState]_vars
  BY NextFileStep, RegistryStep
<1>2. QED BY <1>1, AccountInvariant, PTL DEF Spec, KeysFollowRegistry

-----------------------------------------------------------------------------
(* How the server loses its last active administrator                      *)

ActiveAdmins(book) == {c \in Admins(book) : book[c].active}

\* The administrator of a request is an active one.
LEMMA RequestingAdmin ==
    ASSUME NEW a \in Clients, Admin(a)
    PROVE  a \in ActiveAdmins(clients)
BY DEF Admin, Authenticates, ActiveAdmins

\* The administrator of a request is active afterwards, unless the request
\* is its own demotion.
LEMMA RequestKeepsAdmin ==
    ASSUME TypeOK, NEW a \in Clients, AdminRequest(a)
    PROVE  \/ a \in ActiveAdmins(clients')
           \/ \E p \in Profiles : UpdateClient(a, a, "client", p)
<1> USE DEF ActiveAdmins, Admins, Members
<1>1. Admin(a) => a \in ActiveAdmins(clients)
  BY RequestingAdmin
<1>2. clients \in Books
  BY DEF TypeOK
<1>3. ASSUME NEW c \in Clients, NEW acct, c # a, Admin(a),
             ChangeClients([clients EXCEPT ![c] = acct])
      PROVE  a \in ActiveAdmins(clients')
  BY <1>1, <1>2, <1>3 DEF ChangeClients, Books
<1>4. ASSUME NEW c \in Clients, DeleteClient(a, c) PROVE a \in ActiveAdmins(clients')
  BY <1>3, <1>4 DEF DeleteClient
<1>5. ASSUME NEW c \in Clients, DeactivateClient(a, c) PROVE a \in ActiveAdmins(clients')
  <2>1. clients' = [clients EXCEPT ![c].active = FALSE] /\ c # a /\ Admin(a)
    BY <1>5 DEF DeactivateClient, ChangeClients
  <2>2. clients'[a] = clients[a]
    BY <1>2, <2>1 DEF Books
  <2>3. QED BY <1>1, <2>1, <2>2
<1>6. ASSUME NEW c \in Clients, ActivateClient(a, c) PROVE a \in ActiveAdmins(clients')
  <2>1. clients' = [clients EXCEPT ![c].active = TRUE] /\ Admin(a)
    BY <1>6 DEF ActivateClient, ChangeClients
  <2>2. a \in ActiveAdmins(clients) /\ clients[a] \in Account
    BY <1>1, <1>2, <2>1, MemberType
  <2>3. \/ clients'[a] = clients[a]
        \/ clients'[a] = [clients[a] EXCEPT !.active = TRUE]
    BY <1>2, <2>1 DEF Books
  <2>4. clients'[a] \in Account /\ clients'[a].role = "admin" /\ clients'[a].active
    BY <2>2, <2>3 DEF Account
  <2>5. QED BY <2>4, NoneAssumption
<1>7. ASSUME NEW c \in Clients, NEW r \in Roles, NEW p \in Profiles, CreateClient(a, c, r, p)
      PROVE  a \in ActiveAdmins(clients')
  <2>1. PICK k \in Keys : ChangeClients([clients EXCEPT ![c] = NewAccount(k, r, p)])
    BY <1>7 DEF CreateClient
  <2>2. Admin(a) /\ c # a
    BY <1>1, <1>7 DEF CreateClient
  <2>3. QED BY <1>3, <2>1, <2>2
<1>8. ASSUME NEW c \in Clients, NEW r \in Roles, NEW p \in Profiles, UpdateClient(a, c, r, p)
      PROVE  \/ a \in ActiveAdmins(clients')
             \/ \E q \in Profiles : UpdateClient(a, a, "client", q)
  <2>1. clients' = [clients EXCEPT ![c].role = r, ![c].profile = p] /\ Admin(a)
    BY <1>8 DEF UpdateClient, ChangeClients
  <2>2. a \in ActiveAdmins(clients) /\ clients[a] \in Account
    BY <1>1, <1>2, <2>1, MemberType
  <2>3. CASE c # a
    <3>1. clients'[a] = clients[a]
      BY <1>2, <2>1, <2>3 DEF Books
    <3>2. QED BY <2>2, <3>1
  <2>4. CASE c = a /\ r = "admin"
    <3>1. clients'[a] = [clients[a] EXCEPT !.role = r, !.profile = p]
      BY <1>2, <2>1, <2>4 DEF Books
    <3>2. clients'[a] \in Account /\ clients'[a].role = "admin" /\ clients'[a].active
      BY <2>2, <2>4, <3>1 DEF Account
    <3>3. QED BY <3>2, NoneAssumption
  <2>5. CASE c = a /\ r = "client"
    BY <1>8, <2>5
  <2>6. QED BY <2>3, <2>4, <2>5 DEF Roles
<1>9. ASSUME NEW p \in Profiles,
             CreateProfile(a, p) \/ DeleteProfile(a, p) \/ SetDefault(a, p)
      PROVE  a \in ActiveAdmins(clients')
  <2>1. clients' = clients /\ Admin(a)
    BY <1>9 DEF CreateProfile, DeleteProfile, SetDefault, ChangeProfiles
  <2>2. QED BY <1>1, <2>1
<1>10. CustomProfiles \subseteq Profiles
  BY DEF Profiles
<1>11. QED BY <1>4, <1>5, <1>6, <1>7, <1>8, <1>9, <1>10 DEF AdminRequest

\* The last active administrator is lost in one way only: it demotes itself
\* while accounts with the role admin remain that are all inactive.
LockoutIsSelfDemotion ==
    /\ mode = "ready" /\ mode' = "ready"
    /\ ActiveAdmins(clients) # {} /\ ActiveAdmins(clients') = {}
    => \E a \in Clients, p \in Profiles :
         /\ UpdateClient(a, a, "client", p)
         /\ ActiveAdmins(clients) = {a}
         /\ Admins(clients) \ {a} # {}

\* The finding of accounts_lockout is exact, for every deployment and also
\* when saves fail: the guards of deletion and deactivation never let the last
\* active administrator go, that of the demotion does, in the case of an
\* inactive one that is counted.
THEOREM LockoutHasOneCause == Spec => [][LockoutIsSelfDemotion]_vars
<1>1. AccountInv /\ [Next]_vars => [LockoutIsSelfDemotion]_vars
  <2> SUFFICES ASSUME AccountInv, [Next]_vars, mode = "ready", mode' = "ready",
                      ActiveAdmins(clients) # {}, ActiveAdmins(clients') = {}
               PROVE  \E a \in Clients, p \in Profiles :
                        /\ UpdateClient(a, a, "client", p)
                        /\ ActiveAdmins(clients) = {a}
                        /\ Admins(clients) \ {a} # {}
    BY DEF LockoutIsSelfDemotion
  <2>1. PICK a \in Clients : AdminRequest(a)
    BY DEF Next, Start, StartWithAdmin, BuildAuthManager, Stop, Bootstrap, BootstrapFails,
           BootstrapKey, CanStart, CreateAdmin, vars, memory
  <2>2. PICK p \in Profiles : UpdateClient(a, a, "client", p)
    BY <2>1, RequestKeepsAdmin DEF AccountInv
  <2>3. a \in ActiveAdmins(clients) /\ CountAdmins > 1
    BY <2>2, RequestingAdmin DEF UpdateClient, ActiveAdmins
  <2>4. \A c \in Clients \ {a} : clients'[c] = clients[c]
    BY <2>2 DEF UpdateClient, ChangeClients, AccountInv, TypeOK, Books
  <2>5. ActiveAdmins(clients) \subseteq {a}
    BY <2>4 DEF ActiveAdmins, Admins, Members
  <2>6. QED BY <2>2, <2>3, <2>5, OtherAdmin
<1>2. QED BY <1>1, AccountInvariant, PTL DEF Spec

\* No administrator is active, and the bootstrap would find one.
LockedOut == Admins(CurrentAccounts) # {} /\ ActiveAdmins(CurrentAccounts) = {}

\* Only create_admin.py, or a save that was cut off, ends that: no request
\* and no restart changes any account.
OnlyTheScriptHelps ==
    faults' = 0 /\ LockedOut =>
        \/ \E c \in Clients, k \in Keys : CreateAdmin(c, k)
        \/ LockedOut' /\ CurrentAccounts' = CurrentAccounts

\* What the finding costs: a server without active administrators stays so
\* across all requests and restarts, the bootstrap included.
THEOREM LockoutIsLasting == Spec => [][OnlyTheScriptHelps]_vars
<1>1. AccountInv /\ AccountInv' /\ [Next]_vars => [OnlyTheScriptHelps]_vars
  <2> SUFFICES ASSUME AccountInv, AccountInv', [Next]_vars, faults' = 0, LockedOut,
                      ~ \E c \in Clients, k \in Keys : CreateAdmin(c, k)
               PROVE  LockedOut' /\ CurrentAccounts' = CurrentAccounts
    BY DEF OnlyTheScriptHelps
  <2>1. FileStep /\ faults = 0
    BY NextFileStep
  <2>2. CurrentAccounts = clientsFile /\ CurrentAccounts' = clientsFile'
    BY <2>1 DEF AccountInv, FilesMirror, CurrentAccounts
  <2>3. \A a \in Clients : ~AdminRequest(a)
    <3>1. SUFFICES ASSUME NEW a \in Clients, AdminRequest(a) PROVE FALSE
      OBVIOUS
    <3>2. Admin(a)
      BY <3>1 DEF AdminRequest, DeleteClient, ActivateClient, DeactivateClient,
         CreateClient, UpdateClient, CreateProfile, DeleteProfile, SetDefault
    <3>3. clients = CurrentAccounts
      BY <3>2 DEF Admin, CurrentAccounts
    <3>4. QED BY <3>2, <3>3, RequestingAdmin DEF LockedOut
  <2>4. \A k \in Keys : ~Bootstrap(k) /\ ~BootstrapFails(k)
    BY <2>2 DEF Bootstrap, BootstrapFails, BootstrapKey, LockedOut
  <2>5. clientsFile' = clientsFile
    <3>1. CASE Stop
      BY <2>1, <3>1 DEF Stop, files, ClientsCutOff, ProfilesCutOff
    <3>2. CASE Start \/ StartWithAdmin \/ BuildAuthManager \/ UNCHANGED vars
      BY <3>2 DEF Start, StartWithAdmin, BuildAuthManager, vars, files
    <3>3. QED BY <2>3, <2>4, <3>1, <3>2 DEF Next
  <2>6. QED BY <2>2, <2>5 DEF LockedOut
<1>2. QED BY <1>1, AccountInvariant, PTL DEF Spec
=============================================================================
