--------------------------- MODULE JobSetupProofs ---------------------------
(***************************************************************************)
(* Proofs about JobSetup and its proxies (SandboxProxy), for every set of  *)
(* jobs, connections, hosts, profiles and settings.                        *)
(***************************************************************************)
EXTENDS JobSetup, TLAPS

Policies == {p.policy : p \in Profiles}
Denials == {Refused(p) : p \in Profiles} \cup {{}}
Stages == {"waiting", "binding", "agent", "closing", "done", "failed"}
Phases == {"none", "header", "resolving", "dialing", "tunnel", "relaying", "closed"}

Setups == [handler : Denials, granted : SUBSET (Tools \cup Servers), policy : Policies \cup {None},
           isolated : BOOLEAN, sandboxed : BOOLEAN]
Proxies == [listening : BOOLEAN, policy : Policies \cup {None}]
Connections == [at : Phases, job : Jobs \cup {None}, host : Hosts \cup {None},
                plain : BOOLEAN, to : Addresses \cup {None},
                open : SUBSET Ends, relays : SUBSET Ends]

\* The types of the part of a job, and of that of its connections.
JobTypes ==
  /\ settings \in Settings /\ profile \in Profiles
  /\ stage \in [Jobs -> Stages]
  /\ setup \in [Jobs -> Setups]
  /\ proxy \in [Jobs -> Proxies]
  /\ seen \in [Jobs -> SUBSET Profiles]
  /\ scripts \in [Jobs -> SUBSET {"inner", "wrapper"}]

ConnTypes == conn \in [Conns -> Connections]

\* A proxy listens for a policy.
ListensWithPolicy ==
  \A j \in Jobs : proxy[j].listening => proxy[j].policy # None

\* Exactly a connection that relays has relays.
RelaysExact == \A c \in Conns : conn[c].relays # {} <=> conn[c].at = "relaying"

-----------------------------------------------------------------------------
(* Types                                                                   *)

LEMMA StageValues ==
  /\ NoSetup \in Setups /\ NoProxy \in Proxies /\ NoConn \in Connections
  /\ NoProxy.listening = FALSE /\ NoConn.at = "none" /\ NoConn.relays = {}
  /\ NoSetup.isolated = FALSE /\ NoSetup.sandboxed = FALSE
<1>1. NoSetup \in Setups
  BY DEF NoSetup, Setups, Denials
<1>2. NoProxy \in Proxies
  BY DEF NoProxy, Proxies
<1>3. NoConn \in Connections
  BY DEF NoConn, Connections, Phases
<1> QED
  BY <1>1, <1>2, <1>3 DEF Stages, NoProxy, NoConn, NoSetup

\* What a set-up that is completed gives a job.
Given(s, sandboxed) ==
  [s EXCEPT !.granted = Grants(profile), !.sandboxed = sandboxed]

LEMMA FirstReadType ==
  ASSUME JobTypes
  PROVE  /\ FirstRead \in Setups
         /\ FirstRead.handler = Refused(profile) /\ FirstRead.policy = profile.policy
         /\ FirstRead.isolated = Isolates(profile.policy)
         /\ FirstRead.sandboxed = FALSE
<1>1. Refused(profile) \in Denials /\ profile.policy \in Policies
  BY DEF JobTypes, Denials, Policies
<1>2. Isolates(profile.policy) \in BOOLEAN
  BY DEF Isolates
<1> DEFINE isolates == Isolates(profile.policy)
<1> HIDE DEF isolates
<1>3. FirstRead = [NoSetup EXCEPT !.handler = Refused(profile), !.policy = profile.policy,
                                  !.isolated = isolates]
  BY DEF FirstRead, isolates
<1>4. isolates \in BOOLEAN
  BY <1>2 DEF isolates
<1>5. /\ FirstRead \in Setups
      /\ FirstRead.handler = Refused(profile) /\ FirstRead.policy = profile.policy
      /\ FirstRead.isolated = isolates /\ FirstRead.sandboxed = FALSE
  BY <1>1, <1>3, <1>4, StageValues DEF Setups, NoSetup
<1> QED
  BY <1>5 DEF isolates

LEMMA GivenType ==
  ASSUME NEW s \in Setups, NEW sandboxed \in BOOLEAN
  PROVE  /\ Given(s, sandboxed) \in Setups
         /\ Given(s, sandboxed).handler = s.handler
         /\ Given(s, sandboxed).policy = s.policy
         /\ Given(s, sandboxed).isolated = s.isolated
         /\ Given(s, sandboxed).sandboxed = sandboxed
         /\ Given(s, sandboxed).granted = Grants(profile)
BY DEF Given, Setups, Grants

\* The outcomes of the rest of the set-up.
LEMMA ConfineOutcomes ==
  ASSUME NEW j \in Jobs, NEW s \in Setups, JobTypes, Confine(j, s)
  PROVE  \/ \E sandboxed \in BOOLEAN :
              /\ stage' = [stage EXCEPT ![j] = "agent"]
              /\ setup' = [setup EXCEPT ![j] = Given(s, sandboxed)]
              /\ scripts' \in [Jobs -> SUBSET {"inner", "wrapper"}]
              /\ sandboxed \/ ~settings.sandbox \/ settings.fallback
         \/ /\ stage' = [stage EXCEPT ![j] = "failed"]
            /\ setup' = setup
            /\ scripts' \in [Jobs -> SUBSET {"inner", "wrapper"}]
            /\ ~settings.fallback
<1>1. \A left \in {{}, Written(s) \ {"wrapper"}, Written(s)} :
         [scripts EXCEPT ![j] = left] \in [Jobs -> SUBSET {"inner", "wrapper"}]
  BY DEF JobTypes, Written
<1>2. CASE ~settings.sandbox /\ StartAgent(j, s, FALSE) /\ UNCHANGED scripts
  BY <1>2 DEF StartAgent, Given, JobTypes
<1>3. CASE StartAgent(j, s, TRUE) /\ scripts' = [scripts EXCEPT ![j] = Written(s)]
  BY <1>1, <1>3 DEF StartAgent, Given
<1>4. CASE settings.sandbox /\ WrapFails(j, s)
  <2>1. scripts' \in [Jobs -> SUBSET {"inner", "wrapper"}]
    BY <1>1, <1>4 DEF WrapFails
  <2> QED
    BY <1>4, <2>1 DEF WrapFails, StartAgent, Fail, Given
<1> QED
  BY <1>2, <1>3, <1>4 DEF Confine

LEMMA InitTypes == Init => JobTypes /\ ConnTypes /\ ListensWithPolicy /\ RelaysExact
<1> SUFFICES ASSUME Init PROVE JobTypes /\ ConnTypes /\ ListensWithPolicy /\ RelaysExact
  OBVIOUS
<1>1. JobTypes
  BY StageValues DEF Init, JobTypes, Stages
<1>2. ConnTypes /\ RelaysExact
  BY StageValues DEF Init, ConnTypes, RelaysExact
<1>3. ListensWithPolicy
  BY StageValues DEF Init, ListensWithPolicy
<1> QED
  BY <1>1, <1>2, <1>3

-----------------------------------------------------------------------------
(* Jobs                                                                    *)

\* What was granted, as the property GrantsComeFromOneProfile has it.
Granted(j) ==
  \E first \in seen[j] :
    /\ setup[j].handler = Refused(first) /\ setup[j].policy = first.policy
    /\ \E last \in IF settings.suspends THEN seen[j] ELSE {first} :
         setup[j].granted = Grants(last)

\* A set-up that waits for its proxy has read a profile, and will read the
\* tools from one that it has seen.
Waits(j) ==
  /\ settings.suspends /\ profile \in seen[j]
  /\ proxy[j].listening /\ setup[j].isolated
  /\ \E first \in seen[j] :
       setup[j].handler = Refused(first) /\ setup[j].policy = first.policy

JobState(j) ==
  /\ stage[j] = "waiting" => proxy[j] = NoProxy /\ setup[j] = NoSetup
  /\ stage[j] = "binding" => Waits(j)
  /\ stage[j] \in {"agent", "closing", "done"} => Granted(j)
  /\ stage[j] \in {"binding", "agent", "closing", "done"} =>
       /\ setup[j].isolated = Isolates(setup[j].policy)
       /\ setup[j].isolated => proxy[j].policy = setup[j].policy
  /\ stage[j] = "agent" /\ setup[j].isolated =>
       proxy[j].listening /\ (setup[j].sandboxed \/ settings.fallback)
  /\ proxy[j].listening => ListensForAJob(j)
  /\ stage[j] = "done" /\ setup[j].sandboxed => "wrapper" \notin scripts[j]

JobInv == JobTypes /\ ListensWithPolicy /\ \A j \in Jobs : JobState(j)

LEMMA JobStateKept ==
  ASSUME NEW k \in Jobs, JobState(k), settings' = settings, profile' = profile,
         proxy'[k] = proxy[k], stage'[k] = stage[k], setup'[k] = setup[k],
         seen'[k] = seen[k], scripts'[k] = scripts[k]
  PROVE  JobState(k)'
BY DEF JobState, Waits, Granted, ListensForAJob, Isolates

\* The rest of the set-up, from a state that was seen.
LEMMA ConfineState ==
  ASSUME JobInv, NEW j \in Jobs, NEW s \in Setups, Confine(j, s),
         settings' = settings, profile' = profile,
         seen' \in [Jobs -> SUBSET Profiles], proxy' \in [Jobs -> Proxies],
         \A k \in Jobs \ {j} : seen'[k] = seen[k] /\ proxy'[k] = proxy[k],
         s.isolated = Isolates(s.policy), s.isolated => settings.sandbox,
         s.isolated => proxy'[j].listening /\ proxy'[j].policy = s.policy,
         ~s.isolated => ~proxy'[j].listening,
         proxy'[j].listening => proxy'[j].policy # None,
         profile \in seen'[j],
         NEW first \in seen'[j], s.handler = Refused(first), s.policy = first.policy,
         settings.suspends \/ first = profile
  PROVE  JobInv'
<1>1. JobTypes /\ \A k \in Jobs : JobState(k)
  BY DEF JobInv
<1>2. ListensWithPolicy'
  BY DEF JobInv, ListensWithPolicy
<1>3. CASE \E sandboxed \in BOOLEAN :
              /\ stage' = [stage EXCEPT ![j] = "agent"]
              /\ setup' = [setup EXCEPT ![j] = Given(s, sandboxed)]
              /\ scripts' \in [Jobs -> SUBSET {"inner", "wrapper"}]
              /\ sandboxed \/ ~settings.sandbox \/ settings.fallback
  <2>1. PICK sandboxed \in BOOLEAN :
              /\ stage' = [stage EXCEPT ![j] = "agent"]
              /\ setup' = [setup EXCEPT ![j] = Given(s, sandboxed)]
              /\ scripts' \in [Jobs -> SUBSET {"inner", "wrapper"}]
              /\ sandboxed \/ ~settings.sandbox \/ settings.fallback
    BY <1>3
  <2>2. JobTypes'
    BY <1>1, <2>1, GivenType DEF JobTypes, Stages
  <2>3. /\ stage'[j] = "agent" /\ setup'[j].handler = s.handler
        /\ setup'[j].policy = s.policy /\ setup'[j].isolated = s.isolated
        /\ setup'[j].sandboxed = sandboxed /\ setup'[j].granted = Grants(profile)
    BY <1>1, <2>1, GivenType DEF JobTypes
  <2>4. Granted(j)'
    BY <2>3 DEF Granted
  <2>5. JobState(j)'
    BY <2>1, <2>3, <2>4 DEF JobState, ListensForAJob, Isolates
  <2>6. \A k \in Jobs \ {j} : stage'[k] = stage[k] /\ setup'[k] = setup[k]
    BY <1>1, <2>1 DEF JobTypes
  <2>7. \A k \in Jobs \ {j} : scripts'[k] = scripts[k]
    BY <1>1 DEF Confine, WrapFails, JobTypes
  <2>8. ASSUME NEW k \in Jobs \ {j} PROVE JobState(k)'
    BY <1>1, <2>6, <2>7, <2>8, JobStateKept
  <2> QED
    BY <1>2, <2>2, <2>5, <2>8 DEF JobInv
<1>4. CASE /\ stage' = [stage EXCEPT ![j] = "failed"]
           /\ setup' = setup
           /\ scripts' \in [Jobs -> SUBSET {"inner", "wrapper"}]
           /\ ~settings.fallback
  <2>1. JobTypes'
    BY <1>1, <1>4 DEF JobTypes, Stages
  <2>2. stage'[j] = "failed" /\ \A k \in Jobs \ {j} : stage'[k] = stage[k]
    BY <1>1, <1>4 DEF JobTypes
  <2>3. JobState(j)'
    BY <1>4, <2>2 DEF JobState, ListensForAJob
  <2>4. \A k \in Jobs \ {j} : scripts'[k] = scripts[k]
    BY <1>1 DEF Confine, WrapFails, JobTypes
  <2>5. ASSUME NEW k \in Jobs \ {j} PROVE JobState(k)'
    BY <1>1, <1>4, <2>2, <2>4, <2>5, JobStateKept
  <2> QED
    BY <1>2, <2>1, <2>3, <2>5 DEF JobInv
<1> QED
  BY <1>1, <1>3, <1>4, ConfineOutcomes

LEMMA PrepareOpenState ==
  ASSUME JobInv, NEW j \in Jobs, PrepareOpen(j)
  PROVE  JobInv'
<1>1. JobTypes /\ JobState(j)
  BY DEF JobInv
<1>2. /\ FirstRead \in Setups /\ FirstRead.handler = Refused(profile)
      /\ FirstRead.policy = profile.policy
      /\ FirstRead.isolated = Isolates(profile.policy)
  BY <1>1, FirstReadType
<1>3. seen' \in [Jobs -> SUBSET Profiles] /\ seen'[j] = {profile}
      /\ \A k \in Jobs \ {j} : seen'[k] = seen[k]
  BY <1>1 DEF PrepareOpen, JobTypes
<1>4. ~proxy'[j].listening
  BY <1>1, StageValues DEF PrepareOpen, JobState
<1>5. ~FirstRead.isolated
  BY <1>2 DEF PrepareOpen
<1> DEFINE read == FirstRead
<1> HIDE DEF read
<1>6. /\ read \in Setups /\ read.handler = Refused(profile) /\ read.policy = profile.policy
      /\ read.isolated = Isolates(read.policy) /\ ~read.isolated
  BY <1>2, <1>5 DEF read
<1>7. Confine(j, read) /\ UNCHANGED <<settings, proxy, profile>>
  BY DEF PrepareOpen, read
<1> QED
  BY <1>1, <1>3, <1>4, <1>6, <1>7, ConfineState DEF JobTypes

\* The proxy that is started has the policy that was read.
LEMMA StartProxyState ==
  ASSUME JobTypes, NEW j \in Jobs, StartProxy(j, profile.policy)
  PROVE  /\ proxy' \in [Jobs -> Proxies]
         /\ proxy'[j].listening /\ proxy'[j].policy = profile.policy
         /\ profile.policy # None
         /\ \A k \in Jobs \ {j} : proxy'[k] = proxy[k]
<1>1. profile.policy \in Policies /\ profile.policy # None
  BY ProfilesAssumption DEF JobTypes, Policies
<1>2. [listening |-> TRUE, policy |-> profile.policy] \in Proxies
  BY <1>1 DEF Proxies
<1> QED
  BY <1>1, <1>2 DEF StartProxy, JobTypes

LEMMA PrepareIsolatedState ==
  ASSUME JobInv, NEW j \in Jobs, PrepareIsolated(j)
  PROVE  JobInv'
<1>1. JobTypes /\ ListensWithPolicy /\ \A k \in Jobs : JobState(k)
  BY DEF JobInv
<1>2. /\ proxy' \in [Jobs -> Proxies]
      /\ proxy'[j].listening /\ proxy'[j].policy = profile.policy
      /\ profile.policy # None
      /\ \A k \in Jobs \ {j} : proxy'[k] = proxy[k]
  BY <1>1, StartProxyState DEF PrepareIsolated
<1>3. seen' \in [Jobs -> SUBSET Profiles] /\ seen'[j] = {profile}
      /\ \A k \in Jobs \ {j} : seen'[k] = seen[k]
  BY <1>1 DEF PrepareIsolated, JobTypes
<1> DEFINE read == FirstRead
<1> HIDE DEF read
<1>4. Isolates(profile.policy) /\ settings.sandbox
      /\ UNCHANGED <<settings, profile>>
  BY DEF PrepareIsolated, Isolates
<1>5. /\ read \in Setups /\ read.handler = Refused(profile) /\ read.policy = profile.policy
      /\ read.isolated = Isolates(read.policy) /\ read.isolated
      /\ read.sandboxed = FALSE
  BY <1>1, <1>4, FirstReadType DEF read
<1>6. CASE ~settings.suspends
  <2>1. Confine(j, read)
    BY <1>6 DEF PrepareIsolated, read
  <2> QED
    BY <1>1, <1>2, <1>3, <1>4, <1>5, <2>1, ConfineState
<1>7. CASE settings.suspends
  <2>1. /\ stage' = [stage EXCEPT ![j] = "binding"]
        /\ setup' = [setup EXCEPT ![j] = read]
        /\ UNCHANGED scripts
    BY <1>7 DEF PrepareIsolated, read
  <2>2. JobTypes' /\ stage'[j] = "binding" /\ setup'[j] = read
        /\ \A k \in Jobs \ {j} : stage'[k] = stage[k] /\ setup'[k] = setup[k]
    BY <1>1, <1>2, <1>3, <1>4, <1>5, <2>1 DEF JobTypes, Stages
  <2>3. Waits(j)'
    BY <1>2, <1>3, <1>4, <1>5, <1>7, <2>2 DEF Waits
  <2>4. JobState(j)'
    BY <1>2, <1>4, <1>5, <2>2, <2>3 DEF JobState, ListensForAJob, Isolates
  <2>5. ASSUME NEW k \in Jobs \ {j} PROVE JobState(k)'
    BY <1>1, <1>2, <1>3, <1>4, <2>1, <2>2, <2>5, JobStateKept
  <2> QED
    BY <1>1, <1>2, <2>2, <2>4, <2>5 DEF JobInv, ListensWithPolicy
<1> QED
  BY <1>6, <1>7

LEMMA ProxyStartedState ==
  ASSUME JobInv, NEW j \in Jobs, ProxyStarted(j)
  PROVE  JobInv'
<1>1. JobTypes /\ JobState(j) /\ ListensWithPolicy
  BY DEF JobInv
<1>2. /\ Waits(j) /\ setup[j].isolated = Isolates(setup[j].policy)
      /\ proxy[j].policy = setup[j].policy
  BY <1>1 DEF ProxyStarted, JobState, Waits
<1>3. PICK first \in seen[j] :
        setup[j].handler = Refused(first) /\ setup[j].policy = first.policy
  BY <1>2 DEF Waits
<1> DEFINE read == setup[j]
<1>4. read \in Setups /\ read.isolated
  BY <1>1, <1>2 DEF JobTypes, Waits
<1>5. /\ read.isolated = Isolates(read.policy) /\ settings.sandbox
      /\ proxy[j].policy = read.policy
      /\ read.handler = Refused(first) /\ read.policy = first.policy
  BY <1>2, <1>3, <1>4 DEF Isolates
<1>6. Confine(j, read) /\ UNCHANGED <<settings, proxy, profile, seen>>
  BY DEF ProxyStarted
<1>7. settings.suspends /\ profile \in seen[j] /\ proxy[j].listening
  BY <1>2 DEF Waits
<1>8. proxy[j].policy # None
  BY <1>1, <1>7 DEF ListensWithPolicy
<1> HIDE DEF read
<1>9. /\ seen' \in [Jobs -> SUBSET Profiles] /\ proxy' \in [Jobs -> Proxies]
      /\ seen'[j] = seen[j] /\ proxy'[j] = proxy[j]
      /\ \A k \in Jobs \ {j} : seen'[k] = seen[k] /\ proxy'[k] = proxy[k]
  BY <1>1, <1>6 DEF JobTypes
<1> QED
  BY <1>3, <1>4, <1>5, <1>6, <1>7, <1>8, <1>9, ConfineState

LEMMA ProxyFailsState ==
  ASSUME JobInv, NEW j \in Jobs, ProxyFails(j)
  PROVE  JobInv'
<1>1. JobTypes /\ ListensWithPolicy /\ \A k \in Jobs : JobState(k)
  BY DEF JobInv
<1>2. /\ JobTypes' /\ stage'[j] = "failed"
      /\ \A k \in Jobs \ {j} : stage'[k] = stage[k]
  BY <1>1 DEF ProxyFails, Fail, JobTypes, Stages
<1>3. JobState(j)'
  <2>1. ~proxy'[j].listening
    BY <1>1, StageValues DEF ProxyFails, JobState
  <2> QED
    BY <1>2, <2>1 DEF JobState
<1>4. ASSUME NEW k \in Jobs \ {j} PROVE JobState(k)'
  BY <1>1, <1>2, <1>4, JobStateKept DEF ProxyFails, Fail
<1> QED
  BY <1>1, <1>2, <1>3, <1>4 DEF JobInv, ListensWithPolicy, ProxyFails

LEMMA AgentEndsState ==
  ASSUME JobInv, NEW j \in Jobs, AgentEnds(j)
  PROVE  JobInv'
<1>1. JobTypes /\ ListensWithPolicy /\ \A k \in Jobs : JobState(k)
  BY DEF JobInv
<1>2. /\ proxy' \in [Jobs -> Proxies] /\ ~proxy'[j].listening
      /\ proxy'[j].policy = proxy[j].policy
      /\ \A k \in Jobs \ {j} : proxy'[k] = proxy[k]
  BY <1>1 DEF AgentEnds, StopProxy, JobTypes, Proxies
<1>3. /\ JobTypes' /\ stage'[j] = "closing"
      /\ \A k \in Jobs \ {j} : stage'[k] = stage[k]
  BY <1>1, <1>2 DEF AgentEnds, JobTypes, Stages
<1>4. JobState(j)'
  BY <1>1, <1>2, <1>3 DEF AgentEnds, JobState, Granted, Isolates
<1>5. ASSUME NEW k \in Jobs \ {j} PROVE JobState(k)'
  BY <1>1, <1>2, <1>3, <1>5, JobStateKept DEF AgentEnds
<1> QED
  BY <1>1, <1>2, <1>3, <1>4, <1>5 DEF JobInv, ListensWithPolicy

LEMMA FinishState ==
  ASSUME JobInv, NEW j \in Jobs, Finish(j)
  PROVE  JobInv'
<1>1. JobTypes /\ ListensWithPolicy /\ \A k \in Jobs : JobState(k)
  BY DEF JobInv
<1>2. /\ scripts' \in [Jobs -> SUBSET {"inner", "wrapper"}]
      /\ setup[j].sandboxed => "wrapper" \notin scripts'[j]
      /\ \A k \in Jobs \ {j} : scripts'[k] = scripts[k]
  BY <1>1 DEF Finish, JobTypes
<1>3. /\ JobTypes' /\ stage'[j] = "done"
      /\ \A k \in Jobs \ {j} : stage'[k] = stage[k]
  BY <1>1, <1>2 DEF Finish, JobTypes, Stages
<1>4. JobState(j)'
  BY <1>1, <1>2, <1>3 DEF Finish, JobState, Granted, ListensForAJob, Isolates
<1>5. ASSUME NEW k \in Jobs \ {j} PROVE JobState(k)'
  BY <1>1, <1>2, <1>3, <1>5, JobStateKept DEF Finish
<1> QED
  BY <1>1, <1>3, <1>4, <1>5 DEF JobInv, ListensWithPolicy, Finish

\* A profile that is changed while a set-up waits is one it has seen.
LEMMA UpdateProfileState ==
  ASSUME JobInv, NEW new \in Profiles, UpdateProfile(new)
  PROVE  JobInv'
<1>1. JobTypes /\ ListensWithPolicy /\ \A k \in Jobs : JobState(k)
  BY DEF JobInv
<1>2. /\ profile' = new /\ UNCHANGED <<settings, proxy, stage, setup, scripts>>
      /\ seen' = [j \in Jobs |-> IF stage[j] = "binding" THEN seen[j] \cup {new}
                                                        ELSE seen[j]]
  BY DEF UpdateProfile
<1>3. JobTypes'
  BY <1>1, <1>2 DEF JobTypes
<1>4. ASSUME NEW k \in Jobs PROVE JobState(k)'
  <2>1. CASE stage[k] # "binding"
    <3>1. seen'[k] = seen[k]
      BY <1>2, <2>1
    <3> QED
      BY <1>1, <1>2, <2>1, <3>1 DEF JobState, Granted, ListensForAJob, Isolates
  <2>2. CASE stage[k] = "binding"
    <3>1. seen'[k] = seen[k] \cup {new}
      BY <1>2, <2>2
    <3>2. Waits(k)'
      BY <1>1, <1>2, <2>2, <3>1 DEF JobState, Waits
    <3> QED
      BY <1>1, <1>2, <2>2, <3>2 DEF JobState, ListensForAJob, Isolates
  <2> QED
    BY <2>1, <2>2
<1> QED
  BY <1>1, <1>2, <1>3, <1>4 DEF JobInv, ListensWithPolicy

LEMMA JobsKept ==
  ASSUME JobInv, UNCHANGED <<settings, proxy, profile, stage, setup, seen, scripts>>
  PROVE  JobInv'
BY JobStateKept DEF JobInv, JobTypes, ListensWithPolicy

LEMMA JobInvariant == Spec => []JobInv
<1>1. Init => JobInv
  <2> SUFFICES ASSUME Init PROVE JobInv
    OBVIOUS
  <2>1. ASSUME NEW j \in Jobs PROVE JobState(j)
    BY StageValues DEF Init, JobState
  <2> QED
    BY <2>1, InitTypes DEF JobInv
<1>2. JobInv /\ [Next]_vars => JobInv'
  <2> SUFFICES ASSUME JobInv, [Next]_vars PROVE JobInv'
    OBVIOUS
  <2>1. ASSUME NEW j \in Jobs, Execute(j) PROVE JobInv'
    BY <2>1, PrepareOpenState, PrepareIsolatedState, ProxyFailsState, ProxyStartedState,
       AgentEndsState, FinishState DEF Execute
  <2>2. ASSUME NEW c \in Conns, Traffic(c) \/ AgentGone(c) PROVE JobInv'
    BY <2>2, JobsKept DEF Traffic, AgentGone, Connect, SendRequest, Network
  <2>3. CASE UNCHANGED vars
    BY <2>3, JobsKept DEF vars
  <2> QED
    BY <2>1, <2>2, <2>3, UpdateProfileState DEF Next
<1> QED
  BY <1>1, <1>2, PTL DEF Spec

\* A profile that restricts the network is enforced or no agent runs, a proxy
\* listens for a job that starts or runs or whose sandbox failed, and no wrapper
\* script is left, whatever fails and whoever changes the profile.
LEMMA JobsContainedInv == JobInv => JobsAreContained
<1> SUFFICES ASSUME JobInv, NEW j \in Jobs
             PROVE  /\ /\ stage[j] = "agent" /\ Isolates(setup[j].policy)
                       /\ ~settings.fallback
                       => RunsIsolated(j)
                    /\ proxy[j].listening => ListensForAJob(j)
                    /\ stage[j] = "done" /\ setup[j].sandboxed => "wrapper" \notin scripts[j]
  BY DEF JobsAreContained
<1>1. JobState(j)
  BY DEF JobInv
<1> QED
  BY <1>1 DEF JobState, RunsIsolated

\* With uvloop the handler, the tools and the policy of an agent come from one
\* profile that was in force during its set-up; with asyncio's loop the tools may
\* come from a later one.
THEOREM GrantsFromOneProfile == Spec => []GrantsComeFromOneProfile
<1>1. JobInv => GrantsComeFromOneProfile
  BY DEF JobInv, JobState, Granted, GrantsComeFromOneProfile
<1> QED
  BY JobInvariant, <1>1, PTL

-----------------------------------------------------------------------------
(* Connections                                                             *)

Answers(host) == IF host \in Names THEN Resolves[host] ELSE {host}

\* What the checks before a connection is made have established.
Admitted(p, host) ==
  \/ AutoAllows(host)
  \/ host \in Addresses /\ p.rawIp /\ AddressAllowed(p, host)
  \/ /\ host \notin Addresses /\ NameAllowed(p, host)
     /\ HasRanges(p) => \E a \in Resolves[host] : AddressAllowed(p, a)

Connecting == {"dialing", "tunnel", "relaying"}

ConnState(c) ==
  /\ conn[c].at \notin {"none", "closed"} =>
       /\ conn[c].job \in Jobs /\ stage[conn[c].job] \in {"agent", "closing", "done"}
       /\ setup[conn[c].job].isolated
  /\ conn[c].at = "resolving" =>
       conn[c].host \in Names /\ NameAllowed(setup[conn[c].job].policy, conn[c].host)
  /\ conn[c].at \in Connecting =>
       conn[c].host \in Hosts /\ Admitted(setup[conn[c].job].policy, conn[c].host)
  /\ conn[c].at \in {"tunnel", "relaying"} => conn[c].to \in Answers(conn[c].host)
  /\ conn[c].relays # {} <=> conn[c].at = "relaying"

ConnInv == ConnTypes /\ \A c \in Conns : ConnState(c)

\* A connection that is refused, or that both ends have left.
LEMMA ClosedState ==
  ASSUME JobInv, ConnInv, NEW c \in Conns
  PROVE  Closed(c) \in Connections /\ Closed(c).at = "closed" /\ Closed(c).relays = {}
BY StageValues DEF Closed, ConnInv, ConnTypes, Connections, NoConn, Phases

\* While only one connection changes, its state decides.
LEMMA OneConnection ==
  ASSUME ConnInv, NEW c \in Conns, NEW new \in Connections,
         conn' = [conn EXCEPT ![c] = new], UNCHANGED <<stage, setup>>,
         ConnState(c)'
  PROVE  ConnInv'
<1>1. conn' \in [Conns -> Connections] /\ \A d \in Conns \ {c} : conn'[d] = conn[d]
  BY DEF ConnInv, ConnTypes
<1>2. ASSUME NEW d \in Conns \ {c} PROVE ConnState(d)'
  BY <1>1, <1>2 DEF ConnInv, ConnState
<1> QED
  BY <1>1, <1>2 DEF ConnInv, ConnTypes

LEMMA Closes ==
  ASSUME JobInv, ConnInv, NEW c \in Conns, conn' = [conn EXCEPT ![c] = Closed(c)],
         UNCHANGED <<stage, setup>>
  PROVE  ConnInv'
<1>1. Closed(c) \in Connections /\ Closed(c).at = "closed" /\ Closed(c).relays = {}
  BY ClosedState
<1>2. conn'[c] = Closed(c)
  BY DEF ConnInv, ConnTypes
<1>3. ConnState(c)'
  BY <1>1, <1>2 DEF ConnState, Connecting
<1> DEFINE new == Closed(c)
<1>4. new \in Connections /\ conn' = [conn EXCEPT ![c] = new]
  BY <1>1
<1> HIDE DEF new
<1> QED
  BY <1>3, <1>4, OneConnection

\* A job with a connection through its proxy has a proxy with its policy.
LEMMA ProxyPolicy ==
  ASSUME JobInv, ConnInv, NEW c \in Conns, conn[c].at \notin {"none", "closed"}
  PROVE  /\ conn[c].job \in Jobs
         /\ proxy[conn[c].job].policy = setup[conn[c].job].policy
BY DEF JobInv, JobState, ConnInv, ConnState

LEMMA AcceptState ==
  ASSUME JobInv, ConnInv, NEW c \in Conns, NEW j \in Jobs, Connect(c, j)
  PROVE  ConnInv'
<1> DEFINE new == [NoConn EXCEPT !.at = "header", !.job = j, !.open = {"client"}]
<1>1. new \in Connections /\ new.at = "header" /\ new.job = j /\ new.relays = {}
  BY StageValues DEF Connections, NoConn, Phases, Ends
<1>2. /\ conn' = [conn EXCEPT ![c] = new] /\ UNCHANGED <<stage, setup>>
      /\ stage[j] = "agent" /\ setup[j].isolated
  BY DEF Connect, Network, Accept
<1> HIDE DEF new
<1>3. conn'[c] = new
  BY <1>2 DEF ConnInv, ConnTypes
<1>4. ConnState(c)'
  BY <1>1, <1>2, <1>3 DEF ConnState, Connecting
<1> QED
  BY <1>1, <1>2, <1>4, OneConnection

LEMMA RequestState ==
  ASSUME JobInv, ConnInv, NEW c \in Conns, NEW host \in Hosts, NEW plain \in BOOLEAN,
         SendRequest(c, host, plain)
  PROVE  ConnInv'
<1> DEFINE p == proxy[conn[c].job].policy
           answer == FirstCheck(p, host)
           read == [conn[c] EXCEPT !.host = host, !.plain = plain]
<1>1. /\ conn[c].at = "header" /\ UNCHANGED <<stage, setup>>
      /\ conn[c] \in Connections
  BY DEF SendRequest, Network, Request, ConnInv, ConnTypes
<1>2. /\ conn[c].job \in Jobs /\ p = setup[conn[c].job].policy
      /\ stage[conn[c].job] \in {"agent", "closing", "done"}
      /\ setup[conn[c].job].isolated /\ conn[c].relays = {}
  BY <1>1, ProxyPolicy DEF ConnInv, ConnState
<1>3. answer \in {"admit", "refuse", "resolve"}
  BY DEF FirstCheck
<1>4. answer = "admit" => Admitted(p, host)
  BY DEF FirstCheck, Admitted
<1>5. answer = "resolve" => host \in Names /\ NameAllowed(p, host)
  BY DEF FirstCheck, Hosts
<1>6. conn' = [conn EXCEPT ![c] =
           CASE answer = "refuse"  -> Closed(c)
             [] answer = "admit"   -> [read EXCEPT !.at = "dialing"]
             [] answer = "resolve" -> [read EXCEPT !.at = "resolving"]]
  BY DEF SendRequest, Network, Request
<1>7. CASE answer = "refuse"
  <2>1. conn' = [conn EXCEPT ![c] = Closed(c)]
    BY <1>6, <1>7
  <2> QED
    BY <1>1, <2>1, Closes
<1>8. ASSUME NEW at \in {"dialing", "resolving"}, answer # "refuse",
             at = "dialing" <=> answer = "admit"
      PROVE  ConnInv'
  <2> DEFINE new == [read EXCEPT !.at = at]
  <2>1. conn' = [conn EXCEPT ![c] = new]
    <3> HIDE DEF answer, read
    <3> QED
      BY <1>3, <1>6, <1>8
  <2>2. new \in Connections /\ new.at = at /\ new.job = conn[c].job /\ new.host = host
        /\ new.relays = conn[c].relays
    BY <1>1 DEF Connections, Phases
  <2> HIDE DEF new, answer, read
  <2>3. conn'[c] = new
    BY <2>1 DEF ConnInv, ConnTypes
  <2>4. ConnState(c)'
    BY <1>1, <1>2, <1>3, <1>4, <1>5, <1>8, <2>2, <2>3
    DEF ConnState, Connecting, Admitted, NameAllowed
  <2> QED
    BY <1>1, <2>1, <2>2, <2>4, OneConnection
<1> QED
  BY <1>3, <1>7, <1>8

LEMMA ResolveState ==
  ASSUME JobInv, ConnInv, NEW c \in Conns, Resolve(c), UNCHANGED <<stage, setup>>
  PROVE  ConnInv'
<1>1. /\ conn[c] \in Connections /\ conn[c].at = "resolving" /\ ConnState(c)
      /\ proxy[conn[c].job].policy = setup[conn[c].job].policy
  BY ProxyPolicy DEF Resolve, ConnInv, ConnTypes
<1>2. PICK a \in Resolves[conn[c].host] :
        conn' = [conn EXCEPT ![c] =
                  IF AddressAllowed(proxy[conn[c].job].policy, a)
                  THEN [conn[c] EXCEPT !.at = "dialing"] ELSE Closed(c)]
  BY DEF Resolve
<1>3. CASE ~AddressAllowed(proxy[conn[c].job].policy, a)
  BY <1>2, <1>3, Closes
<1>4. CASE AddressAllowed(proxy[conn[c].job].policy, a)
  <2> DEFINE new == [conn[c] EXCEPT !.at = "dialing"]
  <2>1. conn' = [conn EXCEPT ![c] = new]
    BY <1>2, <1>4
  <2>2. new \in Connections /\ new.at = "dialing" /\ new.job = conn[c].job
        /\ new.host = conn[c].host /\ new.relays = conn[c].relays
    BY <1>1 DEF Connections, Phases
  <2> HIDE DEF new
  <2>3. conn'[c] = new
    BY <2>1 DEF ConnInv, ConnTypes
  <2>4. Admitted(setup[conn[c].job].policy, conn[c].host) /\ conn[c].host \in Hosts
    BY <1>1, <1>2, <1>4, HostsAssumption DEF ConnState, Admitted, Hosts
  <2>5. ConnState(c)'
    BY <1>1, <2>2, <2>3, <2>4 DEF ConnState, Connecting
  <2> QED
    BY <2>1, <2>2, <2>5, OneConnection
<1> QED
  BY <1>3, <1>4

LEMMA DialState ==
  ASSUME JobInv, ConnInv, NEW c \in Conns, Dial(c) \/ TunnelOpens(c),
         UNCHANGED <<stage, setup>>
  PROVE  ConnInv'
<1>1. conn[c] \in Connections /\ conn[c].at \in {"dialing", "tunnel"} /\ ConnState(c)
  BY DEF Dial, TunnelOpens, ConnInv, ConnTypes
<1>2. conn[c].host \in Hosts /\ Admitted(setup[conn[c].job].policy, conn[c].host)
  BY <1>1 DEF ConnState, Connecting
<1>3. ASSUME NEW new \in Connections, conn' = [conn EXCEPT ![c] = new],
             new.at \in {"tunnel", "relaying"}, new.job = conn[c].job,
             new.host = conn[c].host, new.to \in Answers(conn[c].host),
             new.relays # {} <=> new.at = "relaying"
      PROVE  ConnInv'
  <2>1. conn'[c] = new
    BY <1>3 DEF ConnInv, ConnTypes
  <2>2. ConnState(c)'
    BY <1>1, <1>2, <1>3, <2>1 DEF ConnState, Connecting
  <2> QED
    BY <1>3, <2>2, OneConnection
<1>4. CASE Dial(c)
  <2>1. PICK a \in Answers(conn[c].host) :
          conn' = [conn EXCEPT
                  ![c].at = IF settings.upstream /\ ~conn[c].plain
                            THEN "tunnel" ELSE "relaying",
                  ![c].to = a, ![c].plain = FALSE,
                  ![c].open = @ \cup {"upstream"},
                  ![c].relays = IF settings.upstream /\ ~conn[c].plain
                                THEN {} ELSE Ends]
    BY <1>4 DEF Dial, Answers
  <2>2. a \in Addresses
    BY <1>2, HostsAssumption DEF Answers, Hosts
  <2> DEFINE new == [conn[c] EXCEPT
                  !.at = IF settings.upstream /\ ~conn[c].plain
                         THEN "tunnel" ELSE "relaying",
                  !.to = a, !.plain = FALSE,
                  !.open = @ \cup {"upstream"},
                  !.relays = IF settings.upstream /\ ~conn[c].plain
                             THEN {} ELSE Ends]
  <2>3. conn' = [conn EXCEPT ![c] = new]
    BY <1>1, <2>1 DEF ConnInv, ConnTypes, Connections
  <2>4. /\ new \in Connections /\ new.at \in {"tunnel", "relaying"}
        /\ new.job = conn[c].job /\ new.host = conn[c].host /\ new.to = a
        /\ new.relays # {} <=> new.at = "relaying"
    BY <1>1, <2>2 DEF Connections, Phases, Ends
  <2> HIDE DEF new
  <2> QED
    BY <1>3, <2>1, <2>3, <2>4
<1>5. CASE TunnelOpens(c)
  <2> DEFINE new == [conn[c] EXCEPT !.at = "relaying", !.relays = Ends]
  <2>1. conn' = [conn EXCEPT ![c] = new]
    BY <1>1, <1>5 DEF TunnelOpens, ConnInv, ConnTypes, Connections
  <2>2. /\ new \in Connections /\ new.at = "relaying" /\ new.job = conn[c].job
        /\ new.host = conn[c].host /\ new.to = conn[c].to /\ new.relays # {}
    BY <1>1 DEF Connections, Phases, Ends
  <2> HIDE DEF new
  <2>3. conn[c].to \in Answers(conn[c].host)
    BY <1>1, <1>5 DEF TunnelOpens, ConnState
  <2> QED
    BY <1>3, <2>1, <2>2, <2>3
<1> QED
  BY <1>4, <1>5

LEMMA RelayState ==
  ASSUME JobInv, ConnInv, NEW c \in Conns, NEW e \in Ends, RelayEnds(c, e),
         UNCHANGED <<stage, setup>>
  PROVE  ConnInv'
<1>1. conn[c] \in Connections /\ conn[c].relays # {} /\ ConnState(c) /\ e \in conn[c].relays
  BY DEF RelayEnds, ConnInv, ConnTypes
<1>2. CASE conn[c].relays = {e}
  BY <1>2, Closes DEF RelayEnds
<1>3. CASE conn[c].relays # {e}
  <2> DEFINE new == RelayLeaves(c, e)
  <2>1. conn' = [conn EXCEPT ![c] = new]
    BY <1>3 DEF RelayEnds
  <2>2. /\ new \in Connections /\ new.at = conn[c].at /\ new.job = conn[c].job
        /\ new.host = conn[c].host /\ new.to = conn[c].to
        /\ new.relays = conn[c].relays \ {e}
    BY <1>1 DEF Connections, RelayLeaves
  <2> HIDE DEF new
  <2>3. new.relays # {}
    BY <1>1, <1>3, <2>2
  <2>4. conn'[c] = new
    BY <2>1 DEF ConnInv, ConnTypes
  <2>5. ConnState(c)'
    BY <1>1, <2>2, <2>3, <2>4 DEF ConnState
  <2> QED
    BY <2>1, <2>2, <2>5, OneConnection
<1> QED
  BY <1>2, <1>3

LEMMA EndClosesState ==
  ASSUME JobInv, ConnInv, NEW c \in Conns, NEW e \in Ends, EndCloses(c, e),
         UNCHANGED <<stage, setup>>
  PROVE  ConnInv'
<1>1. conn[c] \in Connections /\ ConnState(c)
  BY DEF ConnInv, ConnTypes
<1> DEFINE new == [conn[c] EXCEPT !.open = @ \ {e}]
<1>2. conn' = [conn EXCEPT ![c] = new]
  BY <1>1 DEF EndCloses, ConnInv, ConnTypes, Connections
<1>3. /\ new \in Connections /\ new.at = conn[c].at /\ new.job = conn[c].job
      /\ new.host = conn[c].host /\ new.to = conn[c].to /\ new.relays = conn[c].relays
  BY <1>1 DEF Connections
<1> HIDE DEF new
<1>4. conn'[c] = new
  BY <1>2 DEF ConnInv, ConnTypes
<1>5. ConnState(c)'
  BY <1>1, <1>3, <1>4 DEF ConnState
<1> QED
  BY <1>2, <1>3, <1>5, OneConnection

LEMMA TrafficState ==
  ASSUME JobInv, ConnInv, NEW c \in Conns, Traffic(c) \/ AgentGone(c)
  PROVE  ConnInv'
<1>1. ASSUME Network(c, Serve(c)) PROVE ConnInv'
  BY <1>1, Closes, ResolveState, DialState, RelayState
  DEF Network, Serve, BadRequest, ResolveFails, DialFails, RelaySeesEnd
<1>2. ASSUME NEW e \in Ends, Network(c, RelayBreaks(c, e)) \/ Network(c, EndCloses(c, e))
      PROVE  ConnInv'
  BY <1>2, RelayState, EndClosesState DEF Network, RelayBreaks
<1>3. ASSUME AgentGone(c) PROVE ConnInv'
  BY <1>3, EndClosesState DEF AgentGone, Network, Ends
<1> QED
  BY <1>1, <1>2, <1>3, AcceptState, RequestState DEF Traffic

\* What a step of a job leaves of the jobs that have got their agent.
LEMMA JobsPersist ==
  ASSUME JobInv, ConnInv,
         (\E j \in Jobs : Execute(j)) \/ (\E new \in Profiles : UpdateProfile(new))
  PROVE  ConnInv'
<1>1. conn' = conn
  BY DEF Execute, PrepareOpen, PrepareIsolated, ProxyFails, ProxyStarted, AgentEnds, Finish,
         UpdateProfile
<1>2. ASSUME NEW k \in Jobs, stage[k] \in {"agent", "closing", "done"}
      PROVE  stage'[k] \in {"agent", "closing", "done"} /\ setup'[k] = setup[k]
  <2>1. ASSUME NEW j \in Jobs, PrepareOpen(j) \/ PrepareIsolated(j) \/ ProxyStarted(j)
               \/ ProxyFails(j)
        PROVE  stage'[k] = stage[k] /\ setup'[k] = setup[k]
    <3>1. k # j
      BY <1>2, <2>1 DEF PrepareOpen, PrepareIsolated, ProxyStarted, ProxyFails
    <3>2. stage \in [Jobs -> Stages] /\ setup \in [Jobs -> Setups]
      BY DEF JobInv, JobTypes
    <3>3. /\ stage' \in {[stage EXCEPT ![j] = x] : x \in {"agent", "failed", "binding"}}
          /\ \/ setup' = setup
             \/ \E s : setup' = [setup EXCEPT ![j] = s]
      BY <2>1 DEF PrepareOpen, PrepareIsolated, ProxyStarted, ProxyFails, Confine, WrapFails,
                  StartAgent, Fail
    <3> QED
      BY <3>1, <3>2, <3>3
  <2>2. ASSUME NEW j \in Jobs, AgentEnds(j) \/ Finish(j)
        PROVE  stage'[k] \in {"agent", "closing", "done"} /\ setup'[k] = setup[k]
    BY <1>2, <2>2 DEF AgentEnds, Finish, JobInv, JobTypes
  <2>3. ASSUME NEW new \in Profiles, UpdateProfile(new)
        PROVE  stage'[k] = stage[k] /\ setup'[k] = setup[k]
    BY <2>3 DEF UpdateProfile
  <2> QED
    BY <1>2, <2>1, <2>2, <2>3 DEF Execute
<1>3. ASSUME NEW c \in Conns PROVE ConnState(c)'
  BY <1>1, <1>2 DEF ConnInv, ConnState, Connecting
<1> QED
  BY <1>1, <1>3 DEF ConnInv, ConnTypes

LEMMA ConnInvariant == Spec => []ConnInv
<1>1. Init => ConnInv
  <2> SUFFICES ASSUME Init PROVE ConnInv
    OBVIOUS
  <2>1. ASSUME NEW c \in Conns PROVE ConnState(c)
    BY StageValues DEF Init, ConnState, Connecting
  <2> QED
    BY <2>1, InitTypes DEF ConnInv
<1>2. JobInv /\ ConnInv /\ [Next]_vars => ConnInv'
  <2> SUFFICES ASSUME JobInv, ConnInv, [Next]_vars PROVE ConnInv'
    OBVIOUS
  <2>1. CASE UNCHANGED vars
    BY <2>1 DEF vars, ConnInv, ConnTypes, ConnState
  <2> QED
    BY <2>1, TrafficState, JobsPersist DEF Next
<1> QED
  BY <1>1, <1>2, JobInvariant, PTL DEF Spec

\* A connection is relayed only to a host the job's policy admits, in whatever
\* order its rules were looked at: by the documented meaning of its patterns,
\* or because it is the base domain of an allowed wildcard.
THEOREM RelaysFollowPolicy == Spec => []ConnectionsFollowPolicy
<1>1. ConnInv => ConnectionsFollowPolicy
  <2> SUFFICES ASSUME ConnInv, NEW c \in Conns, conn[c].at = "relaying"
               PROVE
    LET p    == setup[conn[c].job].policy
        host == conn[c].host
        named(patterns) == \E q \in patterns : Means(q, host) \/ IsBaseOf(q, host)
        answers == IF host \in Names THEN Resolves[host] ELSE {host}
    IN  \/ host \in Names /\ named(AutoAllowed)
        \/ /\ host \in Addresses => p.rawIp
           /\ host \in Names =>
                /\ \A q \in p.deniedDomains : ~Means(q, host)
                /\ p.allowedDomains # None => named(p.allowedDomains)
           /\ \E a \in answers : a \notin p.deniedRanges
                                 /\ (p.allowedRanges # None => a \in p.allowedRanges)
           /\ answers = {conn[c].to} =>
                /\ conn[c].to \notin p.deniedRanges
                /\ p.allowedRanges # None => conn[c].to \in p.allowedRanges
    BY DEF ConnectionsFollowPolicy
  <2> DEFINE p == setup[conn[c].job].policy
             host == conn[c].host
             answers == Answers(host)
  <2>1. host \in Hosts /\ Admitted(p, host) /\ conn[c].to \in answers
    BY DEF ConnInv, ConnState, Connecting
  <2>a. \A q : MatchDomain(host, q) => Means(q, host) \/ IsBaseOf(q, host)
    BY DEF MatchDomain, Means, IsBaseOf, IsStrictSuffix
  <2>b. \A q : Means(q, host) => MatchDomain(host, q)
    BY DEF MatchDomain, Means, IsStrictSuffix
  <2>2. CASE AutoAllows(host)
    BY <2>a, <2>2 DEF AutoAllows, MatchAny
  <2>3. CASE host \in Addresses /\ p.rawIp /\ AddressAllowed(p, host)
    BY <2>1, <2>3, HostsAssumption DEF AddressAllowed, Answers
  <2>4. CASE /\ host \notin Addresses /\ NameAllowed(p, host)
             /\ HasRanges(p) => \E a \in Resolves[host] : AddressAllowed(p, a)
    <3>1. host \in Names /\ answers = Resolves[host]
      BY <2>1, <2>4 DEF Hosts, Answers
    <3>2. \E a \in answers : AddressAllowed(p, a)
      BY <2>1, <2>4, <3>1 DEF HasRanges, AddressAllowed
    <3> QED
      BY <2>1, <2>4, <2>a, <2>b, <3>1, <3>2
         DEF NameAllowed, MatchAny, AddressAllowed, Answers
  <2> QED
    BY <2>1, <2>2, <2>3, <2>4 DEF Admitted
<1> QED
  BY ConnInvariant, <1>1, PTL

LEMMA UpdatesBounded == Spec => [](updates \in 0..MaxUpdates)
<1>1. Init => updates \in 0..MaxUpdates
  BY BoundAssumption DEF Init
<1>2. updates \in 0..MaxUpdates /\ [Next]_vars => (updates \in 0..MaxUpdates)'
  <2> SUFFICES ASSUME updates \in 0..MaxUpdates, [Next]_vars
               PROVE  updates' \in 0..MaxUpdates
    OBVIOUS
  <2>1. ASSUME NEW new \in Profiles, UpdateProfile(new) PROVE updates' \in 0..MaxUpdates
    <3>1. updates < MaxUpdates /\ updates' = updates + 1
      BY <2>1 DEF UpdateProfile
    <3> QED
      BY <3>1, BoundAssumption
  <2>2. ASSUME NEW j \in Jobs, Execute(j) PROVE updates' = updates
    BY <2>2 DEF Execute, PrepareOpen, PrepareIsolated, ProxyFails, ProxyStarted, AgentEnds,
                Finish
  <2>3. ASSUME NEW c \in Conns, Traffic(c) \/ AgentGone(c) PROVE updates' = updates
    BY <2>3 DEF Traffic, AgentGone, Connect, SendRequest, Network
  <2>4. CASE UNCHANGED vars
    BY <2>4 DEF vars
  <2> QED
    BY <2>1, <2>2, <2>3, <2>4 DEF Next
<1> QED
  BY <1>1, <1>2, PTL DEF Spec

\* The state stays well formed; a proxy that listens has a policy, and exactly
\* the connections that relay have relays.
THEOREM TypesHold == Spec => []SetupTypeOK
<1>1. JobInv /\ ConnInv /\ updates \in 0..MaxUpdates => SetupTypeOK
  <2> SUFFICES ASSUME JobInv, ConnInv, updates \in 0..MaxUpdates PROVE SetupTypeOK
    OBVIOUS
  <2>1. ASSUME NEW j \in Jobs
        PROVE  /\ proxy[j].policy \in {p.policy : p \in Profiles} \cup {None}
               /\ proxy[j].listening => proxy[j].policy # None
               /\ setup[j].handler \in {Refused(p) : p \in Profiles} \cup {{}}
               /\ setup[j].granted \subseteq Tools \cup Servers
               /\ scripts[j] \subseteq {"inner", "wrapper"} /\ seen[j] \subseteq Profiles
    <3>1. proxy[j] \in Proxies /\ setup[j] \in Setups
      BY DEF JobInv, JobTypes
    <3>2. proxy[j].listening => proxy[j].policy # None
      BY DEF JobInv, ListensWithPolicy
    <3>3. scripts[j] \subseteq {"inner", "wrapper"} /\ seen[j] \subseteq Profiles
      BY DEF JobInv, JobTypes
    <3> QED
      BY <3>1, <3>2, <3>3 DEF Proxies, Setups, Policies, Denials
  <2>2. ASSUME NEW c \in Conns
        PROVE  /\ conn[c].open \subseteq Ends /\ conn[c].relays \subseteq Ends
               /\ conn[c].at \in {"none", "header", "resolving", "dialing", "tunnel",
                                  "relaying", "closed"}
               /\ conn[c].relays # {} <=> conn[c].at = "relaying"
    <3>1. conn[c] \in Connections /\ ConnState(c)
      BY DEF ConnInv, ConnTypes
    <3> QED
      BY <3>1 DEF Connections, Phases, ConnState
  <2>3. /\ settings \in Settings /\ profile \in Profiles
        /\ stage \in [Jobs -> {"waiting", "binding", "agent", "closing", "done", "failed"}]
    BY DEF JobInv, JobTypes, Stages
  <2> QED
    BY <2>1, <2>2, <2>3 DEF SetupTypeOK
<1> QED
  BY JobInvariant, ConnInvariant, UpdatesBounded, <1>1, PTL

=============================================================================
