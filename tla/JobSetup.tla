------------------------------ MODULE JobSetup ------------------------------
(***************************************************************************)
(* How ClaudeRunner._execute prepares a job, runs its agent and clears up: *)
(* the security profile is read, the permission handler copies its denied  *)
(* tools, a network proxy is started when the profile restricts the        *)
(* network, a bubblewrap wrapper script is written, the tools are granted  *)
(* and the agent runs; a finally block stops the proxy and removes the     *)
(* wrapper.  Meanwhile an administrator changes the same profile object in *)
(* place (SecurityProfileManager.update_profile), and the agent uses the   *)
(* proxy (SandboxProxy).                                                   *)
(*                                                                         *)
(* The set-up runs without a suspension, except at the start of the proxy  *)
(* when the event loop is asyncio's own (settings.suspends): uvloop, which *)
(* the image installs, does not suspend there.                             *)
(***************************************************************************)
EXTENDS SandboxProxy

CONSTANTS
  Tools,       \* built-in tools
  Servers,     \* the MCP servers the job loaded
  Profiles,    \* the profiles an administrator may write: denied tools,
               \* allowed MCP servers, network policy
  Settings,    \* the settings a server may have
  Home,        \* the home directory of the user who runs the server
  MaxUpdates   \* bound on profile updates

VARIABLES
  profile,  \* the profile the jobs are assigned
  updates,  \* profile updates made
  stage,    \* stage[j]: where _execute is
  setup,    \* setup[j]: what the job was given
  seen,     \* history: the profiles in force while the job was set up
  scripts   \* scripts[j]: the wrapper scripts in the job's directory

vars == <<settings, proxy, conn, profile, updates, stage, setup, seen, scripts>>

\* What the set-up reads: four switches, whether an upstream proxy is used,
\* the event loop, what the plugin directory holds (AgentStore, SkillStore),
\* and data_dir, a path: a sequence of names from the root.
ASSUME SettingsAssumption ==
  \A s \in Settings :
    /\ DOMAIN s = {"network", "sandbox", "fallback", "upstream", "suspends",
                   "plugin", "data"}
    /\ {s[x] : x \in DOMAIN s \ {"plugin", "data"}} \subseteq BOOLEAN
    /\ s.plugin \subseteq {"agents", "skills"}

\* Paths are sequences of names.  The server does not check where its
\* directories are: /usr is in neither, the home directory is not inside
\* what a sandbox gets of data_dir, and neither is inside a sandbox's file.
ASSUME PathsAssumption ==
  /\ Home \in Seq(STRING)
  /\ \A s \in Settings : s.data \in Seq(STRING)
  /\ \A path \in {Home} \cup {s.data : s \in Settings} :
       /\ ~IsPrefix(path, <<"usr">>)
       /\ \A file \in {"proxy.sock", "sandbox_inner.sh"} :
            ~IsPrefix(<<"tmp", file>>, path)
  /\ \A s \in Settings, dir \in {"jobs", "skills-plugin"} :
       ~IsPrefix(s.data \o <<dir>>, Home)

\* A profile always has a network policy, possibly one without restrictions.
ASSUME ProfilesAssumption == \A p \in Profiles : p.policy # None
ASSUME BoundAssumption == MaxUpdates \in Nat

NoSetup == [handler |-> {}, granted |-> {}, policy |-> None,
            isolated |-> FALSE, sandboxed |-> FALSE]

\* The tools and MCP servers a profile refuses: denied_tools, and what
\* allowed_mcp_servers does not name, unless it is None; and the others.
Refused(p) == p.denied \cup IF p.servers = None THEN {} ELSE Servers \ p.servers

Grants(p) == (Tools \cup Servers) \ Refused(p)

\* has_network_restrictions.
Restricted(p) == \/ p.deniedDomains # {} \/ p.allowedDomains # None
                 \/ HasRanges(p) \/ ~p.rawIp

Isolates(p) == settings.network /\ settings.sandbox /\ Restricted(p)

-----------------------------------------------------------------------------
(* The files of a sandbox: the mounts of _compute_bwrap_args in their      *)
(* order, a later one covering an earlier one.                             *)

InputDir(j) == settings.data \o <<"jobs", j, "input">>
JobDir(j)   == settings.data \o <<"jobs", j>>
PluginDir   == settings.data \o <<"skills-plugin">>

Mount(at, as) == [at |-> at, as |-> as, of |-> at]

\* The private directories, emptied; the directories made on the way to a
\* mount point are empty and left out.
EmptyDirs == <<Mount(Home, "empty"), Mount(<<"root">>, "empty"),
               Mount(<<"tmp">>, "empty"), Mount(settings.data, "empty")>>

\* extra_ro_binds: the plugin directory, if there is a skill; the packages of
\* MCP servers, which are mounted in the same way, are left out.
PluginBind ==
  IF "skills" \in settings.plugin THEN <<Mount(PluginDir, "ro")>> ELSE << >>

\* Mutant: the data directory is hidden last.
BwrapMounts_DataLast(j, isolated) ==
  <<Mount(<< >>, "ro")>> \o PluginBind \o <<Mount(InputDir(j), "rw")>>
    \o EmptyDirs

BwrapMounts(j, isolated) ==
  <<Mount(<< >>, "ro")>> \o EmptyDirs
    \o PluginBind \o <<Mount(InputDir(j), "rw")>>
    \o (IF isolated
        THEN <<[at |-> <<"tmp", "proxy.sock">>, as |-> "rw",
                of |-> JobDir(j) \o <<"proxy.sock">>],
               [at |-> <<"tmp", "sandbox_inner.sh">>, as |-> "ro",
                of |-> JobDir(j) \o <<"sandbox_inner.sh">>]>>
        ELSE << >>)

\* What the sandbox shows at a path: the last mount at or above it.
Shown(mounts, path) ==
  LET above == {i \in DOMAIN mounts : IsPrefix(mounts[i].at, path)}
  IN  mounts[CHOOSE i \in above : \A k \in above : k <= i].as

-----------------------------------------------------------------------------
(* _execute.                                                               *)

Init ==
  /\ settings \in Settings
  /\ proxy = [j \in Jobs |-> NoProxy]
  /\ conn = [c \in Conns |-> NoConn]
  /\ profile \in Profiles
  /\ updates = 0
  /\ stage = [j \in Jobs |-> "waiting"]
  /\ setup = [j \in Jobs |-> NoSetup]
  /\ seen = [j \in Jobs |-> {}]
  /\ scripts = [j \in Jobs |-> {}]

StartAgent_LatePolicy(j, s, sandboxed) ==
  /\ stage' = [stage EXCEPT ![j] = "agent"]
  /\ setup' = [setup EXCEPT ![j] =
       [s EXCEPT !.granted = Grants(profile), !.policy = profile.policy,
                 !.sandboxed = sandboxed]]

\* The agent is started with what has been prepared; tools and MCP servers are
\* read from the profile as it is now, the handler copied what is refused when
\* it was created.
StartAgent(j, s, sandboxed) ==
  /\ stage' = [stage EXCEPT ![j] = "agent"]
  /\ setup' = [setup EXCEPT ![j] =
       [s EXCEPT !.granted = Grants(profile), !.sandboxed = sandboxed]]

Fail(j) == /\ stage' = [stage EXCEPT ![j] = "failed"]
           /\ UNCHANGED setup

\* create_sandbox_wrapper writes the inner script of an isolated job, then
\* the wrapper.
Written(s) == IF s.isolated THEN {"inner", "wrapper"} ELSE {"wrapper"}

WrapFails_Open(j, s) ==
  /\ UNCHANGED scripts
  /\ StartAgent(j, s, FALSE)

\* The wrapper cannot be made: fail closed, unless the fallback is allowed.
\* It fails before a script is written, between two, or as the last is made
\* executable; what was written stays.
WrapFails(j, s) ==
  /\ \E left \in {{}, Written(s) \ {"wrapper"}, Written(s)} :
       scripts' = [scripts EXCEPT ![j] = left]
  /\ IF settings.fallback THEN StartAgent(j, s, FALSE) ELSE Fail(j)

\* The rest of the set-up, from the sandbox to the start of the agent.
Confine(j, s) ==
  \/ /\ ~settings.sandbox
     /\ StartAgent(j, s, FALSE)
     /\ UNCHANGED scripts
  \/ /\ settings.sandbox
     /\ StartAgent(j, s, TRUE)
     /\ scripts' = [scripts EXCEPT ![j] = Written(s)]
  \/ /\ settings.sandbox
     /\ WrapFails(j, s)

\* What is read from the profile at once, before the proxy is started.
FirstRead == [NoSetup EXCEPT !.handler = Refused(profile),
                             !.policy = profile.policy,
                             !.isolated = Isolates(profile.policy)]

\* Tools and policy resolved, no isolation needed: the agent can start.
PrepareOpen(j) ==
  /\ stage[j] = "waiting" /\ ~Isolates(profile.policy)
  /\ seen' = [seen EXCEPT ![j] = {profile}]
  /\ Confine(j, FirstRead)
  /\ UNCHANGED <<settings, proxy, conn, profile, updates>>

\* The proxy is started; asyncio suspends once more after the socket listens.
PrepareIsolated(j) ==
  /\ stage[j] = "waiting" /\ Isolates(profile.policy)
  /\ seen' = [seen EXCEPT ![j] = {profile}]
  /\ StartProxy(j, profile.policy)
  /\ IF settings.suspends
     THEN /\ stage' = [stage EXCEPT ![j] = "binding"]
          /\ setup' = [setup EXCEPT ![j] = FirstRead]
          /\ UNCHANGED scripts
     ELSE Confine(j, FirstRead)
  /\ UNCHANGED <<settings, conn, profile, updates>>

\* An unusable upstream proxy setting or socket: the job is refused.
ProxyFails(j) ==
  /\ stage[j] = "waiting" /\ Isolates(profile.policy)
  /\ Fail(j)
  /\ UNCHANGED <<settings, proxy, conn, profile, updates, seen, scripts>>

\* start_proxy returns.
ProxyStarted(j) ==
  /\ stage[j] = "binding"
  /\ Confine(j, setup[j])
  /\ UNCHANGED <<settings, proxy, conn, profile, updates, seen>>

AgentEnds_Listening(j) ==
  /\ stage[j] = "agent"
  /\ stage' = [stage EXCEPT ![j] = "closing"]
  /\ UNCHANGED <<settings, proxy, conn, profile, updates, setup, seen, scripts>>

\* The agent ends, in whatever way; the finally block closes the listener.
AgentEnds(j) ==
  /\ stage[j] = "agent"
  /\ stage' = [stage EXCEPT ![j] = "closing"]
  /\ StopProxy(j)
  /\ UNCHANGED <<settings, conn, profile, updates, setup, seen, scripts>>

\* asyncio's wait_closed waits for the connections, uvloop's does not; then
\* the wrapper is removed.  The inner script is not.
Finish(j) ==
  /\ stage[j] = "closing"
  /\ ~settings.suspends \/ Connected(j) = {}
  /\ stage' = [stage EXCEPT ![j] = "done"]
  /\ scripts' = [scripts EXCEPT ![j] =
                   IF setup[j].sandboxed THEN @ \ {"wrapper"} ELSE @]
  /\ UNCHANGED <<settings, proxy, conn, profile, updates, setup, seen>>

\* update_profile: each field that was sent is assigned to the shared object,
\* the policy as a new object.
UpdateProfile(new) ==
  /\ updates < MaxUpdates /\ new # profile
  /\ profile' = new /\ updates' = updates + 1
  /\ seen' = [j \in Jobs |-> IF stage[j] = "binding" THEN seen[j] \cup {new}
                                                     ELSE seen[j]]
  /\ UNCHANGED <<settings, proxy, conn, stage, setup, scripts>>

-----------------------------------------------------------------------------
(* The agent's connections.  Its processes reach the proxy only through    *)
(* the socket mounted in an isolated sandbox, and die with the sandbox.    *)

Network(c, step) ==
  step /\ UNCHANGED <<settings, proxy, profile, updates, stage, setup, seen,
                      scripts>>

Connect(c, j) ==
  /\ stage[j] = "agent" /\ setup[j].sandboxed /\ setup[j].isolated
  /\ Network(c, Accept(c, j))

SendRequest(c, host, plain) ==
  /\ conn[c].at = "header" /\ stage[conn[c].job] = "agent"
  /\ Network(c, Request(c, host, plain))

\* The connections of an agent that has ended are closed at its end.
AgentGone(c) ==
  /\ conn[c].at \notin {"none", "closed"}
  /\ stage[conn[c].job] \in {"closing", "done"}
  /\ Network(c, EndCloses(c, "client"))

Traffic(c) ==
  \/ \E j \in Jobs : Connect(c, j)
  \/ \E host \in Hosts, plain \in BOOLEAN : SendRequest(c, host, plain)
  \/ Network(c, Serve(c))
  \/ \E e \in Ends : Network(c, RelayBreaks(c, e)) \/ Network(c, EndCloses(c, e))

Execute(j) ==
  \/ PrepareOpen(j) \/ PrepareIsolated(j) \/ ProxyFails(j) \/ ProxyStarted(j)
  \/ AgentEnds(j)
  \/ Finish(j)

Next ==
  \/ \E j \in Jobs : Execute(j)
  \/ \E new \in Profiles : UpdateProfile(new)
  \/ \E c \in Conns : Traffic(c) \/ AgentGone(c)

Spec == Init /\ [][Next]_vars

\* The event loop runs what is ready, its timeouts expire, a killed sandbox's
\* sockets close.  An agent need not end, and nobody need send or close.
Fairness ==
  /\ \A j \in Jobs : WF_vars(ProxyStarted(j)) /\ WF_vars(Finish(j))
  /\ \A c \in Conns : WF_vars(Network(c, Serve(c))) /\ WF_vars(AgentGone(c))

FairSpec == Spec /\ Fairness

-----------------------------------------------------------------------------
(* Properties.                                                             *)

\* The state is well formed: a policy belongs to a profile, an open relay to
\* a connection that has been connected upstream.
SetupTypeOK ==
  /\ settings \in Settings /\ profile \in Profiles /\ updates \in 0..MaxUpdates
  /\ stage \in [Jobs -> {"waiting", "binding", "agent", "closing", "done", "failed"}]
  /\ \A j \in Jobs :
       /\ proxy[j].policy \in {p.policy : p \in Profiles} \cup {None}
       /\ proxy[j].listening => proxy[j].policy # None
       /\ setup[j].handler \in {Refused(p) : p \in Profiles} \cup {{}}
       /\ setup[j].granted \subseteq Tools \cup Servers
       /\ scripts[j] \subseteq {"inner", "wrapper"} /\ seen[j] \subseteq Profiles
  /\ \A c \in Conns :
       /\ conn[c].open \subseteq Ends /\ conn[c].relays \subseteq Ends
       /\ conn[c].at \in {"none", "header", "resolving", "dialing", "tunnel",
                          "relaying", "closed"}
       /\ conn[c].relays # {} <=> conn[c].at = "relaying"

\* A profile that restricts the network is enforced by a sandbox and by a
\* proxy of the job's own with that profile's policy, or no agent runs
\* (docs/security-model.md:185), unless isolation is switched off or the
\* fallback is allowed.
RunsIsolated(j) ==
  /\ setup[j].sandboxed /\ setup[j].isolated
  /\ proxy[j].listening /\ proxy[j].policy = setup[j].policy

\* A listening proxy is one of a job that starts or runs, or of a job whose
\* sandbox failed: claude_runner.py:583 raises before the finally block that
\* would have stopped it.
ListensForAJob(j) ==
  stage[j] \in {"binding", "agent"} \/ (stage[j] = "failed" /\ ~settings.fallback)

\* A sandbox shows the job's input for writing, skills read-only, and nothing
\* else of the data directory or of the home directory.
SeesItsOwnFiles(j) ==
  LET At(path) == Shown(BwrapMounts(j, setup[j].isolated), path)
  IN  /\ At(InputDir(j) \o <<"file">>) = "rw"
      /\ "skills" \in settings.plugin => At(PluginDir \o <<"skills">>) = "ro"
      /\ At(<<"usr">>) = "ro"
      /\ At(settings.data \o <<"auth">>) = "empty"
      /\ At(JobDir(j) \o <<"status.json">>) = "empty"
      /\ At(Home \o <<".ssh">>) = "empty"
      /\ \A k \in Jobs \ {j} : At(InputDir(k)) = "empty"

\* Which holds whatever fails on the way; an agent that has ended leaves no
\* wrapper script.
JobsAreContained ==
  \A j \in Jobs :
    /\ stage[j] = "agent" /\ Isolates(setup[j].policy) /\ ~settings.fallback
       => RunsIsolated(j)
    /\ proxy[j].listening => ListensForAJob(j)
    /\ stage[j] = "done" /\ setup[j].sandboxed => "wrapper" \notin scripts[j]

\* Agents are confined as their profile and the settings demand, whatever
\* fails on the way and whoever changes the profile meanwhile.
AgentsAreConfined ==
  /\ JobsAreContained
  /\ \A j \in Jobs : stage[j] = "agent" /\ setup[j].sandboxed => SeesItsOwnFiles(j)

\* What an agent is given comes from one profile that was in force when the
\* job was set up (docs/security-model.md:73), with uvloop; with asyncio's
\* own loop, where the set-up suspends, the tools and MCP servers granted may
\* come from a later profile than the handler and the policy
\* (claude_runner.py:606).
GrantsComeFromOneProfile ==
  \A j \in Jobs : stage[j] \in {"agent", "closing", "done"} =>
    \E first \in seen[j] :
      /\ setup[j].handler = Refused(first) /\ setup[j].policy = first.policy
      /\ \E last \in IF settings.suspends THEN seen[j] ELSE {first} :
           setup[j].granted = Grants(last)

\* What a pattern means by the docstring of _match_domain_pattern
\* (sandbox_proxy.py:300-304): "*.x" the names under x, "but NOT" x itself.
Means(pattern, name) ==
  IF pattern.wild THEN IsStrictSuffix(pattern.name, name) ELSE name = pattern.name

\* The code, and tests/tests/test_12_network_isolation.py:56, take x too.
IsBaseOf(pattern, name) == pattern.wild /\ name = pattern.name

\* A connection is relayed only to a host the job's policy admits, read as a
\* whole and not in the order of evaluate_policy, its patterns as they are
\* documented but for the base domain of a wildcard that allows; to an address
\* in its ranges when the name has a single address (a name that has several
\* is looked up again to connect, sandbox_proxy.py:656).
ConnectionsFollowPolicy ==
  \A c \in Conns : conn[c].at = "relaying" =>
    LET p    == setup[conn[c].job].policy
        host == conn[c].host
        named(patterns) == \E q \in patterns : Means(q, host) \/ IsBaseOf(q, host)
        answers == IF host \in Names THEN Resolves[host] ELSE {host}
    IN  \/ host \in Names /\ named(AutoAllowed)
        \/ /\ host \in Addresses => p.rawIp
           /\ host \in Names =>
                /\ \A q \in p.deniedDomains : ~Means(q, host)
                /\ p.allowedDomains # None => named(p.allowedDomains)
           /\ \E a \in answers : a \notin p.deniedRanges
                                 /\ (p.allowedRanges # None => a \in p.allowedRanges)
           /\ answers = {conn[c].to} =>
                /\ conn[c].to \notin p.deniedRanges
                /\ p.allowedRanges # None => conn[c].to \in p.allowedRanges

\* The plugin directory is attached when it holds agents or skills.
Attached == settings.plugin # {}

\* An agent whose options name the plugin directory finds its subagents there
\* (docs/security-model.md:152): the sandbox shows the directory.
AttachedPluginIsShown ==
  \A j \in Jobs : stage[j] = "agent" /\ setup[j].sandboxed /\ Attached =>
    Shown(BwrapMounts(j, setup[j].isolated), PluginDir \o <<"agents">>) = "ro"

\* Once an agent has ended, its job's clean-up and its connections end, also
\* when the far end never closes: a relay that ends closes the other side.
\* The far end is assumed to take what is written to it.
ConnectionsEnd ==
  \A j \in Jobs : stage[j] = "closing" ~> (stage[j] = "done" /\ Connected(j) = {})
=============================================================================
