---------------------------- MODULE SandboxProxy ----------------------------
(***************************************************************************)
(* The network proxy of a sandboxed job (sandbox_proxy.py): one listener   *)
(* on a Unix socket in the job's directory, and the connections the job's  *)
(* processes make through it.  A request names a host; the policy the      *)
(* proxy was started with is evaluated in the order of evaluate_policy,    *)
(* possibly with a DNS lookup in between; an admitted request is connected *)
(* upstream, directly or through the configured HTTP proxy, and relayed    *)
(* in both directions until both relays have ended.                        *)
(*                                                                         *)
(* Names are sequences of labels, most specific first; an address range is *)
(* the set of its addresses.  The DNS and the peers are external.          *)
(***************************************************************************)
EXTENDS FiniteSets, SequencesExt

CONSTANTS
  Jobs,        \* job ids
  Conns,       \* connections that may be made
  Names,       \* host names (sequences of labels)
  Addresses,   \* IP addresses, which are hosts too
  Resolves,    \* the answers DNS may give: [Names -> SUBSET Addresses]
  AutoAllowed, \* patterns of autoallowed_domains
  None         \* the None of allowed_domains and allowed_ip_ranges

ASSUME HostsAssumption ==
  Names \cap Addresses = {} /\ Resolves \in [Names -> SUBSET Addresses]

VARIABLES
  settings, \* the server's settings (see JobSetup): upstream is read here
  proxy,    \* proxy[j]: the job's proxy object: listening, and its policy
  conn      \* conn[c]: a connection and the phase its handler is in

Hosts == Names \cup Addresses

Ends == {"client", "upstream"}

Other(e) == IF e = "client" THEN "upstream" ELSE "client"

NoConn == [at |-> "none", job |-> None, host |-> None, plain |-> FALSE,
           to |-> None, open |-> {}, relays |-> {}]

Closed(c) == [NoConn EXCEPT !.at = "closed", !.job = conn[c].job]

-----------------------------------------------------------------------------
(* evaluate_policy and the helpers it calls.                               *)

\* A pattern "*.x" matches x and every name under it, any other only itself.
\* The docstring (sandbox_proxy.py:303-304) says that it does not match x.
MatchDomain(name, pattern) ==
  IF pattern.wild THEN IsSuffix(pattern.name, name) ELSE name = pattern.name

MatchAny(name, patterns) == \E p \in patterns : MatchDomain(name, p)

AutoAllows(host) == host \in Names /\ MatchAny(host, AutoAllowed)

NameAllowed_AllowFirst(p, name) ==
  p.allowedDomains = None \/ MatchAny(name, p.allowedDomains)

NameAllowed(p, name) ==
  /\ ~MatchAny(name, p.deniedDomains)
  /\ p.allowedDomains = None \/ MatchAny(name, p.allowedDomains)

HasRanges(p) == p.deniedRanges # {} \/ p.allowedRanges # None

AddressAllowed(p, a) ==
  /\ a \notin p.deniedRanges
  /\ p.allowedRanges = None \/ a \in p.allowedRanges

\* What is known before any lookup: admit, refuse, or resolve the name.
FirstCheck(p, host) ==
  CASE AutoAllows(host)                            -> "admit"
    [] ~AutoAllows(host) /\ host \in Addresses     ->
         IF p.rawIp /\ AddressAllowed(p, host) THEN "admit" ELSE "refuse"
    [] ~AutoAllows(host) /\ host \notin Addresses  ->
         IF ~NameAllowed(p, host) THEN "refuse"
         ELSE IF HasRanges(p) THEN "resolve" ELSE "admit"

-----------------------------------------------------------------------------
(* A connection.  Each step runs from one suspension of the handler to the *)
(* next.                                                                   *)

Accept(c, j) ==
  /\ conn[c].at = "none" /\ proxy[j].listening
  /\ conn' = [conn EXCEPT ![c] = [NoConn EXCEPT !.at = "header", !.job = j,
                                                !.open = {"client"}]]

\* _process_request up to the first suspension of the handler it selects.
Request(c, host, plain) ==
  LET answer == FirstCheck(proxy[conn[c].job].policy, host)
      read   == [conn[c] EXCEPT !.host = host, !.plain = plain]
  IN  /\ conn[c].at = "header" /\ "client" \in conn[c].open
      /\ conn' = [conn EXCEPT ![c] =
           CASE answer = "refuse"  -> Closed(c)
             [] answer = "admit"   -> [read EXCEPT !.at = "dialing"]
             [] answer = "resolve" -> [read EXCEPT !.at = "resolving"]]

\* 400: an incomplete or unsupported request, or none within 30 seconds.
BadRequest(c) ==
  /\ conn[c].at = "header"
  /\ conn' = [conn EXCEPT ![c] = Closed(c)]

\* The first address of the answer is checked, and then forgotten.
Resolve(c) ==
  /\ conn[c].at = "resolving"
  /\ \E a \in Resolves[conn[c].host] :
       conn' = [conn EXCEPT ![c] =
                  IF AddressAllowed(proxy[conn[c].job].policy, a)
                  THEN [conn[c] EXCEPT !.at = "dialing"] ELSE Closed(c)]

\* No answer, an error, or ten seconds: 403.
ResolveFails(c) ==
  /\ conn[c].at = "resolving"
  /\ conn' = [conn EXCEPT ![c] = Closed(c)]

\* Both handlers connect by host name, so a name is looked up once more.  A
\* CONNECT through an upstream proxy has to wait for that proxy's answer.
Dial(c) ==
  /\ conn[c].at = "dialing"
  /\ \E a \in IF conn[c].host \in Names THEN Resolves[conn[c].host]
                                        ELSE {conn[c].host} :
       conn' = [conn EXCEPT
                  ![c].at = IF settings.upstream /\ ~conn[c].plain
                            THEN "tunnel" ELSE "relaying",
                  ![c].to = a, ![c].plain = FALSE,
                  ![c].open = @ \cup {"upstream"},
                  ![c].relays = IF settings.upstream /\ ~conn[c].plain
                                THEN {} ELSE Ends]

\* The upstream proxy answered 200.
TunnelOpens(c) ==
  /\ conn[c].at = "tunnel"
  /\ conn' = [conn EXCEPT ![c].at = "relaying", ![c].relays = Ends]

\* 502: refused, timed out, or any other answer of the upstream proxy, whose
\* connection is closed.
DialFails(c) ==
  /\ conn[c].at \in {"dialing", "tunnel"}
  /\ conn' = [conn EXCEPT ![c] = Closed(c)]

RelayLeaves_Open(c, e) == [conn[c] EXCEPT !.relays = @ \ {e}]

\* A relay reads end e and writes to the other one, which it closes when it
\* ends; the handler returns when both have ended.
RelayLeaves(c, e) ==
  [conn[c] EXCEPT !.relays = @ \ {e}, !.open = @ \ {Other(e)}]

RelayEnds_Stays(c, e) ==
  /\ e \in conn[c].relays
  /\ conn' = [conn EXCEPT ![c] = RelayLeaves(c, e)]

RelayEnds(c, e) ==
  /\ e \in conn[c].relays
  /\ conn' = [conn EXCEPT ![c] = IF conn[c].relays = {e} THEN Closed(c)
                                 ELSE RelayLeaves(c, e)]

\* The end that is read has been closed.
RelaySeesEnd(c, e) == e \notin conn[c].open /\ RelayEnds(c, e)

\* The end that is written to has been closed, and something was written.
RelayBreaks(c, e) == Other(e) \notin conn[c].open /\ RelayEnds(c, e)

\* Either party closes its connection.
EndCloses(c, e) ==
  /\ e \in conn[c].open
  /\ conn' = [conn EXCEPT ![c].open = @ \ {e}]

\* What the event loop and its timeouts do for a connection by themselves.
Serve(c) ==
  \/ BadRequest(c)
  \/ Resolve(c) \/ ResolveFails(c)
  \/ Dial(c) \/ TunnelOpens(c) \/ DialFails(c)
  \/ \E e \in Ends : RelaySeesEnd(c, e)

-----------------------------------------------------------------------------
(* ProxyManager.start_proxy and stop_proxy.                                *)

NoProxy == [listening |-> FALSE, policy |-> None]

StartProxy(j, p) ==
  proxy' = [proxy EXCEPT ![j] = [listening |-> TRUE, policy |-> p]]

\* Only the listening socket is closed: connections stay with their handlers.
StopProxy(j) == proxy' = [proxy EXCEPT ![j].listening = FALSE]

Connected(j) == {c \in Conns : conn[c].job = j /\ conn[c].at # "closed"}
=============================================================================
