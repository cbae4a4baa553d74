---------------------------- MODULE ServerCatalog ----------------------------
(***************************************************************************)
(* What administrators expect of the registry of MCP servers: a request    *)
(* changes the one server it names, an existing server is never replaced,  *)
(* and only a save that fails or is cut off loses the registered servers.  *)
(***************************************************************************)
CONSTANTS
    Names,          \* names of servers
    Descriptors,    \* what can be registered under a name
    NoServer

VARIABLE servers    \* [Names -> descriptor or NoServer]

Init == servers = [n \in Names |-> NoServer]

Add(n, d) ==
    /\ servers[n] = NoServer
    /\ servers' = [servers EXCEPT ![n] = d]

Remove(n) ==
    /\ servers[n] # NoServer
    /\ servers' = [servers EXCEPT ![n] = NoServer]

LoseAll == servers' = [n \in Names |-> NoServer]

Change == \E n \in Names : Remove(n) \/ \E d \in Descriptors : Add(n, d)

Next == Change \/ LoseAll

Spec == Init /\ [][Next]_servers
=============================================================================
