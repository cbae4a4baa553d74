----------------------------- MODULE MCJobSetup -----------------------------
(* A small instance: two jobs, one connection, three names under two       *)
(* domains, two addresses, and policies of every kind.                     *)
EXTENDS JobSetup

CONSTANTS a1, a2

Org == <<"org">>
Pkg == <<"pkg", "org">>
Api == <<"api">>

MCNames == {Org, Pkg, Api}

\* org has two addresses, so a lookup may answer differently each time.
MCResolves == [n \in MCNames |-> IF n = Org THEN {a1, a2} ELSE {a2}]

Exact(n) == [wild |-> FALSE, name |-> n]
Under(n) == [wild |-> TRUE, name |-> n]

MCAutoAllowed == {Exact(Api)}

Open == [deniedDomains |-> {}, allowedDomains |-> None, deniedRanges |-> {},
         allowedRanges |-> None, rawIp |-> TRUE]

\* Domains allowed with an exception, one address denied; the base domain of
\* the wildcard, Org, is one of the names.
Strict == [deniedDomains |-> {Exact(Pkg)}, allowedDomains |-> {Under(Org)},
           deniedRanges |-> {a1}, allowedRanges |-> None, rawIp |-> FALSE]

\* Only a range.
Ranged == [Open EXCEPT !.allowedRanges = {a2}]

\* A server that is not loaded may be allowed.
MCProfiles == {[denied |-> {}, servers |-> None, policy |-> Strict],
               [denied |-> {"Bash"}, servers |-> {"github", "gone"}, policy |-> Ranged],
               [denied |-> {}, servers |-> {}, policy |-> Open]}

\* The event loop suspends or not; isolation on, with and without fallback,
\* or off in each of its two ways; data_dir beside, under and above the
\* directories that are emptied; with skills, with agents alone, or without.
Usual == [network |-> TRUE, sandbox |-> TRUE, fallback |-> FALSE,
          upstream |-> FALSE, suspends |-> FALSE,
          plugin |-> {"agents", "skills"}, data |-> <<"data">>]

MCSettings ==
  {Usual,
   [Usual EXCEPT !.suspends = TRUE, !.upstream = TRUE,
                 !.plugin = {"agents"},
                 !.data = <<"home", "ccas", "data">>],
   [Usual EXCEPT !.fallback = TRUE, !.suspends = TRUE, !.plugin = {"skills"},
                 !.data = <<"home">>],
   [Usual EXCEPT !.network = FALSE, !.data = <<"tmp", "data">>],
   [Usual EXCEPT !.sandbox = FALSE, !.plugin = {}]}

MCHome == <<"home", "ccas">>
=============================================================================
