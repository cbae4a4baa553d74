----------------------------- MODULE KeyRegistry -----------------------------
(***************************************************************************)
(* What the accounts promise about an API key, whatever administrators do  *)
(* and however often the server restarts: a key is generated once, may be  *)
(* suspended and resumed, and is revoked for good.  One request changes    *)
(* one key.                                                                *)
(***************************************************************************)
CONSTANT Keys           \* the API keys that can be generated

VARIABLE state          \* state[k]: what the key is good for

\* "valid": authenticates its client; "suspended": of an inactive account.
States == {"new", "valid", "suspended", "revoked"}

Init == state = [k \in Keys |-> "new"]

Issue(k) ==
    /\ state[k] = "new"
    /\ state' = [state EXCEPT ![k] = "valid"]

Suspend(k) ==
    /\ state[k] = "valid"
    /\ state' = [state EXCEPT ![k] = "suspended"]

Resume(k) ==
    /\ state[k] = "suspended"
    /\ state' = [state EXCEPT ![k] = "valid"]

Revoke(k) ==
    /\ state[k] \in {"valid", "suspended"}
    /\ state' = [state EXCEPT ![k] = "revoked"]

Next == \E k \in Keys : Issue(k) \/ Suspend(k) \/ Resume(k) \/ Revoke(k)

Spec == Init /\ [][Next]_state
=============================================================================
