----------------------------- MODULE MCAccounts -----------------------------
(***************************************************************************)
(* Instances of Accounts for TLC.                                          *)
(***************************************************************************)
EXTENDS Accounts, TLC

\* Identifiers other than "auto-admin", keys and the names of new profiles are
\* only compared.
AccountSymmetry ==
    Permutations(Clients \ {AutoAdmin}) \cup Permutations(Keys)
        \cup Permutations(CustomProfiles)
=============================================================================
