---------------------------- MODULE MCAgentStore ----------------------------
(***************************************************************************)
(* Instances of AgentStore for TLC.                                        *)
(***************************************************************************)
EXTENDS AgentStore, TLC

\* Names and prompts are only compared.
AgentSymmetry == Permutations(Names) \cup Permutations(Contents)
=============================================================================
