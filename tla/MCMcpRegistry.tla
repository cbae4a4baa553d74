--------------------------- MODULE MCMcpRegistry ---------------------------
(***************************************************************************)
(* Instances of McpRegistry for TLC.                                       *)
(***************************************************************************)
EXTENDS McpRegistry, TLC

\* Requests are only compared with each other.
RequestSymmetry == Permutations(Requests)
=============================================================================
