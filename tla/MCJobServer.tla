----------------------------- MODULE MCJobServer -----------------------------
(* The instances of JobServer for liveness: two jobs, without symmetry.     *)
EXTENDS JobServer

CONSTANTS j1, j2
=============================================================================
