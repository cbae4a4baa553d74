----------------------------- MODULE MCJobOrder -----------------------------
(* Model-checking instance of JobOrder: symmetry over the job names.         *)
EXTENDS JobOrder, TLC

JobSymmetry == Permutations(Jobs)
=============================================================================
