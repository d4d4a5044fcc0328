--------------------------- MODULE MCConnRequest ---------------------------
(* Instances of ConnRequest for TLC.                                       *)
EXTENDS ConnRequest, TLC

Symmetry == Permutations(Callers) \cup Permutations(Responders)
=============================================================================
