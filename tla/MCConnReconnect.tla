-------------------------- MODULE MCConnReconnect --------------------------
(* Instances of ConnReconnect for TLC.                                     *)
EXTENDS ConnReconnect, TLC

Symmetry == Permutations(Senders)
=============================================================================
