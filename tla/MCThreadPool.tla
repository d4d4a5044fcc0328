---------------------------- MODULE MCThreadPool ----------------------------
(* Instances of ThreadPool for TLC.                                        *)
EXTENDS ThreadPool, TLC

Symmetry == Permutations(Threads) \cup Permutations(Tasks)
=============================================================================
