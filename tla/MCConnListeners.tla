-------------------------- MODULE MCConnListeners --------------------------
(* Instances of ConnListeners for TLC.                                     *)
EXTENDS ConnListeners

CONSTANTS a1, a2, x1, x2

MCApps == {a1, a2}
MCExprs == {x1, x2}
=============================================================================
