---------------------------- MODULE Dictionary ----------------------------
(***************************************************************************)
(* What a map promises: a key has the value it was last set to, until it   *)
(* is removed.                                                             *)
(***************************************************************************)
CONSTANTS Key, Value, Nothing

VARIABLE value

Init == value = [k \in Key |-> Nothing]

Set(k, v) == value' = [value EXCEPT ![k] = v]

Remove(k) == value[k] # Nothing /\ value' = [value EXCEPT ![k] = Nothing]

Clear == value' = [k \in Key |-> Nothing]

Next ==
  \/ \E k \in Key, v \in Value : Set(k, v)
  \/ \E k \in Key : Remove(k)
  \/ Clear

Spec == Init /\ [][Next]_value
=============================================================================
