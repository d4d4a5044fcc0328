------------------------------ MODULE Vector ------------------------------
(***************************************************************************)
(* rtVector: an array of pointers that grows by blocks.  A vector is the   *)
(* record of its array, as long as its capacity, and of the count of the   *)
(* entries in use.                                                         *)
(***************************************************************************)
EXTENDS Naturals, SequencesExt

CONSTANTS
  BlockSize,  \* RTVECT_BLOCKSIZE
  Nothing

ASSUME VectorAssumption == BlockSize \in Nat /\ BlockSize > 1

\* What an array holds where nothing was written, and what is beyond its end.
Junk == "junk"
Outside == "outside"

EmptyVector == [data |-> <<>>, count |-> 0]

Capacity(v) == Len(v.data)

\* The array with room for one more entry: calloc, realloc, or as it is.
Extended(v) ==
  IF v.data = <<>> THEN [k \in 1 .. BlockSize |-> Nothing]
  ELSE IF v.count + 1 >= Capacity(v) THEN v.data \o [k \in 1 .. BlockSize |-> Junk] ELSE v.data

Pushed(v, x) ==
  [data |-> [Extended(v) EXCEPT ![v.count + 1] = x], count |-> v.count + 1]

At(v, k) == IF k \in 1 .. Capacity(v) THEN v.data[k] ELSE Outside

\* The entries after place p move up, with what lies beyond the last one; the rest
\* of the array is cleared.
RemoveEntry(v, p) ==
  [data |-> [k \in 1 .. Capacity(v) |->
               IF k < p THEN v.data[k] ELSE IF k <= v.count THEN At(v, k + 1) ELSE Nothing],
   count |-> v.count - 1]
=============================================================================
