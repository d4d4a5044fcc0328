----------------------------- MODULE Data_proofs -----------------------------
(***************************************************************************)
(* Proofs about List, HashMap and Codec.                                   *)
(*                                                                         *)
(* List, for any set of items and of objects and any length: after every   *)
(* call, and at each step of the loops, next and prev stand for the        *)
(* sequence of items, what is not in it is on the free chain, searches are *)
(* right about what they have passed, and objects are owned once.          *)
(* ListCorrect is inductive as it stands.  The four ways to add an item    *)
(* are one step, an item put at a place p, and so are the ways to remove   *)
(* one.                                                                    *)
(*                                                                         *)
(* HashMap, for any keys, values and hash functions, any number of buckets *)
(* to start with and any load factor: through collisions and resizing the  *)
(* buckets hold each node once, in the bucket of its key, and are counted  *)
(* right, and the map implements a dictionary.  A table stands for the set *)
(* of its nodes (Stands); each operation is shown to change that set as it *)
(* should, resizing not at all.                                            *)
(*                                                                         *)
(* Codec, for any inputs within what the functions are called with: what   *)
(* was encoded is decoded to the same, within the memory allocated, and    *)
(* the functions on times agree.  The induction is over the calls made so  *)
(* far: for most inputs one or two (Computed), any number for the headers  *)
(* read into one memory (HeadersKept) and the rounds of a limited wait     *)
(* (StopCounted).  The work is the arithmetic of one group of base64, of   *)
(* one number and of one time, and the places of a header's parts.         *)
(***************************************************************************)
EXTENDS List, HashMap, Codec, Integers, SequenceTheorems, FiniteSetTheorems, NaturalsInduction,
        WellFoundedInduction, TLAPS

-----------------------------------------------------------------------------
(* Sequences with one element more, or less.                               *)

\* t is s with e put at place p.
Inserted(s, t, p, e) ==
  /\ Len(s) \in Nat /\ Len(t) = Len(s) + 1 /\ p \in 1 .. Len(s) + 1
  /\ DOMAIN s = 1 .. Len(s) /\ DOMAIN t = 1 .. Len(s) + 1
  /\ \A j \in 1 .. Len(s) + 1 : t[j] = IF j < p THEN s[j] ELSE IF j = p THEN e ELSE s[j - 1]

\* t is s without what is at place p.
Taken(s, t, p) ==
  /\ Len(s) \in Nat /\ Len(t) = Len(s) - 1 /\ p \in 1 .. Len(s)
  /\ DOMAIN s = 1 .. Len(s) /\ DOMAIN t = 1 .. Len(s) - 1
  /\ \A j \in 1 .. Len(s) - 1 : t[j] = IF j < p THEN s[j] ELSE s[j + 1]

LEMMA InsertedElements ==
  ASSUME NEW s, NEW t, NEW p, NEW e, Inserted(s, t, p, e)
  PROVE  /\ Range(t) = Range(s) \cup {e}
         /\ Injective(s) /\ e \notin Range(s) => Injective(t)
<1> USE DEF Inserted
<1> DEFINE to(j) == IF j < p THEN j ELSE j + 1
<1>1. \A j \in 1 .. Len(s) : to(j) \in 1 .. Len(s) + 1 /\ t[to(j)] = s[j]
  <2> TAKE j \in 1 .. Len(s)
  <2>1. CASE j < p
    BY <2>1
  <2>2. CASE j >= p
    <3>1. j + 1 \in 1 .. Len(s) + 1 /\ ~(j + 1 < p) /\ j + 1 # p /\ j + 1 - 1 = j
      BY <2>2
    <3> QED
      BY <2>2, <3>1
  <2> QED
    BY <2>1, <2>2
<1>2. p \in 1 .. Len(s) + 1 /\ t[p] = e
  OBVIOUS
<1>3. \A k \in 1 .. Len(s) + 1 : k = p \/ \E j \in 1 .. Len(s) : k = to(j)
  <2> TAKE k \in 1 .. Len(s) + 1
  <2>1. CASE k < p
    <3>1. k \in 1 .. Len(s) /\ to(k) = k
      BY <2>1
    <3> QED
      BY <3>1
  <2>2. CASE k > p
    <3>1. k - 1 \in 1 .. Len(s) /\ to(k - 1) = k
      BY <2>2
    <3> QED
      BY <3>1
  <2>3. k < p \/ k > p \/ k = p
    OBVIOUS
  <2> HIDE DEF to
  <2> QED
    BY <2>1, <2>2, <2>3
<1> HIDE DEF to
<1>4. Range(t) = Range(s) \cup {e}
  <2>1. /\ \A x : x \in Range(t) <=> \E k \in 1 .. Len(s) + 1 : t[k] = x
        /\ \A x : x \in Range(s) <=> \E j \in 1 .. Len(s) : s[j] = x
    BY DEF Range
  <2>2. \A x \in Range(t) : x \in Range(s) \cup {e}
    BY <1>1, <1>2, <1>3, <2>1
  <2>3. \A x \in Range(s) \cup {e} : x \in Range(t)
    BY <1>1, <1>2, <2>1
  <2> QED
    BY <2>2, <2>3
<1>5. ASSUME Injective(s), e \notin Range(s) PROVE Injective(t)
  <2>1. \A j \in 1 .. Len(s) : s[j] # e
    BY <1>5 DEF Range
  <2>2. \A j, k \in 1 .. Len(s) : s[j] = s[k] => j = k
    BY <1>5 DEF Injective
  <2>3. ASSUME NEW j \in 1 .. Len(s) + 1, NEW k \in 1 .. Len(s) + 1, t[j] = t[k] PROVE j = k
    <3>1. CASE j = p
      <4>1. ASSUME NEW i \in 1 .. Len(s), k = to(i) PROVE FALSE
        BY <1>1, <1>2, <2>1, <2>3, <3>1, <4>1
      <4> QED
        BY <1>3, <3>1, <4>1
    <3>2. CASE k = p
      <4>1. ASSUME NEW i \in 1 .. Len(s), j = to(i) PROVE FALSE
        BY <1>1, <1>2, <2>1, <2>3, <3>2, <4>1
      <4> QED
        BY <1>3, <3>2, <4>1
    <3>3. ASSUME NEW h \in 1 .. Len(s), NEW i \in 1 .. Len(s), j = to(h), k = to(i) PROVE j = k
      BY <1>1, <2>2, <2>3, <3>3
    <3> QED
      BY <1>3, <3>1, <3>2, <3>3
  <2> QED
    BY <2>3 DEF Injective
<1> QED
  BY <1>4, <1>5

LEMMA TakenElements ==
  ASSUME NEW s, NEW t, NEW p, Taken(s, t, p), Injective(s)
  PROVE  Injective(t) /\ Range(t) = Range(s) \ {s[p]}
<1> USE DEF Taken
<1> DEFINE from(j) == IF j < p THEN j ELSE j + 1
<1>1. \A j \in 1 .. Len(s) - 1 : from(j) \in (1 .. Len(s)) \ {p} /\ t[j] = s[from(j)]
  OBVIOUS
<1>2. \A j, k \in 1 .. Len(s) - 1 : from(j) = from(k) => j = k
  OBVIOUS
<1>3. \A k \in (1 .. Len(s)) \ {p} : \E j \in 1 .. Len(s) - 1 : k = from(j)
  <2> TAKE k \in (1 .. Len(s)) \ {p}
  <2>1. CASE k < p
    <3>1. k \in 1 .. Len(s) - 1 /\ from(k) = k
      BY <2>1
    <3> QED
      BY <3>1
  <2>2. CASE k > p
    <3>1. k - 1 \in 1 .. Len(s) - 1 /\ from(k - 1) = k
      BY <2>2
    <3> QED
      BY <3>1
  <2> QED
    BY <2>1, <2>2
<1> HIDE DEF from
<1>4. \A j, k \in 1 .. Len(s) : s[j] = s[k] => j = k
  BY DEF Injective
<1>5. Injective(t)
  BY <1>1, <1>2, <1>4 DEF Injective
<1>6. Range(t) = Range(s) \ {s[p]}
  <2>1. /\ \A x : x \in Range(t) <=> \E j \in 1 .. Len(s) - 1 : t[j] = x
        /\ \A x : x \in Range(s) <=> \E k \in 1 .. Len(s) : s[k] = x
    BY DEF Range
  <2>2. \A x \in Range(t) : x \in Range(s) \ {s[p]}
    BY <1>1, <1>4, <2>1
  <2>3. \A x \in Range(s) \ {s[p]} : x \in Range(t)
    BY <1>1, <1>3, <2>1
  <2> QED
    BY <2>2, <2>3
<1> QED
  BY <1>5, <1>6

LEMMA Joined ==
  ASSUME NEW T, NEW a \in Seq(T), NEW b \in Seq(T)
  PROVE  /\ a \o b \in Seq(T) /\ Len(a \o b) = Len(a) + Len(b)
         /\ \A j \in 1 .. Len(a) : (a \o b)[j] = a[j]
         /\ \A j \in 1 .. Len(b) : (a \o b)[Len(a) + j] = b[j]
<1>1. /\ a \o b \in Seq(T) /\ Len(a \o b) = Len(a) + Len(b)
      /\ \A j \in 1 .. Len(a) + Len(b) : (a \o b)[j] = IF j <= Len(a) THEN a[j] ELSE b[j - Len(a)]
  BY ConcatProperties
<1>2. Len(a) \in Nat /\ Len(b) \in Nat
  BY LenProperties
<1>3. ASSUME NEW j \in 1 .. Len(a) PROVE (a \o b)[j] = a[j]
  <2>1. j \in 1 .. Len(a) + Len(b) /\ j <= Len(a)
    BY <1>2
  <2> QED
    BY <1>1, <2>1
<1>4. ASSUME NEW j \in 1 .. Len(b) PROVE (a \o b)[Len(a) + j] = b[j]
  <2>1. Len(a) + j \in 1 .. Len(a) + Len(b) /\ ~(Len(a) + j <= Len(a)) /\ Len(a) + j - Len(a) = j
    BY <1>2
  <2> QED
    BY <1>1, <2>1
<1> QED
  BY <1>1, <1>3, <1>4

LEMMA InsertAtInserts ==
  ASSUME NEW S, NEW s \in Seq(S), NEW p \in 1 .. Len(s) + 1, NEW e
  PROVE  Inserted(s, InsertAt(s, p, e), p, e) /\ InsertAt(s, p, e) \in Seq(S \cup {e})
<1> DEFINE T == S \cup {e}
           a == SubSeq(s, 1, p - 1)
           b == SubSeq(s, p, Len(s))
           c == a \o <<e>>
<1>1. Len(s) \in Nat /\ p \in Nat \ {0} /\ DOMAIN s = 1 .. Len(s) /\ s \in Seq(T)
  <2>1. s \in Seq(T)
    BY SeqMonotonic
  <2> QED
    BY <2>1, LenProperties
<1>2. a \in Seq(T) /\ Len(a) = p - 1 /\ \A j \in 1 .. p - 1 : a[j] = s[j]
  BY <1>1, SubSeqProperties
<1>3. b \in Seq(T) /\ Len(b) = Len(s) + 1 - p /\ \A j \in 1 .. Len(s) + 1 - p : b[j] = s[p + j - 1]
  BY <1>1, SubSeqProperties
<1>4. <<e>> \in Seq(T) /\ Len(<<e>>) = 1 /\ <<e>>[1] = e
  OBVIOUS
<1>5. InsertAt(s, p, e) = c \o b
  BY DEF InsertAt
<1>6. p - 1 \in Nat /\ Len(s) + 1 - p \in Nat /\ p - 1 + 1 = p /\ p + (Len(s) + 1 - p) = Len(s) + 1
  BY <1>1
<1> HIDE DEF T, a, b, c
<1>7. /\ c \in Seq(T) /\ Len(c) = p - 1 + 1
      /\ \A j \in 1 .. p - 1 : c[j] = a[j]
      /\ \A j \in 1 .. 1 : c[p - 1 + j] = <<e>>[j]
  <2> DEFINE d == <<e>>
  <2>1. d \in Seq(T) /\ Len(d) = 1
    BY <1>4
  <2> HIDE DEF d
  <2>2. /\ a \o d \in Seq(T) /\ Len(a \o d) = Len(a) + Len(d)
        /\ \A j \in 1 .. Len(a) : (a \o d)[j] = a[j]
        /\ \A j \in 1 .. Len(d) : (a \o d)[Len(a) + j] = d[j]
    <3>1. a \in Seq(T) /\ d \in Seq(T)
      BY <1>2, <2>1
    <3> QED
      BY <3>1, Joined
  <2>3. Len(a) = p - 1
    BY <1>2
  <2>4. /\ a \o d \in Seq(T) /\ Len(a \o d) = p - 1 + 1
        /\ \A j \in 1 .. p - 1 : (a \o d)[j] = a[j]
        /\ \A j \in 1 .. 1 : (a \o d)[p - 1 + j] = d[j]
    BY <2>1, <2>2, <2>3
  <2> QED
    BY <2>4 DEF c, d
<1>8. /\ c \in Seq(T) /\ Len(c) = p
      /\ \A j \in 1 .. p - 1 : c[j] = s[j]
      /\ c[p] = e
  <2>1. c[p - 1 + 1] = <<e>>[1]
    BY <1>7
  <2> QED
    BY <1>2, <1>4, <1>6, <1>7, <2>1
<1>9. /\ c \o b \in Seq(T) /\ Len(c \o b) = p + (Len(s) + 1 - p)
      /\ \A j \in 1 .. p : (c \o b)[j] = c[j]
      /\ \A j \in 1 .. Len(s) + 1 - p : (c \o b)[p + j] = b[j]
  <2>1. /\ c \o b \in Seq(T) /\ Len(c \o b) = Len(c) + Len(b)
        /\ \A j \in 1 .. Len(c) : (c \o b)[j] = c[j]
        /\ \A j \in 1 .. Len(b) : (c \o b)[Len(c) + j] = b[j]
    BY <1>3, <1>8, Joined
  <2>2. Len(c) = p /\ Len(b) = Len(s) + 1 - p
    BY <1>3, <1>8
  <2> QED
    BY <2>1, <2>2
<1>10. ASSUME NEW j \in 1 .. Len(s) + 1
      PROVE  (c \o b)[j] = IF j < p THEN s[j] ELSE IF j = p THEN e ELSE s[j - 1]
  <2>1. CASE j < p
    <3>1. j \in 1 .. p - 1 /\ j \in 1 .. p
      BY <1>1, <2>1
    <3> QED
      BY <1>8, <1>9, <2>1, <3>1
  <2>2. CASE j = p
    <3>1. p \in 1 .. p /\ ~(p < p)
      BY <1>1
    <3> QED
      BY <1>8, <1>9, <2>2, <3>1
  <2>3. CASE j > p
    <3>1. /\ j - p \in 1 .. Len(s) + 1 - p /\ p + (j - p) - 1 = j - 1 /\ p + (j - p) = j
          /\ ~(j < p) /\ j # p
      BY <1>1, <2>3
    <3>2. b[j - p] = s[p + (j - p) - 1] /\ (c \o b)[p + (j - p)] = b[j - p]
      BY <1>3, <1>9, <3>1
    <3> QED
      BY <3>1, <3>2
  <2>4. j < p \/ j = p \/ j > p
    BY <1>1
  <2> QED
    BY <2>1, <2>2, <2>3, <2>4
<1>11. DOMAIN (c \o b) = 1 .. Len(s) + 1
  BY <1>6, <1>9, LenProperties
<1> QED
  BY <1>1, <1>5, <1>6, <1>9, <1>10, <1>11 DEF Inserted, T

LEMMA AppendInserts ==
  ASSUME NEW S, NEW s \in Seq(S), NEW e
  PROVE  Inserted(s, Append(s, e), Len(s) + 1, e) /\ Append(s, e) \in Seq(S \cup {e})
<1> DEFINE T == S \cup {e}
<1>1. s \in Seq(T) /\ e \in T /\ Len(s) \in Nat /\ DOMAIN s = 1 .. Len(s)
  <2>1. s \in Seq(T)
    BY SeqMonotonic
  <2> QED
    BY <2>1, LenProperties
<1> HIDE DEF T
<1>2. /\ Append(s, e) \in Seq(T) /\ Len(Append(s, e)) = Len(s) + 1
      /\ \A j \in 1 .. Len(s) : Append(s, e)[j] = s[j]
      /\ Append(s, e)[Len(s) + 1] = e
  BY <1>1, AppendProperties
<1>3. DOMAIN Append(s, e) = 1 .. Len(s) + 1
  BY <1>2, LenProperties
<1> QED
  BY <1>1, <1>2, <1>3 DEF Inserted, T

LEMMA PrependInserts ==
  ASSUME NEW S, NEW s \in Seq(S), NEW e
  PROVE  Inserted(s, <<e>> \o s, 1, e) /\ <<e>> \o s \in Seq(S \cup {e})
<1> DEFINE T == S \cup {e}
           t == <<e>> \o s
<1>1. s \in Seq(T) /\ Len(s) \in Nat /\ DOMAIN s = 1 .. Len(s)
  <2>1. s \in Seq(T)
    BY SeqMonotonic
  <2> QED
    BY <2>1, LenProperties
<1>2. <<e>> \in Seq(T) /\ Len(<<e>>) = 1 /\ <<e>>[1] = e
  OBVIOUS
<1> HIDE DEF T, t
<1>3. /\ t \in Seq(T) /\ Len(t) = 1 + Len(s)
      /\ \A j \in 1 .. 1 : t[j] = <<e>>[j]
      /\ \A j \in 1 .. Len(s) : t[1 + j] = s[j]
  <2> DEFINE d == <<e>>
  <2>1. d \in Seq(T) /\ Len(d) = 1
    BY <1>2
  <2> HIDE DEF d
  <2>2. /\ d \o s \in Seq(T) /\ Len(d \o s) = Len(d) + Len(s)
        /\ \A j \in 1 .. Len(d) : (d \o s)[j] = d[j]
        /\ \A j \in 1 .. Len(s) : (d \o s)[Len(d) + j] = s[j]
    <3>1. d \in Seq(T) /\ s \in Seq(T)
      BY <1>1, <2>1
    <3> QED
      BY <3>1, Joined
  <2>3. /\ d \o s \in Seq(T) /\ Len(d \o s) = 1 + Len(s)
        /\ \A j \in 1 .. 1 : (d \o s)[j] = d[j]
        /\ \A j \in 1 .. Len(s) : (d \o s)[1 + j] = s[j]
    BY <2>1, <2>2
  <2> QED
    BY <2>3 DEF d, t
<1>4. 1 + Len(s) = Len(s) + 1 /\ 1 \in 1 .. Len(s) + 1
  BY <1>1
<1>5. ASSUME NEW j \in 1 .. Len(s) + 1
      PROVE  t[j] = IF j < 1 THEN s[j] ELSE IF j = 1 THEN e ELSE s[j - 1]
  <2>1. CASE j = 1
    <3>1. ~(1 < 1) /\ t[1] = <<e>>[1]
      BY <1>3
    <3> QED
      BY <1>2, <2>1, <3>1
  <2>2. CASE j # 1
    <3>1. j - 1 \in 1 .. Len(s) /\ 1 + (j - 1) = j /\ ~(j < 1)
      BY <1>1, <2>2
    <3>2. t[1 + (j - 1)] = s[j - 1]
      BY <1>3, <3>1
    <3> QED
      BY <2>2, <3>1, <3>2
  <2> QED
    BY <2>1, <2>2
<1>6. DOMAIN t = 1 .. Len(s) + 1
  BY <1>3, <1>4, LenProperties
<1> QED
  BY <1>1, <1>3, <1>4, <1>5, <1>6 DEF Inserted, T, t

LEMMA RemoveAtTakes ==
  ASSUME NEW S, NEW s \in Seq(S), NEW p \in 1 .. Len(s)
  PROVE  Taken(s, RemoveAt(s, p), p) /\ RemoveAt(s, p) \in Seq(S)
<1> DEFINE a == SubSeq(s, 1, p - 1)
           b == SubSeq(s, p + 1, Len(s))
           t == a \o b
<1>1. Len(s) \in Nat /\ p \in Nat \ {0} /\ DOMAIN s = 1 .. Len(s)
  BY LenProperties
<1>2. a \in Seq(S) /\ Len(a) = p - 1 /\ \A i \in 1 .. p - 1 : a[i] = s[i]
  BY <1>1, SubSeqProperties
<1>3. b \in Seq(S) /\ Len(b) = Len(s) - p /\ \A i \in 1 .. Len(s) - p : b[i] = s[p + i]
  <2>1. /\ b \in Seq(S)
        /\ Len(b) = IF p + 1 <= Len(s) + 1 THEN Len(s) - (p + 1) + 1 ELSE 0
        /\ \A i \in 1 .. Len(s) - (p + 1) + 1 : b[i] = s[p + 1 + i - 1]
    BY <1>1, SubSeqProperties
  <2>2. p + 1 <= Len(s) + 1 /\ Len(s) - (p + 1) + 1 = Len(s) - p
    BY <1>1
  <2>3. ASSUME NEW i \in 1 .. Len(s) - p PROVE b[i] = s[p + i]
    <3>1. p + 1 + i - 1 = p + i
      BY <1>1
    <3> QED
      BY <2>1, <2>2, <3>1
  <2> QED
    BY <2>1, <2>2, <2>3
<1>4. RemoveAt(s, p) = t
  BY DEF RemoveAt
<1>5. p - 1 \in Nat /\ Len(s) - p \in Nat /\ p - 1 + (Len(s) - p) = Len(s) - 1
  BY <1>1
<1> HIDE DEF a, b, t
<1>6. /\ t \in Seq(S) /\ Len(t) = p - 1 + (Len(s) - p)
      /\ \A i \in 1 .. p - 1 : t[i] = a[i]
      /\ \A i \in 1 .. Len(s) - p : t[p - 1 + i] = b[i]
  <2>1. /\ a \o b \in Seq(S) /\ Len(a \o b) = Len(a) + Len(b)
        /\ \A i \in 1 .. Len(a) : (a \o b)[i] = a[i]
        /\ \A i \in 1 .. Len(b) : (a \o b)[Len(a) + i] = b[i]
    <3>1. a \in Seq(S) /\ b \in Seq(S)
      BY <1>2, <1>3
    <3> QED
      BY <3>1, Joined
  <2>2. Len(a) = p - 1 /\ Len(b) = Len(s) - p
    BY <1>2, <1>3
  <2> QED
    BY <2>1, <2>2 DEF t
<1>7. ASSUME NEW i \in 1 .. Len(s) - 1 PROVE t[i] = IF i < p THEN s[i] ELSE s[i + 1]
  <2>1. CASE i < p
    <3>1. i \in 1 .. p - 1
      BY <1>1, <2>1
    <3> QED
      BY <2>1, <3>1, <1>2, <1>6
  <2>2. CASE ~(i < p)
    <3>1. /\ i - (p - 1) \in 1 .. Len(s) - p /\ p + (i - (p - 1)) = i + 1
          /\ p - 1 + (i - (p - 1)) = i
      BY <1>1, <2>2
    <3>2. t[p - 1 + (i - (p - 1))] = b[i - (p - 1)] /\ b[i - (p - 1)] = s[p + (i - (p - 1))]
      BY <1>3, <1>6, <3>1
    <3> QED
      BY <2>2, <3>1, <3>2
  <2> QED
    BY <2>1, <2>2
<1>8. DOMAIN t = 1 .. Len(s) - 1
  BY <1>5, <1>6, LenProperties
<1> QED
  BY <1>1, <1>4, <1>5, <1>6, <1>7, <1>8 DEF Taken

LEMMA TailTakes ==
  ASSUME NEW S, NEW s \in Seq(S), s # <<>>
  PROVE  Taken(s, Tail(s), 1) /\ Tail(s) \in Seq(S) /\ s[1] \in Range(s)
<1>1. Len(s) \in Nat \ {0} /\ DOMAIN s = 1 .. Len(s)
  BY EmptySeq, LenProperties
<1>2. Tail(s) \in Seq(S) /\ Len(Tail(s)) = Len(s) - 1 /\ \A i \in 1 .. Len(Tail(s)) : Tail(s)[i] = s[i + 1]
  BY HeadTailProperties
<1>3. DOMAIN Tail(s) = 1 .. Len(s) - 1
  BY <1>2, LenProperties
<1>4. 1 \in 1 .. Len(s)
  BY <1>1
<1>5. \A j \in 1 .. Len(s) - 1 : Tail(s)[j] = IF j < 1 THEN s[j] ELSE s[j + 1]
  BY <1>1, <1>2
<1> QED
  BY <1>1, <1>2, <1>3, <1>4, <1>5 DEF Taken, Range

LEMMA NarrowSeq ==
  ASSUME NEW S, NEW T, NEW s \in Seq(S), Range(s) \subseteq T
  PROVE  s \in Seq(T)
<1>1. Len(s) \in Nat /\ DOMAIN s = 1 .. Len(s) /\ s = [i \in 1 .. Len(s) |-> s[i]]
  BY LenProperties
<1>2. \A i \in 1 .. Len(s) : s[i] \in T
  BY <1>1 DEF Range
<1> QED
  BY <1>1, <1>2, IsASeq

LEMMA FirstFinal ==
  ASSUME NEW S, NEW s \in Seq(S)
  PROVE  /\ Len(s) \in Nat /\ DOMAIN s = 1 .. Len(s)
         /\ s = <<>> <=> Len(s) = 0
         /\ First(s) = IF Len(s) = 0 THEN Null ELSE s[1]
         /\ Final(s) = IF Len(s) = 0 THEN Null ELSE s[Len(s)]
         /\ \A k \in 1 .. Len(s) : s[k] \in S /\ s[k] \in Range(s)
<1>1. Len(s) \in Nat /\ DOMAIN s = 1 .. Len(s) /\ \A k \in 1 .. Len(s) : s[k] \in S
  BY LenProperties, ElementOfSeq
<1>2. s = <<>> <=> Len(s) = 0
  BY EmptySeq
<1>3. First(s) = IF Len(s) = 0 THEN Null ELSE s[1]
  BY <1>2 DEF First
<1>4. Final(s) = IF Len(s) = 0 THEN Null ELSE s[Len(s)]
  BY <1>2 DEF Final
<1> QED
  BY <1>1, <1>2, <1>3, <1>4 DEF Range

-----------------------------------------------------------------------------
(* Pointers that stand for a sequence.                                     *)

\* nx leads along s, and pv back.
Leads(s, nx) == \A k \in DOMAIN s : nx[s[k]] = IF k = Len(s) THEN Null ELSE s[k + 1]
LeadsBack(s, pv) == \A k \in DOMAIN s : pv[s[k]] = IF k = 1 THEN Null ELSE s[k - 1]

\* The neighbours of what is put at place p of s, or is at that place.
Left(s, p) == IF p = 1 THEN Null ELSE s[p - 1]
Right(s, p) == IF p = Len(s) + 1 THEN Null ELSE s[p]

\* e is linked in at that place: nx and pv become mx and qv.
LinkedIn(s, p, e, nx, pv, mx, qv) ==
  \A i \in Item :
    /\ mx[i] = IF i = Left(s, p) THEN e ELSE IF i = e THEN Right(s, p) ELSE nx[i]
    /\ qv[i] = IF i = Right(s, p) THEN e ELSE IF i = e THEN Left(s, p) ELSE pv[i]

\* The item there is linked out.
UnlinkedFrom(s, p, nx, pv, mx, qv) ==
  \A i \in Range(s) \ {s[p]} :
    /\ mx[i] = IF i = pv[s[p]] THEN nx[s[p]] ELSE nx[i]
    /\ qv[i] = IF i = nx[s[p]] THEN pv[s[p]] ELSE pv[i]

LEMMA LeadsKept ==
  ASSUME NEW s, NEW nx, NEW mx, Leads(s, nx), \A i \in Range(s) : mx[i] = nx[i]
  PROVE  Leads(s, mx)
<1>1. \A k \in DOMAIN s : s[k] \in Range(s)
  BY DEF Range
<1> QED
  BY <1>1 DEF Leads

LEMMA TailLeads ==
  ASSUME NEW s, NEW t, NEW nx, Taken(s, t, 1), Leads(s, nx)
  PROVE  Leads(t, nx) /\ nx[s[1]] = IF Len(t) = 0 THEN Null ELSE t[1]
<1>1. /\ Len(s) \in Nat /\ Len(t) = Len(s) - 1 /\ 1 \in 1 .. Len(s)
      /\ DOMAIN s = 1 .. Len(s) /\ DOMAIN t = 1 .. Len(s) - 1
      /\ \A k \in 1 .. Len(s) : nx[s[k]] = IF k = Len(s) THEN Null ELSE s[k + 1]
  BY DEF Taken, Leads
<1>2. \A j \in 1 .. Len(s) - 1 : t[j] = s[j + 1]
  <2>1. \A j \in 1 .. Len(s) - 1 : ~(j < 1)
    OBVIOUS
  <2> QED
    BY <2>1 DEF Taken
<1>3. ASSUME NEW k \in DOMAIN t PROVE nx[t[k]] = IF k = Len(t) THEN Null ELSE t[k + 1]
  <2>1. k \in 1 .. Len(s) - 1 /\ k + 1 \in 1 .. Len(s) /\ (k = Len(t) <=> k + 1 = Len(s))
    BY <1>1
  <2>2. CASE k = Len(t)
    BY <1>1, <1>2, <2>1, <2>2
  <2>3. CASE k # Len(t)
    <3>1. k + 1 \in 1 .. Len(s) - 1
      BY <1>1, <2>1, <2>3
    <3>2. t[k] = s[k + 1] /\ t[k + 1] = s[k + 1 + 1]
      BY <1>2, <2>1, <3>1
    <3> QED
      BY <1>1, <2>1, <2>3, <3>2
  <2> QED
    BY <2>2, <2>3
<1>4. nx[s[1]] = IF Len(t) = 0 THEN Null ELSE t[1]
  <2>1. CASE Len(s) = 1
    BY <1>1, <2>1
  <2>2. CASE Len(s) # 1
    <3>1. 1 \in 1 .. Len(s) - 1 /\ Len(t) # 0 /\ 1 + 1 = 2
      BY <1>1, <2>2
    <3> QED
      BY <1>1, <1>2, <2>2, <3>1
  <2> QED
    BY <2>1, <2>2
<1> QED
  BY <1>3, <1>4 DEF Leads

LEMMA PrependLeads ==
  ASSUME NEW s, NEW t, NEW e, NEW nx, NEW mx,
         Inserted(s, t, 1, e), Leads(s, nx), \A i \in Range(s) : mx[i] = nx[i],
         mx[e] = IF Len(s) = 0 THEN Null ELSE s[1]
  PROVE  Leads(t, mx) /\ t[1] = e /\ Len(t) # 0
<1>1. /\ Len(s) \in Nat /\ Len(t) = Len(s) + 1
      /\ DOMAIN s = 1 .. Len(s) /\ DOMAIN t = 1 .. Len(s) + 1
  BY DEF Inserted
<1>2. \A k \in 1 .. Len(s) : mx[s[k]] = IF k = Len(s) THEN Null ELSE s[k + 1]
  <2>1. Leads(s, mx)
    BY LeadsKept
  <2> QED
    BY <1>1, <2>1 DEF Leads
<1>3. t[1] = e /\ \A j \in 1 .. Len(s) : t[j + 1] = s[j]
  <2>1. \A j \in 1 .. Len(s) + 1 : t[j] = IF j = 1 THEN e ELSE s[j - 1]
    <3>1. \A j \in 1 .. Len(s) + 1 : ~(j < 1)
      OBVIOUS
    <3> QED
      BY <3>1 DEF Inserted
  <2>2. t[1] = e
    BY <1>1, <2>1
  <2>3. ASSUME NEW j \in 1 .. Len(s) PROVE t[j + 1] = s[j]
    <3>1. j + 1 \in 1 .. Len(s) + 1 /\ j + 1 # 1 /\ j + 1 - 1 = j
      BY <1>1
    <3> QED
      BY <2>1, <3>1
  <2> QED
    BY <2>2, <2>3
<1>4. ASSUME NEW k \in DOMAIN t PROVE mx[t[k]] = IF k = Len(t) THEN Null ELSE t[k + 1]
  <2>1. CASE k = 1
    <3>1. CASE Len(s) = 0
      BY <1>1, <1>3, <2>1, <3>1
    <3>2. CASE Len(s) # 0
      <4>1. 1 \in 1 .. Len(s) /\ k # Len(t)
        BY <1>1, <2>1, <3>2
      <4> QED
        BY <1>3, <2>1, <3>2, <4>1
    <3> QED
      BY <3>1, <3>2
  <2>2. CASE k # 1
    <3> DEFINE j == k - 1
    <3>1. j \in 1 .. Len(s) /\ j + 1 = k /\ (j = Len(s) <=> k = Len(t))
      BY <1>1, <2>2
    <3> HIDE DEF j
    <3>2. mx[t[k]] = IF j = Len(s) THEN Null ELSE s[j + 1]
      BY <1>2, <1>3, <3>1
    <3>3. j # Len(s) => t[k + 1] = s[j + 1]
      <4>1. j # Len(s) => j + 1 \in 1 .. Len(s)
        <5>1. Len(s) \in Nat /\ j \in 1 .. Len(s)
          BY <1>1, <3>1
        <5> QED
          BY <5>1
      <4> QED
        BY <1>3, <3>1, <4>1
    <3> QED
      BY <3>1, <3>2, <3>3
  <2> QED
    BY <2>1, <2>2
<1> QED
  BY <1>1, <1>3, <1>4 DEF Leads

\* An item put between its two neighbours.
LEMMA InsertedLinks ==
  ASSUME NEW s, NEW t, NEW p, NEW e \in Item, NEW nx, NEW pv, NEW mx, NEW qv,
         Inserted(s, t, p, e), Injective(s), e \notin Range(s), Range(s) \subseteq Item,
         Leads(s, nx), LeadsBack(s, pv), LinkedIn(s, p, e, nx, pv, mx, qv)
  PROVE  Leads(t, mx) /\ LeadsBack(t, qv)
<1>1. /\ Len(s) \in Nat /\ Len(t) = Len(s) + 1 /\ p \in Nat /\ 1 <= p /\ p <= Len(s) + 1
      /\ DOMAIN s = 1 .. Len(s) /\ DOMAIN t = 1 .. Len(s) + 1
  BY DEF Inserted
<1>2. /\ \A j \in 1 .. Len(s) + 1 : j < p => t[j] = s[j]
      /\ t[p] = e
      /\ \A j \in 1 .. Len(s) : j >= p => t[j + 1] = s[j]
  <2>1. \A j \in 1 .. Len(s) + 1 : t[j] = IF j < p THEN s[j] ELSE IF j = p THEN e ELSE s[j - 1]
    BY DEF Inserted
  <2>2. p \in 1 .. Len(s) + 1 /\ ~(p < p)
    BY <1>1
  <2>3. ASSUME NEW j \in 1 .. Len(s), j >= p PROVE t[j + 1] = s[j]
    <3>1. j + 1 \in 1 .. Len(s) + 1 /\ ~(j + 1 < p) /\ j + 1 # p /\ j + 1 - 1 = j
      BY <1>1, <2>3
    <3> QED
      BY <2>1, <3>1
  <2> QED
    BY <2>1, <2>2, <2>3
<1>3. \A k \in 1 .. Len(s) :
        /\ s[k] \in Item /\ s[k] # e /\ s[k] # Null
        /\ nx[s[k]] = IF k = Len(s) THEN Null ELSE s[k + 1]
        /\ pv[s[k]] = IF k = 1 THEN Null ELSE s[k - 1]
        /\ \A j \in 1 .. Len(s) : s[j] = s[k] => j = k
  <2> TAKE k \in 1 .. Len(s)
  <2>1. s[k] \in Range(s)
    BY <1>1 DEF Range
  <2>2. s[k] \in Item /\ s[k] # e /\ s[k] # Null
    BY <2>1, ListAssumption
  <2>3. /\ nx[s[k]] = IF k = Len(s) THEN Null ELSE s[k + 1]
        /\ pv[s[k]] = IF k = 1 THEN Null ELSE s[k - 1]
    BY <1>1 DEF Leads, LeadsBack
  <2>4. \A j \in 1 .. Len(s) : s[j] = s[k] => j = k
    BY <1>1 DEF Injective
  <2> QED
    BY <2>2, <2>3, <2>4
<1>4. e # Null /\ e # Left(s, p) /\ e # Right(s, p)
  <2>1. p # 1 => p - 1 \in 1 .. Len(s)
    BY <1>1
  <2>2. p # Len(s) + 1 => p \in 1 .. Len(s)
    BY <1>1
  <2> QED
    BY <1>3, <2>1, <2>2, ListAssumption DEF Left, Right
<1>5. \A k \in 1 .. Len(s) : (s[k] = Left(s, p) <=> k + 1 = p) /\ (s[k] = Right(s, p) <=> k = p)
  <2> TAKE k \in 1 .. Len(s)
  <2>1. s[k] = Left(s, p) <=> k + 1 = p
    <3>1. CASE p = 1
      <4>1. Left(s, p) = Null /\ k + 1 # p
        BY <3>1 DEF Left
      <4> QED
        BY <1>3, <4>1
    <3>2. CASE p # 1
      <4>1. Left(s, p) = s[p - 1] /\ p - 1 \in 1 .. Len(s) /\ (k + 1 = p <=> k = p - 1)
        BY <1>1, <3>2 DEF Left
      <4> QED
        BY <1>3, <4>1
    <3> QED
      BY <3>1, <3>2
  <2>2. s[k] = Right(s, p) <=> k = p
    <3>1. CASE p = Len(s) + 1
      <4>1. Right(s, p) = Null /\ k # p
        BY <1>1, <3>1 DEF Right
      <4> QED
        BY <1>3, <4>1
    <3>2. CASE p # Len(s) + 1
      <4>1. Right(s, p) = s[p] /\ p \in 1 .. Len(s)
        BY <1>1, <3>2 DEF Right
      <4> QED
        BY <1>3, <4>1
    <3> QED
      BY <3>1, <3>2
  <2> QED
    BY <2>1, <2>2
<1>6. /\ mx[e] = Right(s, p) /\ qv[e] = Left(s, p)
      /\ \A k \in 1 .. Len(s) :
           /\ mx[s[k]] = IF k + 1 = p THEN e ELSE IF k = Len(s) THEN Null ELSE s[k + 1]
           /\ qv[s[k]] = IF k = p THEN e ELSE IF k = 1 THEN Null ELSE s[k - 1]
  <2>1. \A i \in Item :
          /\ mx[i] = IF i = Left(s, p) THEN e ELSE IF i = e THEN Right(s, p) ELSE nx[i]
          /\ qv[i] = IF i = Right(s, p) THEN e ELSE IF i = e THEN Left(s, p) ELSE pv[i]
    BY DEF LinkedIn
  <2> QED
    BY <1>3, <1>4, <1>5, <2>1
<1>7. ASSUME NEW k \in DOMAIN t
      PROVE  /\ mx[t[k]] = IF k = Len(t) THEN Null ELSE t[k + 1]
             /\ qv[t[k]] = IF k = 1 THEN Null ELSE t[k - 1]
  <2>1. k \in 1 .. Len(s) + 1 /\ k \in Nat /\ (k < p \/ k = p \/ k > p)
    BY <1>1
  <2>2. CASE k < p
    <3>1. k \in 1 .. Len(s) /\ t[k] = s[k] /\ k # Len(t) /\ k # p
      BY <1>1, <1>2, <2>1, <2>2
    <3>2. t[k + 1] = IF k + 1 = p THEN e ELSE s[k + 1]
      <4>1. k + 1 \in 1 .. Len(s) + 1 /\ (k + 1 = p \/ k + 1 < p)
        BY <1>1, <2>1, <2>2
      <4> QED
        BY <1>2, <4>1
    <3>3. k + 1 # p => k # Len(s)
      BY <1>1, <2>1, <2>2
    <3>4. mx[t[k]] = t[k + 1]
      BY <1>6, <3>1, <3>2, <3>3
    <3>5. k # 1 => t[k - 1] = s[k - 1]
      <4>1. k # 1 => k - 1 \in 1 .. Len(s) + 1 /\ k - 1 < p
        BY <1>1, <2>1, <2>2
      <4> QED
        BY <1>2, <4>1
    <3> QED
      BY <1>6, <3>1, <3>4, <3>5
  <2>3. CASE k = p
    <3>1. t[k] = e
      BY <1>2, <2>3
    <3>2. k # Len(t) => t[k + 1] = s[p]
      <4>1. k # Len(t) => p \in 1 .. Len(s) /\ p >= p
        BY <1>1, <2>3
      <4> QED
        BY <1>2, <2>3, <4>1
    <3>3. k # 1 => t[k - 1] = s[p - 1]
      <4>1. k # 1 => k - 1 \in 1 .. Len(s) + 1 /\ k - 1 < p /\ k - 1 = p - 1
        BY <1>1, <2>3
      <4> QED
        BY <1>2, <4>1
    <3> QED
      BY <1>1, <1>6, <2>3, <3>1, <3>2, <3>3 DEF Left, Right
  <2>4. CASE k > p
    <3> DEFINE j == k - 1
    <3>1. j \in 1 .. Len(s) /\ j + 1 = k /\ k # 1 /\ (k = Len(t) <=> j = Len(s)) /\ j + 1 # p
      BY <1>1, <2>1, <2>4
    <3>2. j >= p /\ t[k] = s[j]
      <4>1. j >= p
        BY <1>1, <2>1, <2>4
      <4> HIDE DEF j
      <4> QED
        BY <1>2, <3>1, <4>1
    <3>3. k # Len(t) => t[k + 1] = s[j + 1]
      <4>1. k # Len(t) => k \in 1 .. Len(s) /\ k >= p
        BY <1>1, <2>1, <2>4
      <4>2. k # Len(t) => t[k + 1] = s[k]
        BY <1>2, <4>1
      <4> HIDE DEF j
      <4> QED
        BY <3>1, <4>2
    <3>4. t[k - 1] = IF j = p THEN e ELSE s[j - 1]
      <4>1. CASE j = p
        BY <1>2, <4>1
      <4>2. CASE j # p
        <5>1. j - 1 \in 1 .. Len(s) /\ j - 1 >= p /\ j - 1 + 1 = k - 1
          BY <1>1, <2>1, <2>4, <4>2
        <5>2. t[j - 1 + 1] = s[j - 1]
          BY <1>2, <5>1
        <5> HIDE DEF j
        <5> QED
          BY <4>2, <5>1, <5>2
      <4> QED
        BY <4>1, <4>2
    <3>5. j = 1 => j = p
      BY <1>1, <2>1, <2>4
    <3> HIDE DEF j
    <3> QED
      BY <1>6, <3>1, <3>2, <3>3, <3>4, <3>5
  <2> QED
    BY <2>1, <2>2, <2>3, <2>4
<1> QED
  BY <1>7 DEF Leads, LeadsBack

LEMMA InsertedEnds ==
  ASSUME NEW s, NEW t, NEW p, NEW e, Inserted(s, t, p, e)
  PROVE  /\ Len(t) # 0
         /\ t[1] = IF p = 1 THEN e ELSE s[1]
         /\ t[Len(t)] = IF p = Len(s) + 1 THEN e ELSE s[Len(s)]
<1>1. /\ Len(s) \in Nat /\ Len(t) = Len(s) + 1 /\ p \in Nat /\ 1 <= p /\ p <= Len(s) + 1
      /\ \A j \in 1 .. Len(s) + 1 : t[j] = IF j < p THEN s[j] ELSE IF j = p THEN e ELSE s[j - 1]
  BY DEF Inserted
<1>2. t[1] = IF p = 1 THEN e ELSE s[1]
  <2>1. 1 \in 1 .. Len(s) + 1 /\ (p = 1 \/ 1 < p) /\ ~(1 < 1)
    BY <1>1
  <2> QED
    BY <1>1, <2>1
<1>3. t[Len(s) + 1] = IF p = Len(s) + 1 THEN e ELSE s[Len(s)]
  <2> DEFINE n == Len(s) + 1
  <2>1. n \in 1 .. Len(s) + 1 /\ ~(n < p) /\ n - 1 = Len(s)
    BY <1>1
  <2>2. t[n] = IF n = p THEN e ELSE s[n - 1]
    BY <1>1, <2>1
  <2> QED
    BY <2>1, <2>2
<1> QED
  BY <1>1, <1>2, <1>3

\* An item taken from between its neighbours, which are then linked to each other.
LEMMA TakenLinks ==
  ASSUME NEW s, NEW t, NEW p, NEW nx, NEW pv, NEW mx, NEW qv,
         Taken(s, t, p), Injective(s), Range(s) \subseteq Item,
         Leads(s, nx), LeadsBack(s, pv), UnlinkedFrom(s, p, nx, pv, mx, qv)
  PROVE  /\ Leads(t, mx) /\ LeadsBack(t, qv)
         /\ (IF Len(t) = 0 THEN Null ELSE t[1]) = IF p = 1 THEN nx[s[p]] ELSE s[1]
         /\ (IF Len(t) = 0 THEN Null ELSE t[Len(t)]) = IF p = Len(s) THEN pv[s[p]] ELSE s[Len(s)]
<1>1. /\ Len(s) \in Nat /\ Len(t) = Len(s) - 1 /\ p \in Nat /\ 1 <= p /\ p <= Len(s)
      /\ DOMAIN s = 1 .. Len(s) /\ DOMAIN t = 1 .. Len(s) - 1
  BY DEF Taken
<1>2. \A j \in 1 .. Len(s) - 1 : (j < p => t[j] = s[j]) /\ (j >= p => t[j] = s[j + 1])
  <2>1. \A j \in 1 .. Len(s) - 1 : j >= p <=> ~(j < p)
    BY <1>1
  <2> QED
    BY <2>1 DEF Taken
<1>3. \A k \in 1 .. Len(s) :
        /\ s[k] \in Range(s) /\ s[k] # Null
        /\ nx[s[k]] = IF k = Len(s) THEN Null ELSE s[k + 1]
        /\ pv[s[k]] = IF k = 1 THEN Null ELSE s[k - 1]
        /\ \A j \in 1 .. Len(s) : s[j] = s[k] => j = k
  <2> TAKE k \in 1 .. Len(s)
  <2>1. s[k] \in Range(s)
    BY <1>1 DEF Range
  <2>2. s[k] # Null
    BY <2>1, ListAssumption
  <2>3. /\ nx[s[k]] = IF k = Len(s) THEN Null ELSE s[k + 1]
        /\ pv[s[k]] = IF k = 1 THEN Null ELSE s[k - 1]
    BY <1>1 DEF Leads, LeadsBack
  <2>4. \A j \in 1 .. Len(s) : s[j] = s[k] => j = k
    BY <1>1 DEF Injective
  <2> QED
    BY <2>1, <2>2, <2>3, <2>4
<1>4. p \in 1 .. Len(s)
  BY <1>1
<1>5. \A k \in 1 .. Len(s) : (s[k] = pv[s[p]] <=> k + 1 = p) /\ (s[k] = nx[s[p]] <=> k = p + 1)
  <2> TAKE k \in 1 .. Len(s)
  <2>1. s[k] = pv[s[p]] <=> k + 1 = p
    <3>1. CASE p = 1
      <4>1. pv[s[p]] = Null /\ k + 1 # p
        BY <1>3, <1>4, <3>1
      <4> QED
        BY <1>3, <4>1
    <3>2. CASE p # 1
      <4>1. pv[s[p]] = s[p - 1] /\ p - 1 \in 1 .. Len(s) /\ (k + 1 = p <=> k = p - 1)
        BY <1>1, <1>3, <1>4, <3>2
      <4> QED
        BY <1>3, <4>1
    <3> QED
      BY <3>1, <3>2
  <2>2. s[k] = nx[s[p]] <=> k = p + 1
    <3>1. CASE p = Len(s)
      <4>1. nx[s[p]] = Null /\ k # p + 1
        BY <1>1, <1>3, <1>4, <3>1
      <4> QED
        BY <1>3, <4>1
    <3>2. CASE p # Len(s)
      <4>1. nx[s[p]] = s[p + 1] /\ p + 1 \in 1 .. Len(s)
        BY <1>1, <1>3, <1>4, <3>2
      <4> QED
        BY <1>3, <4>1
    <3> QED
      BY <3>1, <3>2
  <2> QED
    BY <2>1, <2>2
<1>6. ASSUME NEW k \in 1 .. Len(s), k # p
      PROVE  /\ mx[s[k]] = IF k + 1 = p THEN nx[s[p]] ELSE IF k = Len(s) THEN Null ELSE s[k + 1]
             /\ qv[s[k]] = IF k = p + 1 THEN pv[s[p]] ELSE IF k = 1 THEN Null ELSE s[k - 1]
  <2>1. s[k] \in Range(s) \ {s[p]}
    BY <1>3, <1>4, <1>6
  <2> QED
    BY <1>3, <1>5, <2>1 DEF UnlinkedFrom
<1>7. ASSUME NEW k \in DOMAIN t
      PROVE  /\ mx[t[k]] = IF k = Len(t) THEN Null ELSE t[k + 1]
             /\ qv[t[k]] = IF k = 1 THEN Null ELSE t[k - 1]
  <2>1. k \in 1 .. Len(s) - 1 /\ k \in Nat
    BY <1>1
  <2>2. CASE k < p
    <3>1. k \in 1 .. Len(s) /\ k # p /\ t[k] = s[k] /\ k # p + 1
      BY <1>1, <1>2, <2>1, <2>2
    <3>2. mx[t[k]] = IF k = Len(t) THEN Null ELSE t[k + 1]
      <4>1. CASE k + 1 = p
        <5>1. mx[t[k]] = IF p = Len(s) THEN Null ELSE s[p + 1]
          BY <1>3, <1>4, <1>6, <3>1, <4>1
        <5>2. k = Len(t) <=> p = Len(s)
          BY <1>1, <2>1, <4>1
        <5>3. p # Len(s) => t[p] = s[p + 1]
          <6>1. p # Len(s) => p \in 1 .. Len(s) - 1 /\ p >= p
            BY <1>1
          <6> QED
            BY <1>2, <6>1
        <5> QED
          BY <4>1, <5>1, <5>2, <5>3
      <4>2. CASE k + 1 # p
        <5>1. k + 1 \in 1 .. Len(s) - 1 /\ k + 1 < p /\ k # Len(s) /\ k # Len(t)
          BY <1>1, <2>1, <2>2, <4>2
        <5> QED
          BY <1>2, <1>6, <3>1, <4>2, <5>1
      <4> QED
        BY <4>1, <4>2
    <3>3. qv[t[k]] = IF k = 1 THEN Null ELSE t[k - 1]
      <4>1. k # 1 => k - 1 \in 1 .. Len(s) - 1 /\ k - 1 < p
        BY <1>1, <2>1, <2>2
      <4>2. k # 1 => t[k - 1] = s[k - 1]
        BY <1>2, <4>1
      <4> QED
        BY <1>6, <3>1, <4>2
    <3> QED
      BY <3>2, <3>3
  <2>3. CASE k >= p
    <3>1. PICK j \in 1 .. Len(s) : j = k + 1
      BY <1>1, <2>1
    <3>2. /\ t[k] = s[j] /\ j # p /\ j + 1 # p /\ j # 1
          /\ (k = Len(t) <=> j = Len(s)) /\ (j = p + 1 <=> k = p)
      <4>1. t[k] = s[k + 1]
        BY <1>2, <2>1, <2>3
      <4> QED
        BY <1>1, <2>1, <2>3, <3>1, <4>1
    <3>3. mx[t[k]] = IF k = Len(t) THEN Null ELSE t[k + 1]
      <4>1. mx[t[k]] = IF j = Len(s) THEN Null ELSE s[j + 1]
        BY <1>6, <3>2
      <4>2. j # Len(s) => j \in 1 .. Len(s) - 1 /\ j >= p
        BY <1>1, <2>1, <2>3, <3>1
      <4>3. j # Len(s) => t[j] = s[j + 1]
        BY <1>2, <4>2
      <4> QED
        BY <3>1, <3>2, <4>1, <4>3
    <3>4. qv[t[k]] = IF k = 1 THEN Null ELSE t[k - 1]
      <4>1. CASE k = p
        <5>1. qv[t[k]] = IF p = 1 THEN Null ELSE s[p - 1]
          <6>1. qv[s[j]] = pv[s[p]]
            BY <1>6, <3>2, <4>1
          <6> QED
            BY <1>3, <1>4, <3>2, <6>1
        <5>2. p # 1 => p - 1 \in 1 .. Len(s) - 1 /\ p - 1 < p
          BY <1>1
        <5>3. p # 1 => t[p - 1] = s[p - 1]
          BY <1>2, <5>2
        <5> QED
          BY <4>1, <5>1, <5>3
      <4>2. CASE k # p
        <5>1. qv[t[k]] = s[j - 1] /\ j - 1 = k
          <6>1. qv[s[j]] = s[j - 1]
            BY <1>6, <3>2, <4>2
          <6>2. j - 1 = k
            BY <2>1, <3>1
          <6> QED
            BY <3>2, <6>1, <6>2
        <5>2. k - 1 \in 1 .. Len(s) - 1 /\ k - 1 >= p /\ k - 1 + 1 = k /\ k # 1
          BY <1>1, <2>1, <2>3, <4>2
        <5>3. t[k - 1] = s[k - 1 + 1]
          BY <1>2, <5>2
        <5> QED
          BY <5>1, <5>2, <5>3
      <4> QED
        BY <4>1, <4>2
    <3> QED
      BY <3>3, <3>4
  <2> QED
    BY <1>1, <2>1, <2>2, <2>3
<1>8. (IF Len(t) = 0 THEN Null ELSE t[1]) = IF p = 1 THEN nx[s[p]] ELSE s[1]
  <2>1. CASE p = 1
    <3>1. nx[s[p]] = IF 1 = Len(s) THEN Null ELSE s[1 + 1]
      BY <1>3, <1>4, <2>1
    <3>2. Len(t) # 0 => 1 \in 1 .. Len(s) - 1 /\ 1 >= p
      BY <1>1, <2>1
    <3>3. Len(t) # 0 => t[1] = s[1 + 1]
      BY <1>2, <3>2
    <3>4. Len(t) = 0 <=> 1 = Len(s)
      BY <1>1
    <3> QED
      BY <2>1, <3>1, <3>3, <3>4
  <2>2. CASE p # 1
    <3>1. Len(t) # 0 /\ 1 \in 1 .. Len(s) - 1 /\ 1 < p
      BY <1>1, <2>2
    <3> QED
      BY <1>2, <2>2, <3>1
  <2> QED
    BY <2>1, <2>2
<1>9. (IF Len(t) = 0 THEN Null ELSE t[Len(t)]) = IF p = Len(s) THEN pv[s[p]] ELSE s[Len(s)]
  <2> DEFINE n == Len(t)
  <2>1. CASE p = Len(s)
    <3>1. pv[s[p]] = IF p = 1 THEN Null ELSE s[p - 1]
      BY <1>3, <1>4
    <3>2. n = p - 1 /\ (n = 0 <=> p = 1)
      BY <1>1, <2>1
    <3>3. n # 0 => n \in 1 .. Len(s) - 1 /\ n < p
      BY <1>1, <2>1
    <3>4. n # 0 => t[n] = s[n]
      BY <1>2, <3>3
    <3> HIDE DEF n
    <3>5. (IF n = 0 THEN Null ELSE t[n]) = pv[s[p]]
      BY <3>1, <3>2, <3>4
    <3> QED
      BY <2>1, <3>5 DEF n
  <2>2. CASE p # Len(s)
    <3>1. n # 0 /\ n \in 1 .. Len(s) - 1 /\ n >= p /\ n + 1 = Len(s)
      BY <1>1, <2>2
    <3>2. t[n] = s[n + 1]
      BY <1>2, <3>1
    <3> QED
      BY <2>2, <3>1, <3>2
  <2> QED
    BY <2>1, <2>2
<1> QED
  BY <1>7, <1>8, <1>9 DEF Leads, LeadsBack

-----------------------------------------------------------------------------
(* What ListCorrect says, in the terms of the lemmas above.                *)

LEMMA Shape ==
  ASSUME ListCorrect
  PROVE  /\ items \in Seq(allocated) /\ freed \in Seq(allocated)
         /\ Injective(items) /\ Injective(freed)
         /\ Leads(items, next) /\ Leads(freed, next)
         /\ Range(items) \cap Range(freed) = {}
         /\ Range(items) \cup Range(freed) = allocated
         /\ Range(items) \subseteq Item /\ Range(freed) \subseteq Item
         /\ allocated \subseteq Item /\ Null \notin allocated
<1>1. allocated \subseteq Item /\ items \in Seq(allocated) /\ freed \in Seq(allocated)
  BY DEF ListCorrect, ListTypeOK
<1>2. /\ Injective(items) /\ Injective(freed)
      /\ Leads(items, next) /\ Leads(freed, next)
      /\ Range(items) \cap Range(freed) = {}
      /\ Range(items) \cup Range(freed) = allocated
  BY DEF ListCorrect, Represents, Chained, Leads
<1> QED
  BY <1>1, <1>2, ListAssumption

LEMMA AtRest ==
  ASSUME ListCorrect, loop \in {"none", "search"}
  PROVE  /\ LeadsBack(items, prev)
         /\ front = (IF Len(items) = 0 THEN Null ELSE items[1])
         /\ back = (IF Len(items) = 0 THEN Null ELSE items[Len(items)])
         /\ size = Len(items)
<1>1. items \in Seq(allocated)
  BY Shape
<1>2. front = First(items) /\ back = Final(items) /\ size = Len(items)
  BY DEF ListCorrect, Represents
<1>3. Len(items) \in Nat /\ DOMAIN items = 1 .. Len(items) /\ (items = <<>> <=> Len(items) = 0)
  BY <1>1, FirstFinal
<1>4. \A k \in DOMAIN items : prev[items[k]] = IF k = 1 THEN Null ELSE items[k - 1]
  <2>1. \A k \in DOMAIN items : k > 1 => prev[items[k]] = items[k - 1]
    BY DEF ListCorrect, Represents
  <2>2. items # <<>> => prev[items[1]] = Null
    BY DEF ListCorrect, Represents
  <2> TAKE k \in DOMAIN items
  <2>3. CASE k = 1
    BY <1>3, <2>2, <2>3
  <2>4. CASE k # 1
    BY <1>3, <2>1, <2>4
  <2> QED
    BY <2>3, <2>4
<1> QED
  BY <1>1, <1>2, <1>4, FirstFinal DEF LeadsBack

\* OwnedOnce, about the items themselves rather than their places.
Owned ==
  user # "borrowing" =>
    /\ \A x : x \in heap <=> x # Null /\ \E i \in allocated : data[i] = x
    /\ \A i, j \in allocated : data[i] = data[j] /\ data[i] # Null => i = j
    /\ \A i \in Range(items) : data[i] # Null
    /\ user = "recycling" => \A i \in Range(freed) : data[i] # Null
    /\ user = "owning" => \A i \in Range(freed) : data[i] = Null

LEMMA OwnedByItem ==
  (OwnedOnce <=> Owned) /\ (OwnedOnce' <=> Owned')
<1>1. OwnedOnce <=> Owned
  <2>1. heap = {data[i] : i \in allocated} \ {Null} <=>
          \A x : x \in heap <=> x # Null /\ \E i \in allocated : data[i] = x
    OBVIOUS
  <2>2. (\A k \in DOMAIN items : data[items[k]] # Null) <=> (\A i \in Range(items) : data[i] # Null)
    BY DEF Range
  <2>3. /\ (\A k \in DOMAIN freed : data[freed[k]] # Null) <=> (\A i \in Range(freed) : data[i] # Null)
        /\ (\A k \in DOMAIN freed : data[freed[k]] = Null) <=> (\A i \in Range(freed) : data[i] = Null)
    BY DEF Range
  <2> QED
    BY <2>1, <2>2, <2>3, Zenon DEF OwnedOnce, Owned
<1>2. OwnedOnce' <=> Owned'
  <2>1. heap' = {data'[i] : i \in allocated'} \ {Null} <=>
          \A x : x \in heap' <=> x # Null /\ \E i \in allocated' : data'[i] = x
    OBVIOUS
  <2>2. (\A k \in DOMAIN items' : data'[items'[k]] # Null) <=> (\A i \in Range(items') : data'[i] # Null)
    BY DEF Range
  <2>3. /\ (\A k \in DOMAIN freed' : data'[freed'[k]] # Null) <=> (\A i \in Range(freed') : data'[i] # Null)
        /\ (\A k \in DOMAIN freed' : data'[freed'[k]] = Null) <=> (\A i \in Range(freed') : data'[i] = Null)
    BY DEF Range
  <2> QED
    BY <2>1, <2>2, <2>3, Zenon DEF OwnedOnce, Owned
<1> QED
  BY <1>1, <1>2

LEMMA Assigned ==
  ASSUME NEW f \in [Item -> Item \cup {Null}], NEW p, NEW v \in Item \cup {Null}
  PROVE  /\ Assign(f, p, v) \in [Item -> Item \cup {Null}]
         /\ \A i \in Item : Assign(f, p, v)[i] = IF i = p THEN v ELSE f[i]
BY DEF Assign

-----------------------------------------------------------------------------
(* Taking an item from the free chain, or making one.                      *)

LEMMA FreeItemTaken ==
  ASSUME ListCorrect, NEW item \in Item, Idle, GetFreeItem(item)
  PROVE  /\ item \notin Range(items) /\ item \notin Range(freed')
         /\ Range(freed') = Range(freed) \ {item}
         /\ allocated' = allocated \cup {item}
         /\ freed' \in Seq(allocated \cup {item})
         /\ Injective(freed') /\ Leads(freed', next)
         /\ free' = (IF Len(freed') = 0 THEN Null ELSE freed'[1])
         /\ free # Null => item \in Range(freed)
         /\ free = Null => item \notin allocated
<1>1. /\ freed \in Seq(allocated) /\ Injective(freed) /\ Leads(freed, next)
      /\ Range(items) \cap Range(freed) = {} /\ Range(items) \cup Range(freed) = allocated
      /\ Null \notin allocated
  BY Shape
<1>2. free = First(freed)
  BY DEF Idle, ListCorrect, Represents
<1>3. /\ Len(freed) \in Nat /\ (freed = <<>> <=> Len(freed) = 0)
      /\ free = IF Len(freed) = 0 THEN Null ELSE freed[1]
  BY <1>1, <1>2, FirstFinal
<1>4. CASE free # Null
  <2>1. item = free /\ free' = next[free] /\ freed' = Tail(freed) /\ allocated' = allocated
    BY <1>4 DEF GetFreeItem
  <2>2. freed # <<>> /\ item = freed[1]
    BY <1>3, <1>4, <2>1
  <2>3. Taken(freed, freed', 1) /\ freed' \in Seq(allocated) /\ item \in Range(freed)
    BY <1>1, <2>1, <2>2, TailTakes
  <2>4. Injective(freed') /\ Range(freed') = Range(freed) \ {item}
    BY <1>1, <2>2, <2>3, TakenElements
  <2>5. Leads(freed', next) /\ next[freed[1]] = (IF Len(freed') = 0 THEN Null ELSE freed'[1])
    BY <1>1, <2>3, TailLeads
  <2>6. allocated \cup {item} = allocated
    BY <1>1, <2>3
  <2> QED
    BY <1>1, <1>4, <2>1, <2>2, <2>3, <2>4, <2>5, <2>6
<1>5. CASE free = Null
  <2>1. item \notin allocated /\ allocated' = allocated \cup {item} /\ free' = free /\ freed' = freed
    BY <1>5 DEF GetFreeItem
  <2>2. freed \in Seq(allocated \cup {item})
    BY <1>1, SeqMonotonic
  <2> QED
    BY <1>1, <1>3, <1>5, <2>1, <2>2
<1> QED
  BY <1>4, <1>5

LEMMA StoredOnce ==
  ASSUME ListCorrect, NEW item \in Item, Idle, GetFreeItem(item), Store(item), user' = user,
         Range(items') = Range(items) \cup {item}
  PROVE  OwnedOnce' /\ heap' \in SUBSET Data /\ data' \in [Item -> Data \cup {Null}]
<1>1. /\ item \notin Range(items) /\ Range(freed') = Range(freed) \ {item}
      /\ allocated' = allocated \cup {item}
      /\ free # Null => item \in Range(freed)
      /\ free = Null => item \notin allocated
  BY FreeItemTaken
<1>2. /\ Range(items) \cup Range(freed) = allocated /\ Range(items) \cap Range(freed) = {}
      /\ allocated \subseteq Item
  BY Shape
<1>3. /\ heap \in SUBSET Data /\ data \in [Item -> Data \cup {Null}]
      /\ user \in {"owning", "borrowing", "recycling"}
  BY DEF ListCorrect, ListTypeOK
<1>4. Owned
  BY OwnedByItem DEF ListCorrect
<1>5. CASE user = "recycling" /\ free # Null /\ data[item] # Null
  <2>1. data' = data /\ heap' = heap
    BY <1>5 DEF Store
  <2>2. allocated' = allocated
    BY <1>1, <1>2, <1>5
  <2>3. Owned'
    BY <1>1, <1>4, <1>5, <2>1, <2>2 DEF Owned
  <2> QED
    BY <1>3, <2>1, <2>3, OwnedByItem
<1>6. CASE ~(user = "recycling" /\ free # Null /\ data[item] # Null)
  <2>1. PICK d \in Data \ heap :
          /\ data' = [data EXCEPT ![item] = d]
          /\ heap' = IF user = "borrowing" THEN heap ELSE heap \cup {d}
    BY <1>6 DEF Store
  <2>2. data' \in [Item -> Data \cup {Null}] /\ heap' \in SUBSET Data
    BY <1>3, <2>1
  <2>3. data'[item] = d /\ \A i \in Item : i # item => data'[i] = data[i]
    BY <1>3, <2>1
  <2>4. d # Null
    BY ListAssumption
  <2>5. ASSUME user # "borrowing" PROVE Owned'
    <3>1. /\ \A x : x \in heap <=> x # Null /\ \E i \in allocated : data[i] = x
          /\ \A i, j \in allocated : data[i] = data[j] /\ data[i] # Null => i = j
          /\ \A i \in Range(items) : data[i] # Null
          /\ user = "recycling" => \A i \in Range(freed) : data[i] # Null
          /\ user = "owning" => \A i \in Range(freed) : data[i] = Null
      BY <1>4, <2>5 DEF Owned
    <3>2. \A i \in allocated : i # item \/ data[i] = Null
      BY <1>1, <1>3, <1>6, <2>5, <3>1
    <3>3. \A i \in allocated : data[i] # d
      BY <2>1, <2>4, <3>1
    <3>4. heap' = heap \cup {d}
      BY <2>1, <2>5
    <3>5. \A x : x \in heap' <=> x # Null /\ \E i \in allocated' : data'[i] = x
      <4>1. ASSUME NEW x \in heap PROVE x # Null /\ \E i \in allocated' : data'[i] = x
        <5>1. PICK i \in allocated : data[i] = x
          BY <3>1
        <5>2. x # Null /\ i # item /\ i \in Item
          BY <1>2, <3>1, <3>2, <5>1
        <5> QED
          BY <1>1, <2>3, <5>1, <5>2
      <4>2. ASSUME NEW i \in allocated', data'[i] # Null PROVE data'[i] \in heap'
        <5>1. CASE i = item
          BY <2>3, <3>4, <5>1
        <5>2. CASE i # item
          BY <1>1, <1>2, <2>3, <3>1, <3>4, <4>2, <5>2
        <5> QED
          BY <5>1, <5>2
      <4>3. d # Null /\ \E i \in allocated' : data'[i] = d
        BY <1>1, <2>3, <2>4
      <4> QED
        BY <3>4, <4>1, <4>2, <4>3
    <3>6. ASSUME NEW i \in allocated', NEW j \in allocated', data'[i] = data'[j], data'[i] # Null
          PROVE  i = j
      BY <1>1, <1>2, <2>3, <3>1, <3>3, <3>6
    <3>7. \A i \in Range(items') : data'[i] # Null
      BY <1>2, <2>3, <2>4, <3>1
    <3>8. \A i \in Range(freed') : i # item /\ i \in Item /\ i \in Range(freed) /\ data'[i] = data[i]
      BY <1>1, <1>2, <2>3
    <3> QED
      BY <3>1, <3>5, <3>6, <3>7, <3>8 DEF Owned
  <2>6. Owned'
    BY <2>5 DEF Owned
  <2> QED
    BY <2>2, <2>6, OwnedByItem
<1> QED
  BY <1>5, <1>6

-----------------------------------------------------------------------------
(* Adding an item.                                                         *)

\* item is put at place p of the list.
AddedAt(item, p) ==
  /\ Inserted(items, items', p, item)
  /\ items' \in Seq(allocated \cup {item})
  /\ next' \in [Item -> Item \cup {Null}] /\ prev' \in [Item -> Item \cup {Null}]
  /\ LinkedIn(items, p, item, next, prev, next', prev')
  /\ front' = IF p = 1 THEN item ELSE front
  /\ back' = IF p = Len(items) + 1 THEN item ELSE back

\* The pointers make a list again, whose parts are as Represents says.
LEMMA RepresentsAgain ==
  ASSUME items' \in Seq(allocated'), freed' \in Seq(allocated'),
         loop' \in {"none", "search"}, loop' = "search" => cursor' = Null \/ cursor' \in Range(items'),
         Injective(items'), Injective(freed'),
         Range(items') \cap Range(freed') = {}, Range(items') \cup Range(freed') = allocated',
         Leads(items', next'), LeadsBack(items', prev'), Leads(freed', next'),
         front' = (IF Len(items') = 0 THEN Null ELSE items'[1]),
         back' = (IF Len(items') = 0 THEN Null ELSE items'[Len(items')]),
         size' = Len(items'),
         free' = (IF Len(freed') = 0 THEN Null ELSE freed'[1])
  PROVE  Represents'
<1>1. /\ Len(items') \in Nat /\ DOMAIN items' = 1 .. Len(items') /\ (items' = <<>> <=> Len(items') = 0)
      /\ First(items') = (IF Len(items') = 0 THEN Null ELSE items'[1])
      /\ Final(items') = (IF Len(items') = 0 THEN Null ELSE items'[Len(items')])
  BY FirstFinal
<1>2. First(freed') = (IF Len(freed') = 0 THEN Null ELSE freed'[1])
  BY FirstFinal
<1>3. front' = First(items') /\ back' = Final(items') /\ free' = First(freed')
  BY <1>1, <1>2
<1>4. Chained(items)' /\ Chained(freed)'
  BY DEF Leads, Chained
<1>5. \A k \in DOMAIN items' : k > 1 => prev'[items'[k]] = items'[k - 1]
  BY <1>1 DEF LeadsBack
<1>6. items' # <<>> => prev'[items'[1]] = Null
  BY <1>1 DEF LeadsBack
<1> QED
  BY <1>3, <1>4, <1>5, <1>6 DEF Represents, InList

LEMMA AddKeeps ==
  ASSUME ListCorrect, NEW item \in Item, NEW p, Take(item), AddedAt(item, p)
  PROVE  ListCorrect'
<1>1. /\ Idle /\ GetFreeItem(item) /\ Store(item)
      /\ size' = size + 1 /\ user' = user /\ loop' = "none" /\ cursor' = cursor /\ sought' = sought
  BY DEF Take, walk, Idle
<1>2. /\ items \in Seq(allocated) /\ Injective(items) /\ Leads(items, next) /\ Leads(freed, next)
      /\ Range(items) \cap Range(freed) = {} /\ Range(items) \cup Range(freed) = allocated
      /\ Range(items) \subseteq Item /\ allocated \subseteq Item /\ Null \notin allocated
  BY Shape
<1>3. /\ LeadsBack(items, prev)
      /\ front = (IF Len(items) = 0 THEN Null ELSE items[1])
      /\ back = (IF Len(items) = 0 THEN Null ELSE items[Len(items)])
      /\ size = Len(items)
  BY <1>1, AtRest DEF Idle
<1>4. /\ item \notin Range(items) /\ item \notin Range(freed')
      /\ Range(freed') = Range(freed) \ {item}
      /\ allocated' = allocated \cup {item}
      /\ freed' \in Seq(allocated \cup {item})
      /\ Injective(freed') /\ Leads(freed', next)
      /\ free' = (IF Len(freed') = 0 THEN Null ELSE freed'[1])
      /\ free # Null => item \in Range(freed)
      /\ free = Null => item \notin allocated
  BY <1>1, FreeItemTaken
<1>5. /\ Inserted(items, items', p, item) /\ items' \in Seq(allocated')
      /\ next' \in [Item -> Item \cup {Null}] /\ prev' \in [Item -> Item \cup {Null}]
      /\ front' = (IF p = 1 THEN item ELSE front)
      /\ back' = (IF p = Len(items) + 1 THEN item ELSE back)
  BY <1>4 DEF AddedAt
<1>6. \A i \in Item :
        /\ next'[i] = IF i = Left(items, p) THEN item ELSE IF i = item THEN Right(items, p) ELSE next[i]
        /\ prev'[i] = IF i = Right(items, p) THEN item ELSE IF i = item THEN Left(items, p) ELSE prev[i]
  BY DEF AddedAt, LinkedIn
<1>7. Range(items') = Range(items) \cup {item} /\ Injective(items')
  BY <1>2, <1>4, <1>5, InsertedElements
<1>8. Leads(items', next') /\ LeadsBack(items', prev')
  <2>1. /\ Inserted(items, items', p, item) /\ Injective(items)
        /\ item \notin Range(items) /\ Range(items) \subseteq Item
        /\ Leads(items, next) /\ LeadsBack(items, prev)
    BY <1>2, <1>3, <1>4, <1>5
  <2>2. LinkedIn(items, p, item, next, prev, next', prev')
    BY DEF AddedAt
  <2> QED
    BY <2>1, <2>2, InsertedLinks
<1>9. Leads(freed', next')
  <2>1. Left(items, p) \in Range(items) \cup {Null}
    <3>1. p # 1 => p - 1 \in 1 .. Len(items) /\ DOMAIN items = 1 .. Len(items)
      BY <1>5 DEF Inserted
    <3> QED
      BY <3>1 DEF Left, Range
  <2>2. \A i \in Range(freed') : next'[i] = next[i]
    BY <1>2, <1>4, <1>6, <2>1
  <2> QED
    BY <1>4, <2>2, LeadsKept
<1>10. /\ Len(items) \in Nat /\ Len(items') = Len(items) + 1 /\ p \in 1 .. Len(items) + 1
  BY <1>5 DEF Inserted
<1>11. /\ front' = (IF Len(items') = 0 THEN Null ELSE items'[1])
       /\ back' = (IF Len(items') = 0 THEN Null ELSE items'[Len(items')])
  <2>1. /\ Len(items') # 0
        /\ items'[1] = (IF p = 1 THEN item ELSE items[1])
        /\ items'[Len(items')] = (IF p = Len(items) + 1 THEN item ELSE items[Len(items)])
    BY <1>5, InsertedEnds
  <2>2. Len(items) = 0 => p = 1 /\ p = Len(items) + 1
    BY <1>10
  <2> QED
    BY <1>3, <1>5, <2>1, <2>2
<1>12. Represents'
  <2>1. size' = Len(items')
    BY <1>1, <1>3, <1>10
  <2>2. Range(items') \cap Range(freed') = {} /\ Range(items') \cup Range(freed') = allocated'
    BY <1>2, <1>4, <1>7
  <2>3. freed' \in Seq(allocated')
    BY <1>4
  <2> QED
    BY <1>1, <1>4, <1>5, <1>7, <1>8, <1>9, <1>11, <2>1, <2>2, <2>3, RepresentsAgain
<1>13. OwnedOnce' /\ heap' \in SUBSET Data /\ data' \in [Item -> Data \cup {Null}]
  BY <1>1, <1>7, StoredOnce
<1>14. ListTypeOK'
  <2>1. /\ user \in {"owning", "borrowing", "recycling"} /\ size \in Nat
        /\ cursor \in allocated \cup {Null} /\ sought \in Data \cup {Null}
        /\ allocated \in SUBSET Item
    BY DEF ListCorrect, ListTypeOK
  <2>2. allocated' \in SUBSET Item /\ cursor' \in allocated' \cup {Null} /\ size' \in Nat
    BY <1>1, <1>4, <2>1
  <2>3. freed' \in Seq(allocated')
    BY <1>4
  <2> QED
    BY <1>1, <1>5, <1>13, <2>1, <2>2, <2>3 DEF ListTypeOK
<1>15. SearchMissesNothing'
  BY <1>1 DEF SearchMissesNothing
<1> QED
  BY <1>12, <1>13, <1>14, <1>15 DEF ListCorrect

\* The neighbours of the places at which items are added.
LEMMA PlacesApart ==
  ASSUME ListCorrect, Idle
  PROVE  /\ Right(items, 1) = front /\ Left(items, 1) = Null
         /\ Left(items, Len(items) + 1) = back /\ Right(items, Len(items) + 1) = Null
         /\ front \in Item \cup {Null} /\ back \in Item \cup {Null}
         /\ Len(items) \in Nat /\ (front = Null <=> Len(items) = 0) /\ (back = Null <=> Len(items) = 0)
         /\ \A q \in DOMAIN items :
              /\ q \in 1 .. Len(items)
              /\ Left(items, q) = prev[items[q]] /\ Right(items, q) = items[q]
              /\ Left(items, q + 1) = items[q] /\ Right(items, q + 1) = next[items[q]]
              /\ prev[items[q]] \in Item \cup {Null} /\ next[items[q]] \in Item \cup {Null}
              /\ (items[q] = front <=> q = 1) /\ (items[q] = back <=> q = Len(items))
<1>1. /\ items \in Seq(allocated) /\ Injective(items) /\ Leads(items, next)
      /\ allocated \subseteq Item /\ Null \notin allocated
  BY Shape
<1>2. /\ LeadsBack(items, prev)
      /\ front = (IF Len(items) = 0 THEN Null ELSE items[1])
      /\ back = (IF Len(items) = 0 THEN Null ELSE items[Len(items)])
  BY AtRest DEF Idle
<1>3. /\ Len(items) \in Nat /\ DOMAIN items = 1 .. Len(items)
      /\ \A q \in 1 .. Len(items) : items[q] \in allocated
  BY <1>1, FirstFinal
<1>4. next \in [Item -> Item \cup {Null}] /\ prev \in [Item -> Item \cup {Null}]
  BY DEF ListCorrect, ListTypeOK
<1>5. Len(items) # 0 => 1 \in 1 .. Len(items) /\ Len(items) \in 1 .. Len(items)
  BY <1>3
<1>6. /\ Right(items, 1) = front /\ Left(items, 1) = Null
  <2>1. 1 = Len(items) + 1 <=> Len(items) = 0
    BY <1>3
  <2> QED
    BY <1>2, <2>1 DEF Left, Right
<1>7. Left(items, Len(items) + 1) = back /\ Right(items, Len(items) + 1) = Null
  <2>1. (Len(items) + 1 = 1 <=> Len(items) = 0) /\ Len(items) + 1 - 1 = Len(items)
    BY <1>3
  <2> QED
    BY <1>2, <2>1 DEF Left, Right
<1>8. front \in Item \cup {Null} /\ back \in Item \cup {Null}
      /\ (front = Null <=> Len(items) = 0) /\ (back = Null <=> Len(items) = 0)
  <2>1. CASE Len(items) = 0
    BY <1>2, <2>1
  <2>2. CASE Len(items) # 0
    <3>1. items[1] \in allocated /\ items[Len(items)] \in allocated
      BY <1>3, <1>5, <2>2
    <3>2. front = items[1] /\ back = items[Len(items)]
      BY <1>2, <2>2
    <3> QED
      BY <1>1, <2>2, <3>1, <3>2
  <2> QED
    BY <2>1, <2>2
<1>9. ASSUME NEW q \in DOMAIN items
      PROVE  /\ q \in 1 .. Len(items)
             /\ Left(items, q) = prev[items[q]] /\ Right(items, q) = items[q]
             /\ Left(items, q + 1) = items[q] /\ Right(items, q + 1) = next[items[q]]
             /\ prev[items[q]] \in Item \cup {Null} /\ next[items[q]] \in Item \cup {Null}
             /\ (items[q] = front <=> q = 1) /\ (items[q] = back <=> q = Len(items))
  <2>1. /\ q \in 1 .. Len(items) /\ q # Len(items) + 1 /\ q + 1 # 1 /\ q + 1 - 1 = q
        /\ (q + 1 = Len(items) + 1 <=> q = Len(items)) /\ Len(items) # 0
    BY <1>3
  <2>2. Left(items, q) = prev[items[q]] /\ Right(items, q) = items[q]
    BY <1>2, <2>1 DEF LeadsBack, Left, Right
  <2>3. Left(items, q + 1) = items[q] /\ Right(items, q + 1) = next[items[q]]
    BY <1>1, <2>1 DEF Leads, Left, Right
  <2>4. prev[items[q]] \in Item \cup {Null} /\ next[items[q]] \in Item \cup {Null}
    BY <1>1, <1>3, <1>4, <2>1
  <2>5. (items[q] = front <=> q = 1) /\ (items[q] = back <=> q = Len(items))
    BY <1>1, <1>2, <1>3, <1>5, <2>1 DEF Injective
  <2> QED
    BY <2>1, <2>2, <2>3, <2>4, <2>5
<1> QED
  BY <1>3, <1>6, <1>7, <1>8, <1>9

\* Each way to add an item is one of them.
LEMMA PushFrontAdds ==
  ASSUME ListCorrect, NEW item \in Item, PushFront(item)
  PROVE  AddedAt(item, 1)
<1>1. /\ Idle
      /\ prev' = Assign(Assign(prev, item, Null), front, item)
      /\ next' = Assign(next, item, front)
      /\ front' = item
      /\ back' = (IF back = Null THEN item ELSE back)
      /\ items' = <<item>> \o items
  BY DEF PushFront, Take
<1>2. /\ Right(items, 1) = front /\ Left(items, 1) = Null
      /\ front \in Item \cup {Null} /\ Len(items) \in Nat /\ (back = Null <=> Len(items) = 0)
      /\ (front = Null <=> Len(items) = 0)
  BY <1>1, PlacesApart
<1>3. items \in Seq(allocated) /\ Null \notin Item
  BY Shape, ListAssumption
<1>4. next \in [Item -> Item \cup {Null}] /\ prev \in [Item -> Item \cup {Null}]
  BY DEF ListCorrect, ListTypeOK
<1>5. Inserted(items, items', 1, item) /\ items' \in Seq(allocated \cup {item})
  BY <1>1, <1>3, PrependInserts
<1>6. front # item
  <2>1. item \notin Range(items)
    BY <1>1, FreeItemTaken DEF PushFront, Take
  <2>2. Len(items) # 0 => front = items[1] /\ 1 \in DOMAIN items
    BY <1>1, <1>2, <1>3, AtRest, FirstFinal DEF Idle
  <2> QED
    BY <1>2, <1>3, <2>1, <2>2 DEF Range
<1>7. /\ next' \in [Item -> Item \cup {Null}]
      /\ \A i \in Item : next'[i] = IF i = item THEN front ELSE next[i]
  BY <1>1, <1>2, <1>4, Assigned
<1>8. /\ prev' \in [Item -> Item \cup {Null}]
      /\ \A i \in Item : prev'[i] = IF i = front THEN item ELSE IF i = item THEN Null ELSE prev[i]
  <2>1. /\ Assign(prev, item, Null) \in [Item -> Item \cup {Null}]
        /\ \A i \in Item : Assign(prev, item, Null)[i] = IF i = item THEN Null ELSE prev[i]
    BY <1>4, Assigned
  <2>2. /\ prev' \in [Item -> Item \cup {Null}]
        /\ \A i \in Item : prev'[i] = IF i = front THEN item ELSE Assign(prev, item, Null)[i]
    BY <1>1, <2>1, Assigned
  <2> QED
    BY <2>1, <2>2
<1>9. \A i \in Item :
        /\ next'[i] = IF i = Left(items, 1) THEN item ELSE IF i = item THEN Right(items, 1) ELSE next[i]
        /\ prev'[i] = IF i = Right(items, 1) THEN item ELSE IF i = item THEN Left(items, 1) ELSE prev[i]
  BY <1>2, <1>3, <1>7, <1>8
<1>10. back' = IF 1 = Len(items) + 1 THEN item ELSE back
  <2>1. 1 = Len(items) + 1 <=> Len(items) = 0
    BY <1>2
  <2> QED
    BY <1>1, <1>2, <2>1
<1> QED
  BY <1>1, <1>5, <1>7, <1>8, <1>9, <1>10 DEF AddedAt, LinkedIn

LEMMA PushBackAdds ==
  ASSUME ListCorrect, NEW item \in Item, PushBack(item)
  PROVE  AddedAt(item, Len(items) + 1)
<1>1. /\ Idle
      /\ next' = Assign(Assign(next, item, Null), back, item)
      /\ prev' = Assign(prev, item, back)
      /\ back' = item
      /\ front' = (IF front = Null THEN item ELSE front)
      /\ items' = Append(items, item)
  BY DEF PushBack, Take
<1>2. /\ Right(items, Len(items) + 1) = Null /\ Left(items, Len(items) + 1) = back
      /\ back \in Item \cup {Null} /\ Len(items) \in Nat /\ (front = Null <=> Len(items) = 0)
  BY <1>1, PlacesApart
<1>3. items \in Seq(allocated) /\ Null \notin Item
  BY Shape, ListAssumption
<1>4. next \in [Item -> Item \cup {Null}] /\ prev \in [Item -> Item \cup {Null}]
  BY DEF ListCorrect, ListTypeOK
<1>5. Inserted(items, items', Len(items) + 1, item) /\ items' \in Seq(allocated \cup {item})
  BY <1>1, <1>3, AppendInserts
<1>6. /\ prev' \in [Item -> Item \cup {Null}]
      /\ \A i \in Item : prev'[i] = IF i = item THEN back ELSE prev[i]
  BY <1>1, <1>2, <1>4, Assigned
<1>7. /\ next' \in [Item -> Item \cup {Null}]
      /\ \A i \in Item : next'[i] = IF i = back THEN item ELSE IF i = item THEN Null ELSE next[i]
  <2>1. /\ Assign(next, item, Null) \in [Item -> Item \cup {Null}]
        /\ \A i \in Item : Assign(next, item, Null)[i] = IF i = item THEN Null ELSE next[i]
    BY <1>4, Assigned
  <2>2. /\ next' \in [Item -> Item \cup {Null}]
        /\ \A i \in Item : next'[i] = IF i = back THEN item ELSE Assign(next, item, Null)[i]
    BY <1>1, <2>1, Assigned
  <2> QED
    BY <2>1, <2>2
<1> DEFINE p == Len(items) + 1
<1>8. \A i \in Item :
        /\ next'[i] = IF i = Left(items, p) THEN item ELSE IF i = item THEN Right(items, p) ELSE next[i]
        /\ prev'[i] = IF i = Right(items, p) THEN item ELSE IF i = item THEN Left(items, p) ELSE prev[i]
  BY <1>2, <1>3, <1>6, <1>7
<1>9. front' = IF p = 1 THEN item ELSE front
  <2>1. p = 1 <=> Len(items) = 0
    BY <1>2
  <2> QED
    BY <1>1, <1>2, <2>1
<1> QED
  BY <1>1, <1>5, <1>6, <1>7, <1>8, <1>9 DEF AddedAt, LinkedIn

LEMMA InsertBeforeAdds ==
  ASSUME ListCorrect, NEW item \in Item, NEW at \in Item, InsertBefore(item, at)
  PROVE  \E p \in Nat : AddedAt(item, p)
<1>1. /\ Idle
      /\ prev' = Assign(Assign(prev, item, prev[at]), at, item)
      /\ next' = Assign(Assign(next, item, at), prev[at], item)
      /\ front' = (IF at = front THEN item ELSE front)
      /\ back' = back
  BY DEF InsertBefore, Take
<1>2. PICK p \in DOMAIN items : items[p] = at /\ items' = InsertAt(items, p, item)
  BY DEF InsertBefore
<1>3. /\ p \in 1 .. Len(items) /\ Len(items) \in Nat
      /\ Left(items, p) = prev[at] /\ Right(items, p) = at
      /\ prev[at] \in Item \cup {Null}
      /\ (at = front <=> p = 1)
  BY <1>1, <1>2, PlacesApart
<1>4. items \in Seq(allocated)
  BY Shape
<1>5. next \in [Item -> Item \cup {Null}] /\ prev \in [Item -> Item \cup {Null}]
  BY DEF ListCorrect, ListTypeOK
<1>6. Inserted(items, items', p, item) /\ items' \in Seq(allocated \cup {item})
  <2>1. p \in 1 .. Len(items) + 1
    BY <1>3
  <2> QED
    BY <1>2, <1>4, <2>1, InsertAtInserts
<1>7. /\ prev' \in [Item -> Item \cup {Null}]
      /\ \A i \in Item : prev'[i] = IF i = at THEN item ELSE IF i = item THEN prev[at] ELSE prev[i]
  <2>1. /\ Assign(prev, item, prev[at]) \in [Item -> Item \cup {Null}]
        /\ \A i \in Item : Assign(prev, item, prev[at])[i] = IF i = item THEN prev[at] ELSE prev[i]
    BY <1>3, <1>5, Assigned
  <2>2. /\ prev' \in [Item -> Item \cup {Null}]
        /\ \A i \in Item : prev'[i] = IF i = at THEN item ELSE Assign(prev, item, prev[at])[i]
    BY <1>1, <2>1, Assigned
  <2> QED
    BY <2>1, <2>2
<1>8. /\ next' \in [Item -> Item \cup {Null}]
      /\ \A i \in Item : next'[i] = IF i = prev[at] THEN item ELSE IF i = item THEN at ELSE next[i]
  <2>1. /\ Assign(next, item, at) \in [Item -> Item \cup {Null}]
        /\ \A i \in Item : Assign(next, item, at)[i] = IF i = item THEN at ELSE next[i]
    BY <1>5, Assigned
  <2>2. /\ next' \in [Item -> Item \cup {Null}]
        /\ \A i \in Item : next'[i] = IF i = prev[at] THEN item ELSE Assign(next, item, at)[i]
    BY <1>1, <2>1, Assigned
  <2> QED
    BY <2>1, <2>2
<1>9. p # Len(items) + 1
  BY <1>3
<1>10. AddedAt(item, p)
  BY <1>1, <1>3, <1>6, <1>7, <1>8, <1>9 DEF AddedAt, LinkedIn
<1> QED
  BY <1>3, <1>10

LEMMA InsertAfterAdds ==
  ASSUME ListCorrect, NEW item \in Item, NEW at \in Item, InsertAfter(item, at)
  PROVE  \E p \in Nat : AddedAt(item, p)
<1>1. /\ Idle
      /\ next' = Assign(Assign(next, item, next[at]), at, item)
      /\ prev' = Assign(Assign(prev, item, at), next[at], item)
      /\ back' = (IF at = back THEN item ELSE back)
      /\ front' = front
  BY DEF InsertAfter, Take
<1>2. PICK q \in DOMAIN items : items[q] = at /\ items' = InsertAt(items, q + 1, item)
  BY DEF InsertAfter
<1>3. /\ q \in 1 .. Len(items) /\ Len(items) \in Nat
      /\ Left(items, q + 1) = at /\ Right(items, q + 1) = next[at]
      /\ next[at] \in Item \cup {Null}
      /\ (at = back <=> q = Len(items))
  BY <1>1, <1>2, PlacesApart
<1>4. PICK p \in Nat : p = q + 1
  BY <1>3
<1>5. /\ p \in 1 .. Len(items) + 1 /\ p # 1 /\ (p = Len(items) + 1 <=> at = back)
      /\ Left(items, p) = at /\ Right(items, p) = next[at] /\ items' = InsertAt(items, p, item)
  BY <1>2, <1>3, <1>4
<1>6. items \in Seq(allocated)
  BY Shape
<1>7. next \in [Item -> Item \cup {Null}] /\ prev \in [Item -> Item \cup {Null}]
  BY DEF ListCorrect, ListTypeOK
<1>8. Inserted(items, items', p, item) /\ items' \in Seq(allocated \cup {item})
  BY <1>5, <1>6, InsertAtInserts
<1>9. /\ next' \in [Item -> Item \cup {Null}]
      /\ \A i \in Item : next'[i] = IF i = at THEN item ELSE IF i = item THEN next[at] ELSE next[i]
  <2>1. /\ Assign(next, item, next[at]) \in [Item -> Item \cup {Null}]
        /\ \A i \in Item : Assign(next, item, next[at])[i] = IF i = item THEN next[at] ELSE next[i]
    BY <1>3, <1>7, Assigned
  <2>2. /\ next' \in [Item -> Item \cup {Null}]
        /\ \A i \in Item : next'[i] = IF i = at THEN item ELSE Assign(next, item, next[at])[i]
    BY <1>1, <2>1, Assigned
  <2> QED
    BY <2>1, <2>2
<1>10. /\ prev' \in [Item -> Item \cup {Null}]
       /\ \A i \in Item : prev'[i] = IF i = next[at] THEN item ELSE IF i = item THEN at ELSE prev[i]
  <2>1. /\ Assign(prev, item, at) \in [Item -> Item \cup {Null}]
        /\ \A i \in Item : Assign(prev, item, at)[i] = IF i = item THEN at ELSE prev[i]
    BY <1>7, Assigned
  <2>2. /\ prev' \in [Item -> Item \cup {Null}]
        /\ \A i \in Item : prev'[i] = IF i = next[at] THEN item ELSE Assign(prev, item, at)[i]
    BY <1>1, <2>1, Assigned
  <2> QED
    BY <2>1, <2>2
<1>11. AddedAt(item, p)
  BY <1>1, <1>5, <1>8, <1>9, <1>10 DEF AddedAt, LinkedIn
<1> QED
  BY <1>4, <1>11

-----------------------------------------------------------------------------
(* Removing an item, from any place or, in the loop that removes all, from *)
(* the front.                                                              *)

\* The item at place p leaves the list and starts the free chain.
FreedAt(item, p) ==
  /\ Taken(items, items', p) /\ items' \in Seq(allocated) /\ item = items[p]
  /\ freed' = <<item>> \o freed /\ free' = item
  /\ next'[item] = free /\ \A i \in Range(freed) : next'[i] = next[i]
  /\ allocated' = allocated /\ user' = user
  /\ Release(item)

LEMMA ReleasedOnce ==
  ASSUME ListCorrect, NEW item \in Range(items), Release(item),
         Range(items') = Range(items) \ {item}, Range(freed') = Range(freed) \cup {item},
         allocated' = allocated, user' = user
  PROVE  OwnedOnce' /\ heap' \in SUBSET Data /\ data' \in [Item -> Data \cup {Null}]
<1>1. /\ Range(items) \cup Range(freed) = allocated /\ Range(items) \cap Range(freed) = {}
      /\ allocated \subseteq Item
  BY Shape
<1>2. /\ heap \in SUBSET Data /\ data \in [Item -> Data \cup {Null}]
      /\ user \in {"owning", "borrowing", "recycling"}
  BY DEF ListCorrect, ListTypeOK
<1>3. Owned
  BY OwnedByItem DEF ListCorrect
<1>4. CASE user # "owning"
  <2>1. data' = data /\ heap' = heap
    BY <1>4 DEF Release
  <2>2. user = "recycling" => \A i \in Range(freed') : data'[i] # Null
    BY <1>3, <2>1 DEF Owned
  <2>3. Owned'
    BY <1>3, <1>4, <2>1, <2>2 DEF Owned
  <2> QED
    BY <1>2, <2>1, <2>3, OwnedByItem
<1>5. CASE user = "owning"
  <2>1. heap' = heap \ {data[item]} /\ data' = [data EXCEPT ![item] = Null]
    BY <1>5 DEF Release
  <2>2. data' \in [Item -> Data \cup {Null}] /\ heap' \in SUBSET Data
    BY <1>2, <2>1
  <2>3. item \in Item /\ data'[item] = Null /\ \A i \in Item : i # item => data'[i] = data[i]
    BY <1>1, <1>2, <2>1
  <2>4. /\ \A x : x \in heap <=> x # Null /\ \E i \in allocated : data[i] = x
        /\ \A i, j \in allocated : data[i] = data[j] /\ data[i] # Null => i = j
        /\ \A i \in Range(items) : data[i] # Null
        /\ \A i \in Range(freed) : data[i] = Null
    BY <1>3, <1>5 DEF Owned
  <2>5. \A i \in allocated : i = item <=> data[i] = data[item]
    BY <1>1, <2>4
  <2>6. \A x : x \in heap' <=> x # Null /\ \E i \in allocated' : data'[i] = x
    <3>1. ASSUME NEW x \in heap' PROVE x # Null /\ \E i \in allocated' : data'[i] = x
      <4>1. x \in heap /\ x # data[item] /\ x # Null
        BY <2>1, <2>4
      <4>2. PICK i \in allocated : data[i] = x
        BY <2>4, <4>1
      <4>3. i # item /\ i \in Item
        BY <1>1, <4>1, <4>2
      <4> QED
        BY <2>3, <4>1, <4>2, <4>3
    <3>2. ASSUME NEW i \in allocated', data'[i] # Null PROVE data'[i] \in heap'
      <4>1. i \in allocated /\ i # item /\ data'[i] = data[i] /\ data[i] # Null
        BY <1>1, <2>3, <3>2
      <4> QED
        BY <2>1, <2>4, <2>5, <4>1
    <3> QED
      BY <3>1, <3>2
  <2>7. ASSUME NEW i \in allocated', NEW j \in allocated', data'[i] = data'[j], data'[i] # Null
        PROVE  i = j
    BY <1>1, <2>3, <2>4, <2>7
  <2>8. \A i \in Range(items') : data'[i] # Null
    BY <1>1, <2>3, <2>4
  <2>9. \A i \in Range(freed') : data'[i] = Null
    BY <1>1, <2>3, <2>4
  <2>10. Owned'
    BY <1>5, <2>6, <2>7, <2>8, <2>9 DEF Owned
  <2> QED
    BY <2>2, <2>10, OwnedByItem
<1> QED
  BY <1>4, <1>5

LEMMA ItemFreed ==
  ASSUME ListCorrect, loop # "destroyFree", NEW item, NEW p, FreedAt(item, p)
  PROVE  /\ item \in Range(items) /\ Injective(items') /\ Range(items') = Range(items) \ {item}
         /\ freed' \in Seq(allocated) /\ Injective(freed') /\ Leads(freed', next')
         /\ free' = (IF Len(freed') = 0 THEN Null ELSE freed'[1])
         /\ Range(items') \cap Range(freed') = {}
         /\ Range(items') \cup Range(freed') = allocated
         /\ OwnedOnce' /\ heap' \in SUBSET Data /\ data' \in [Item -> Data \cup {Null}]
<1>1. /\ items \in Seq(allocated) /\ freed \in Seq(allocated)
      /\ Injective(items) /\ Injective(freed) /\ Leads(freed, next)
      /\ Range(items) \cap Range(freed) = {} /\ Range(items) \cup Range(freed) = allocated
  BY Shape
<1>2. /\ Taken(items, items', p) /\ item = items[p] /\ freed' = <<item>> \o freed /\ free' = item
      /\ next'[item] = free /\ \A i \in Range(freed) : next'[i] = next[i]
      /\ allocated' = allocated /\ user' = user /\ Release(item)
  BY DEF FreedAt
<1>3. item \in Range(items)
  <2>1. p \in DOMAIN items
    BY <1>2 DEF Taken
  <2> QED
    BY <1>2, <2>1 DEF Range
<1>4. Injective(items') /\ Range(items') = Range(items) \ {item}
  BY <1>1, <1>2, TakenElements
<1>5. free = IF Len(freed) = 0 THEN Null ELSE freed[1]
  <2>1. free = First(freed)
    BY DEF ListCorrect, Represents, ListTypeOK
  <2> QED
    BY <1>1, <2>1, FirstFinal
<1>6. Inserted(freed, freed', 1, item) /\ freed' \in Seq(allocated \cup {item})
  BY <1>1, <1>2, PrependInserts
<1>7. allocated \cup {item} = allocated
  BY <1>1, <1>3
<1>8. Range(freed') = Range(freed) \cup {item} /\ Injective(freed')
  BY <1>1, <1>3, <1>6, InsertedElements
<1>9. Leads(freed', next') /\ freed'[1] = item /\ Len(freed') # 0
  <2>1. /\ Inserted(freed, freed', 1, item) /\ Leads(freed, next)
        /\ \A i \in Range(freed) : next'[i] = next[i]
        /\ next'[item] = (IF Len(freed) = 0 THEN Null ELSE freed[1])
    BY <1>1, <1>2, <1>5, <1>6
  <2> QED
    BY <2>1, PrependLeads
<1>10. OwnedOnce' /\ heap' \in SUBSET Data /\ data' \in [Item -> Data \cup {Null}]
  BY <1>2, <1>3, <1>4, <1>8, ReleasedOnce
<1> QED
  BY <1>1, <1>2, <1>3, <1>4, <1>6, <1>7, <1>8, <1>9, <1>10

LEMMA RemoveKeeps ==
  ASSUME ListCorrect, loop \in {"none", "search"}, NEW item \in Item, InList(item), RemoveFrom(item),
         loop' = "none", cursor' \in allocated \cup {Null}, sought' \in Data \cup {Null}
  PROVE  ListCorrect'
<1>1. PICK p \in DOMAIN items : items[p] = item /\ items' = RemoveAt(items, p)
  BY DEF RemoveFrom
<1>2. /\ items \in Seq(allocated) /\ Injective(items) /\ Leads(items, next) /\ Leads(freed, next)
      /\ Range(items) \cap Range(freed) = {} /\ Range(items) \cup Range(freed) = allocated
      /\ Range(items) \subseteq Item /\ Range(freed) \subseteq Item
      /\ allocated \subseteq Item /\ Null \notin allocated
  BY Shape
<1>3. /\ LeadsBack(items, prev)
      /\ front = (IF Len(items) = 0 THEN Null ELSE items[1])
      /\ back = (IF Len(items) = 0 THEN Null ELSE items[Len(items)])
      /\ size = Len(items)
  BY AtRest
<1>4. /\ Len(items) \in Nat /\ DOMAIN items = 1 .. Len(items) /\ p \in 1 .. Len(items)
      /\ 1 \in 1 .. Len(items) /\ Len(items) \in 1 .. Len(items) /\ Len(items) # 0
  BY <1>2, LenProperties
<1>5. Taken(items, items', p) /\ items' \in Seq(allocated)
  BY <1>1, <1>2, <1>4, RemoveAtTakes
<1>6. /\ next \in [Item -> Item \cup {Null}] /\ prev \in [Item -> Item \cup {Null}]
      /\ user \in {"owning", "borrowing", "recycling"} /\ allocated \in SUBSET Item
  BY DEF ListCorrect, ListTypeOK
<1>7. /\ next' = Assign(Assign(next, prev[item], next[item]), item, free)
      /\ prev' = Assign(Assign(Assign(prev, next[item], prev[item]), free, item), item, Null)
      /\ free' = item /\ freed' = <<item>> \o freed
      /\ front' = (IF front = item THEN next[item] ELSE front)
      /\ back' = (IF back = item THEN prev[item] ELSE back)
      /\ size' = size - 1 /\ user' = user /\ allocated' = allocated /\ Release(item)
  BY DEF RemoveFrom, Unlink, SetFreeItem
<1>8. /\ free \in Range(freed) \cup {Null}
      /\ next[item] \in Item \cup {Null} /\ prev[item] \in Item \cup {Null}
  <2>1. free = First(freed) /\ freed \in Seq(allocated)
    BY Shape DEF ListCorrect, Represents
  <2>2. free = (IF Len(freed) = 0 THEN Null ELSE freed[1]) /\ Len(freed) \in Nat
        /\ \A i \in 1 .. Len(freed) : freed[i] \in Range(freed)
    BY <2>1, FirstFinal
  <2>3. Len(freed) # 0 => 1 \in 1 .. Len(freed)
    BY <2>2
  <2> QED
    BY <1>6, <2>2, <2>3
<1>9. /\ next' \in [Item -> Item \cup {Null}]
      /\ \A i \in Item : next'[i] = IF i = item THEN free ELSE
                                    IF i = prev[item] THEN next[item] ELSE next[i]
  <2>1. /\ Assign(next, prev[item], next[item]) \in [Item -> Item \cup {Null}]
        /\ \A i \in Item : Assign(next, prev[item], next[item])[i] =
                             IF i = prev[item] THEN next[item] ELSE next[i]
    BY <1>6, <1>8, Assigned
  <2>2. free \in Item \cup {Null}
    BY <1>2, <1>8
  <2>3. /\ next' \in [Item -> Item \cup {Null}]
        /\ \A i \in Item : next'[i] = IF i = item THEN free
                                      ELSE Assign(next, prev[item], next[item])[i]
    BY <1>7, <2>1, <2>2, Assigned
  <2> QED
    BY <2>1, <2>3
<1>10. /\ prev' \in [Item -> Item \cup {Null}]
       /\ \A i \in Item : prev'[i] = IF i = item THEN Null ELSE IF i = free THEN item ELSE
                                     IF i = next[item] THEN prev[item] ELSE prev[i]
  <2>1. /\ Assign(prev, next[item], prev[item]) \in [Item -> Item \cup {Null}]
        /\ \A i \in Item : Assign(prev, next[item], prev[item])[i] =
                             IF i = next[item] THEN prev[item] ELSE prev[i]
    BY <1>6, <1>8, Assigned
  <2>2. /\ Assign(Assign(prev, next[item], prev[item]), free, item) \in [Item -> Item \cup {Null}]
        /\ \A i \in Item : Assign(Assign(prev, next[item], prev[item]), free, item)[i] =
                             IF i = free THEN item ELSE Assign(prev, next[item], prev[item])[i]
    BY <2>1, Assigned
  <2>3. /\ prev' \in [Item -> Item \cup {Null}]
        /\ \A i \in Item : prev'[i] = IF i = item THEN Null
             ELSE Assign(Assign(prev, next[item], prev[item]), free, item)[i]
    BY <1>7, <2>2, Assigned
  <2> QED
    BY <2>1, <2>2, <2>3
<1>11. prev[item] \in Range(items) \cup {Null}
  <2>1. prev[item] = IF p = 1 THEN Null ELSE items[p - 1]
    BY <1>1, <1>3 DEF LeadsBack
  <2>2. p # 1 => p - 1 \in DOMAIN items
    BY <1>4
  <2> QED
    BY <2>1, <2>2 DEF Range
<1>12. FreedAt(item, p)
  <2>1. item \in Range(items)
    BY DEF InList
  <2>2. next'[item] = free
    BY <1>9
  <2>3. \A i \in Range(freed) : next'[i] = next[i]
    BY <1>2, <1>9, <1>11, <2>1
  <2> QED
    BY <1>1, <1>5, <1>7, <2>2, <2>3 DEF FreedAt
<1>13. /\ item \in Range(items) /\ Injective(items') /\ Range(items') = Range(items) \ {item}
       /\ freed' \in Seq(allocated) /\ Injective(freed') /\ Leads(freed', next')
       /\ free' = (IF Len(freed') = 0 THEN Null ELSE freed'[1])
       /\ Range(items') \cap Range(freed') = {}
       /\ Range(items') \cup Range(freed') = allocated
       /\ OwnedOnce' /\ heap' \in SUBSET Data /\ data' \in [Item -> Data \cup {Null}]
  BY <1>12, ItemFreed
<1>14. /\ Leads(items', next') /\ LeadsBack(items', prev')
       /\ (IF Len(items') = 0 THEN Null ELSE items'[1]) = (IF p = 1 THEN next[items[p]] ELSE items[1])
       /\ (IF Len(items') = 0 THEN Null ELSE items'[Len(items')]) =
            (IF p = Len(items) THEN prev[items[p]] ELSE items[Len(items)])
  <2>1. UnlinkedFrom(items, p, next, prev, next', prev')
    BY <1>1, <1>2, <1>8, <1>9, <1>10 DEF UnlinkedFrom
  <2> QED
    BY <1>2, <1>3, <1>5, <2>1, TakenLinks
<1>15. /\ front' = (IF Len(items') = 0 THEN Null ELSE items'[1])
       /\ back' = (IF Len(items') = 0 THEN Null ELSE items'[Len(items')])
  <2>1. (front = item <=> p = 1) /\ (back = item <=> p = Len(items))
    BY <1>1, <1>2, <1>3, <1>4 DEF Injective
  <2> QED
    BY <1>1, <1>3, <1>4, <1>7, <1>14, <2>1
<1>16. size' = Len(items') /\ size' \in Nat
  BY <1>3, <1>4, <1>5, <1>7 DEF Taken
<1>17. Represents'
  BY <1>5, <1>7, <1>13, <1>14, <1>15, <1>16, RepresentsAgain
<1>18. ListTypeOK'
  BY <1>5, <1>6, <1>7, <1>9, <1>10, <1>13, <1>16 DEF ListTypeOK
<1>19. SearchMissesNothing'
  BY DEF SearchMissesNothing
<1> QED
  BY <1>13, <1>17, <1>18, <1>19 DEF ListCorrect

\* One step of the loop that removes all items.
LEMMA RemoveNextKeeps ==
  ASSUME ListCorrect, RemoveNext
  PROVE  ListCorrect'
<1>1. /\ loop = "remove" /\ cursor # Null /\ Release(cursor)
      /\ next' = Assign(next, cursor, free)
      /\ prev' = Assign(Assign(prev, free, cursor), cursor, Null)
      /\ free' = cursor /\ freed' = <<cursor>> \o freed
      /\ cursor' = next[cursor] /\ items' = Tail(items)
      /\ user' = user /\ size' = size /\ allocated' = allocated /\ loop' = loop /\ sought' = sought
  BY DEF RemoveNext, SetFreeItem
<1>2. /\ items \in Seq(allocated) /\ freed \in Seq(allocated)
      /\ Injective(items) /\ Leads(items, next)
      /\ Range(items) \cap Range(freed) = {}
      /\ Range(items) \cup Range(freed) = allocated
      /\ allocated \subseteq Item /\ Null \notin allocated
  BY Shape
<1>3. /\ cursor = First(items) /\ free = First(freed)
      /\ \A k \in DOMAIN items : k > 1 => prev[items[k]] = items[k - 1]
  BY <1>1 DEF ListCorrect, Represents
<1>4. /\ next \in [Item -> Item \cup {Null}] /\ prev \in [Item -> Item \cup {Null}]
      /\ user \in {"owning", "borrowing", "recycling"} /\ allocated \in SUBSET Item
      /\ size \in Nat /\ sought \in Data \cup {Null}
  BY DEF ListCorrect, ListTypeOK
<1>5. items # <<>> /\ cursor = items[1]
  BY <1>1, <1>3 DEF First
<1>6. Taken(items, items', 1) /\ items' \in Seq(allocated) /\ cursor \in Range(items)
  BY <1>1, <1>2, <1>5, TailTakes
<1>7. cursor \in Item /\ free \in Range(freed) \cup {Null}
  <2>1. /\ free = (IF Len(freed) = 0 THEN Null ELSE freed[1]) /\ Len(freed) \in Nat
        /\ \A i \in 1 .. Len(freed) : freed[i] \in Range(freed)
    BY <1>2, <1>3, FirstFinal
  <2>2. Len(freed) # 0 => 1 \in 1 .. Len(freed)
    BY <2>1
  <2> QED
    BY <1>2, <1>6, <2>1, <2>2
<1>8. /\ next' \in [Item -> Item \cup {Null}]
      /\ \A i \in Item : next'[i] = IF i = cursor THEN free ELSE next[i]
  <2>1. free \in Item \cup {Null}
    BY <1>2, <1>7
  <2> QED
    BY <1>1, <1>4, <2>1, Assigned
<1>9. /\ prev' \in [Item -> Item \cup {Null}]
      /\ \A i \in Item : prev'[i] = IF i = cursor THEN Null ELSE IF i = free THEN cursor ELSE prev[i]
  <2>1. /\ Assign(prev, free, cursor) \in [Item -> Item \cup {Null}]
        /\ \A i \in Item : Assign(prev, free, cursor)[i] = IF i = free THEN cursor ELSE prev[i]
    BY <1>4, <1>7, Assigned
  <2>2. /\ prev' \in [Item -> Item \cup {Null}]
        /\ \A i \in Item : prev'[i] = IF i = cursor THEN Null ELSE Assign(prev, free, cursor)[i]
    BY <1>1, <2>1, Assigned
  <2> QED
    BY <2>1, <2>2
<1>10. FreedAt(cursor, 1)
  <2>1. next'[cursor] = free
    BY <1>7, <1>8
  <2>2. \A i \in Range(freed) : next'[i] = next[i]
    BY <1>2, <1>6, <1>8
  <2> QED
    BY <1>1, <1>5, <1>6, <2>1, <2>2 DEF FreedAt
<1>11. /\ Injective(items') /\ Range(items') = Range(items) \ {cursor}
       /\ freed' \in Seq(allocated) /\ Injective(freed') /\ Leads(freed', next')
       /\ free' = (IF Len(freed') = 0 THEN Null ELSE freed'[1])
       /\ Range(items') \cap Range(freed') = {}
       /\ Range(items') \cup Range(freed') = allocated
       /\ OwnedOnce' /\ heap' \in SUBSET Data /\ data' \in [Item -> Data \cup {Null}]
  BY <1>1, <1>10, ItemFreed
<1>12. Leads(items', next') /\ cursor' = First(items') /\ cursor' \in allocated \cup {Null}
  <2>1. Leads(items', next) /\ next[items[1]] = (IF Len(items') = 0 THEN Null ELSE items'[1])
    BY <1>2, <1>6, TailLeads
  <2>2. \A i \in Range(items') : next'[i] = next[i]
    BY <1>2, <1>8, <1>11
  <2>3. Leads(items', next')
    BY <2>1, <2>2, LeadsKept
  <2>4. /\ First(items') = (IF Len(items') = 0 THEN Null ELSE items'[1]) /\ Len(items') \in Nat
        /\ \A k \in 1 .. Len(items') : items'[k] \in allocated
    BY <1>6, FirstFinal
  <2>5. Len(items') # 0 => 1 \in 1 .. Len(items')
    BY <2>4
  <2> QED
    BY <1>1, <1>5, <2>1, <2>3, <2>4, <2>5
<1>13. \A k \in DOMAIN items' : k > 1 => prev'[items'[k]] = items'[k - 1]
  <2> TAKE k \in DOMAIN items'
  <2> HAVE k > 1
  <2>1. /\ Len(items) \in Nat /\ DOMAIN items = 1 .. Len(items) /\ k \in 1 .. Len(items) - 1
        /\ DOMAIN items' = 1 .. Len(items) - 1
        /\ \A j \in 1 .. Len(items) - 1 : items'[j] = IF j < 1 THEN items[j] ELSE items[j + 1]
    BY <1>6 DEF Taken
  <2>2. k + 1 \in DOMAIN items /\ k + 1 > 1 /\ k + 1 - 1 = k /\ ~(k < 1) /\ ~(k - 1 < 1)
        /\ k - 1 \in 1 .. Len(items) - 1 /\ k - 1 + 1 = k
    BY <2>1
  <2>3. items'[k] = items[k + 1] /\ items'[k - 1] = items[k]
    BY <2>1, <2>2
  <2>4. prev[items[k + 1]] = items[k]
    BY <1>3, <2>2
  <2>5. items'[k] \in Range(items')
    BY DEF Range
  <2>6. prev'[items'[k]] = prev[items'[k]]
    BY <1>2, <1>7, <1>9, <1>11, <2>5
  <2> QED
    BY <2>3, <2>4, <2>6
<1>14. Represents'
  <2>1. free' = First(freed')
    BY <1>11, FirstFinal
  <2>2. Chained(items)' /\ Chained(freed)'
    BY <1>11, <1>12 DEF Leads, Chained
  <2> QED
    BY <1>1, <1>11, <1>12, <1>13, <2>1, <2>2 DEF Represents
<1>15. ListTypeOK'
  BY <1>1, <1>4, <1>6, <1>8, <1>9, <1>11, <1>12 DEF ListTypeOK
<1>16. SearchMissesNothing'
  BY <1>1 DEF SearchMissesNothing
<1> QED
  BY <1>11, <1>14, <1>15, <1>16 DEF ListCorrect

\* One step of the loops that free the items of a list destroyed.
LEMMA DestroyNextKeeps ==
  ASSUME ListCorrect, DestroyNext
  PROVE  ListCorrect'
<1>1. /\ loop \in {"destroy", "destroyFree"} /\ cursor # Null
      /\ heap' = (IF user = "borrowing" THEN heap ELSE heap \ {data[cursor]})
      /\ cursor' = next[cursor] /\ allocated' = allocated \ {cursor}
      /\ user' = user /\ free' = free /\ size' = size /\ next' = next /\ prev' = prev
      /\ data' = data /\ loop' = loop /\ sought' = sought
  BY DEF DestroyNext
<1>2. /\ items \in Seq(allocated) /\ freed \in Seq(allocated)
      /\ Injective(items) /\ Injective(freed) /\ Leads(items, next) /\ Leads(freed, next)
      /\ Range(items) \cap Range(freed) = {}
      /\ Range(items) \cup Range(freed) = allocated
      /\ allocated \subseteq Item /\ Null \notin allocated
  BY Shape
<1>3. /\ next \in [Item -> Item \cup {Null}] /\ prev \in [Item -> Item \cup {Null}]
      /\ data \in [Item -> Data \cup {Null}] /\ heap \in SUBSET Data
      /\ user \in {"owning", "borrowing", "recycling"}
      /\ size \in Nat /\ sought \in Data \cup {Null}
  BY DEF ListCorrect, ListTypeOK
<1>4. ASSUME Range(items') \cup Range(freed') = allocated',
             Range(items') \subseteq Range(items), Range(freed') \subseteq Range(freed),
             cursor \in allocated
      PROVE  OwnedOnce'
  <2>1. Owned
    BY OwnedByItem DEF ListCorrect
  <2>2. ASSUME user # "borrowing" PROVE Owned'
    <3>1. /\ \A x : x \in heap <=> x # Null /\ \E i \in allocated : data[i] = x
          /\ \A i, j \in allocated : data[i] = data[j] /\ data[i] # Null => i = j
          /\ \A i \in Range(items) : data[i] # Null
          /\ user = "recycling" => \A i \in Range(freed) : data[i] # Null
          /\ user = "owning" => \A i \in Range(freed) : data[i] = Null
      BY <2>1, <2>2 DEF Owned
    <3>2. \A x : x \in heap' <=> x # Null /\ \E i \in allocated' : data'[i] = x
      <4>1. ASSUME NEW x \in heap' PROVE x # Null /\ \E i \in allocated' : data'[i] = x
        <5>1. x \in heap /\ x # data[cursor] /\ x # Null
          BY <1>1, <2>2, <3>1
        <5>2. PICK i \in allocated : data[i] = x
          BY <3>1, <5>1
        <5> QED
          BY <1>1, <5>1, <5>2
      <4>2. ASSUME NEW i \in allocated', data'[i] # Null PROVE data'[i] \in heap'
        <5>1. i \in allocated /\ i # cursor /\ data'[i] = data[i]
          BY <1>1
        <5>2. data[i] \in heap /\ data[i] # data[cursor]
          BY <1>4, <3>1, <4>2, <5>1
        <5> QED
          BY <1>1, <2>2, <5>1, <5>2
      <4> QED
        BY <4>1, <4>2
    <3> QED
      BY <1>1, <1>4, <3>1, <3>2 DEF Owned
  <2>3. Owned'
    BY <1>1, <2>2 DEF Owned
  <2> QED
    BY <2>3, OwnedByItem
<1>5. CASE loop = "destroy"
  <2>1. /\ cursor = First(items) /\ free = First(freed)
        /\ \A k \in DOMAIN items : k > 1 => prev[items[k]] = items[k - 1]
        /\ items' = Tail(items) /\ freed' = freed
    BY <1>5 DEF ListCorrect, Represents, DestroyNext
  <2>2. items # <<>> /\ cursor = items[1]
    BY <1>1, <2>1 DEF First
  <2>3. Taken(items, items', 1) /\ items' \in Seq(allocated) /\ cursor \in Range(items)
    BY <1>2, <2>1, <2>2, TailTakes
  <2>4. Injective(items') /\ Range(items') = Range(items) \ {cursor}
    BY <1>2, <2>2, <2>3, TakenElements
  <2>5. /\ Range(items') \cap Range(freed') = {} /\ Range(items') \cup Range(freed') = allocated'
        /\ cursor \in allocated /\ Range(items') \subseteq allocated' /\ Range(freed') \subseteq allocated'
    BY <1>1, <1>2, <2>1, <2>3, <2>4
  <2>6. items' \in Seq(allocated') /\ freed' \in Seq(allocated')
    BY <1>2, <2>1, <2>3, <2>5, NarrowSeq
  <2>7. /\ Leads(items', next) /\ next[items[1]] = (IF Len(items') = 0 THEN Null ELSE items'[1])
    BY <1>2, <2>3, TailLeads
  <2>8. /\ First(items') = (IF Len(items') = 0 THEN Null ELSE items'[1]) /\ Len(items') \in Nat
        /\ \A k \in 1 .. Len(items') : items'[k] \in allocated'
    BY <2>6, FirstFinal
  <2>9. cursor' = First(items') /\ cursor' \in allocated' \cup {Null}
    <3>1. Len(items') # 0 => 1 \in 1 .. Len(items')
      BY <2>8
    <3> QED
      BY <1>1, <2>2, <2>7, <2>8, <3>1
  <2>10. \A k \in DOMAIN items' : k > 1 => prev'[items'[k]] = items'[k - 1]
    <3> TAKE k \in DOMAIN items'
    <3> HAVE k > 1
    <3>1. /\ Len(items) \in Nat /\ DOMAIN items = 1 .. Len(items) /\ k \in 1 .. Len(items) - 1
          /\ DOMAIN items' = 1 .. Len(items) - 1
          /\ \A j \in 1 .. Len(items) - 1 : items'[j] = IF j < 1 THEN items[j] ELSE items[j + 1]
      BY <2>3 DEF Taken
    <3>2. k + 1 \in DOMAIN items /\ k + 1 > 1 /\ k + 1 - 1 = k /\ ~(k < 1) /\ ~(k - 1 < 1)
          /\ k - 1 \in 1 .. Len(items) - 1 /\ k - 1 + 1 = k
      BY <3>1
    <3>3. items'[k] = items[k + 1] /\ items'[k - 1] = items[k]
      BY <3>1, <3>2
    <3>4. prev[items[k + 1]] = items[k]
      BY <2>1, <3>2
    <3> QED
      BY <1>1, <3>3, <3>4
  <2>11. Represents'
    <3>1. Chained(items)' /\ Chained(freed)'
      BY <1>1, <1>2, <2>1, <2>7 DEF Leads, Chained
    <3> QED
      BY <1>1, <1>2, <1>5, <2>1, <2>4, <2>5, <2>9, <2>10, <3>1 DEF Represents
  <2>12. ListTypeOK'
    <3>1. allocated' \in SUBSET Item /\ heap' \in SUBSET Data
      BY <1>1, <1>2, <1>3
    <3> QED
      BY <1>1, <1>3, <2>6, <2>9, <3>1 DEF ListTypeOK
  <2>13. SearchMissesNothing'
    BY <1>1, <1>5 DEF SearchMissesNothing
  <2>14. OwnedOnce'
    BY <1>4, <2>1, <2>4, <2>5
  <2> QED
    BY <2>11, <2>12, <2>13, <2>14 DEF ListCorrect
<1>6. CASE loop = "destroyFree"
  <2>1. /\ cursor = First(freed) /\ items = <<>>
        /\ items' = items /\ freed' = Tail(freed)
    BY <1>6 DEF ListCorrect, Represents, DestroyNext
  <2>2. freed # <<>> /\ cursor = freed[1]
    BY <1>1, <2>1 DEF First
  <2>3. Taken(freed, freed', 1) /\ freed' \in Seq(allocated) /\ cursor \in Range(freed)
    BY <1>2, <2>1, <2>2, TailTakes
  <2>4. Injective(freed') /\ Range(freed') = Range(freed) \ {cursor}
    BY <1>2, <2>2, <2>3, TakenElements
  <2>5. /\ Range(items') \cap Range(freed') = {} /\ Range(items') \cup Range(freed') = allocated'
        /\ cursor \in allocated /\ Range(items') \subseteq allocated' /\ Range(freed') \subseteq allocated'
    BY <1>1, <1>2, <2>1, <2>3, <2>4
  <2>6. items' \in Seq(allocated') /\ freed' \in Seq(allocated')
    BY <1>2, <2>1, <2>3, <2>5, NarrowSeq
  <2>7. /\ Leads(freed', next) /\ next[freed[1]] = (IF Len(freed') = 0 THEN Null ELSE freed'[1])
    BY <1>2, <2>3, TailLeads
  <2>8. /\ First(freed') = (IF Len(freed') = 0 THEN Null ELSE freed'[1]) /\ Len(freed') \in Nat
        /\ \A k \in 1 .. Len(freed') : freed'[k] \in allocated'
    BY <2>6, FirstFinal
  <2>9. cursor' = First(freed') /\ cursor' \in allocated' \cup {Null}
    <3>1. Len(freed') # 0 => 1 \in 1 .. Len(freed')
      BY <2>8
    <3> QED
      BY <1>1, <2>2, <2>7, <2>8, <3>1
  <2>10. Represents'
    <3>1. Chained(items)' /\ Chained(freed)'
      BY <1>1, <1>2, <2>1, <2>7 DEF Leads, Chained
    <3>2. \A k \in DOMAIN items' : k > 1 => prev'[items'[k]] = items'[k - 1]
      BY <2>1
    <3> QED
      BY <1>1, <1>2, <1>6, <2>1, <2>4, <2>5, <2>9, <3>1, <3>2 DEF Represents
  <2>11. ListTypeOK'
    <3>1. allocated' \in SUBSET Item /\ heap' \in SUBSET Data
      BY <1>1, <1>2, <1>3
    <3> QED
      BY <1>1, <1>3, <2>6, <2>9, <3>1 DEF ListTypeOK
  <2>12. SearchMissesNothing'
    BY <1>1, <1>6 DEF SearchMissesNothing
  <2>13. OwnedOnce'
    BY <1>4, <2>1, <2>4, <2>5
  <2> QED
    BY <2>10, <2>11, <2>12, <2>13 DEF ListCorrect
<1> QED
  BY <1>1, <1>5, <1>6

-----------------------------------------------------------------------------
(* The steps that walk, start and end loops, and the theorem.              *)

\* A step that leaves the list as it is.
LEMMA WalkKeeps ==
  ASSUME ListCorrect,
         UNCHANGED <<user, free, next, prev, data, allocated, heap, items, freed>>,
         UNCHANGED <<front, back, size>>,
         cursor' \in allocated \cup {Null}, sought' \in Data \cup {Null},
         \/ loop \in {"none", "search"} /\ loop' = "none"
         \/ loop \in {"none", "search"} /\ loop' = "search" /\ (cursor' = Null \/ cursor' \in Range(items))
         \/ loop = "none" /\ loop' \in {"remove", "destroy"} /\ cursor' = front
         \/ loop = "destroy" /\ loop' = "destroyFree" /\ cursor = Null /\ cursor' = free
  PROVE  ListTypeOK' /\ Represents' /\ OwnedOnce'
<1>1. ListTypeOK'
  BY DEF ListCorrect, ListTypeOK
<1>2. OwnedOnce'
  BY DEF ListCorrect, OwnedOnce
<1>3. Represents'
  <2>1. Chained(items)' /\ Chained(freed)'
    BY DEF ListCorrect, Represents, Chained
  <2>2. First(items') = First(items) /\ First(freed') = First(freed) /\ Final(items') = Final(items)
    OBVIOUS
  <2>3. ASSUME loop = "destroy", cursor = Null PROVE items = <<>>
    <3>1. items \in Seq(allocated) /\ Null \notin allocated
      BY Shape
    <3>2. First(items) = Null
      BY <2>3 DEF ListCorrect, Represents
    <3>3. /\ Len(items) \in Nat /\ (items = <<>> <=> Len(items) = 0)
          /\ First(items) = (IF Len(items) = 0 THEN Null ELSE items[1])
          /\ \A k \in 1 .. Len(items) : items[k] \in allocated
      BY <3>1, FirstFinal
    <3>4. Len(items) # 0 => 1 \in 1 .. Len(items)
      BY <3>3
    <3> QED
      BY <3>1, <3>2, <3>3, <3>4
  <2> QED
    BY <2>1, <2>2, <2>3 DEF ListCorrect, Represents, InList
<1> QED
  BY <1>1, <1>2, <1>3

LEMMA FrontIs ==
  ASSUME ListCorrect, Idle
  PROVE  front \in allocated \cup {Null} /\ (front = Null \/ front \in Range(items))
<1>1. items \in Seq(allocated)
  BY Shape
<1>2. front = (IF Len(items) = 0 THEN Null ELSE items[1])
  BY AtRest DEF Idle
<1>3. Len(items) \in Nat /\ \A k \in 1 .. Len(items) : items[k] \in allocated /\ items[k] \in Range(items)
  BY <1>1, FirstFinal
<1>4. Len(items) # 0 => 1 \in 1 .. Len(items)
  BY <1>3
<1> QED
  BY <1>2, <1>3, <1>4

LEMMA StartSearchKeeps ==
  ASSUME ListCorrect, NEW d \in Data, StartSearch(d)
  PROVE  ListCorrect'
<1>1. /\ loop = "none" /\ loop' = "search" /\ cursor' = front /\ sought' = d
      /\ UNCHANGED <<user, free, next, prev, data, allocated, heap, items, freed>>
      /\ UNCHANGED <<front, back, size>>
  BY DEF StartSearch, Idle
<1>2. front \in allocated \cup {Null} /\ (front = Null \/ front \in Range(items))
  BY <1>1, FrontIs DEF Idle
<1>3. ListTypeOK' /\ Represents' /\ OwnedOnce'
  BY <1>1, <1>2, WalkKeeps
<1>4. SearchMissesNothing'
  <2>1. /\ Len(items) \in Nat /\ DOMAIN items = 1 .. Len(items)
        /\ front = (IF Len(items) = 0 THEN Null ELSE items[1])
    BY <1>1, Shape, AtRest, LenProperties DEF Idle
  <2>2. ASSUME NEW k \in DOMAIN items, \A j \in 1 .. k : items[j] # front PROVE FALSE
    <3>1. 1 \in 1 .. k /\ Len(items) # 0
      BY <2>1
    <3> QED
      BY <2>1, <2>2, <3>1
  <2> QED
    BY <1>1, <2>2 DEF SearchMissesNothing
<1> QED
  BY <1>3, <1>4 DEF ListCorrect

LEMMA SearchOnKeeps ==
  ASSUME ListCorrect, SearchOn
  PROVE  ListCorrect'
<1>1. /\ loop = "search" /\ loop' = "search" /\ cursor # Null /\ data[cursor] # sought
      /\ cursor' = next[cursor] /\ sought' = sought
      /\ UNCHANGED <<user, free, next, prev, data, allocated, heap, items, freed>>
      /\ UNCHANGED <<front, back, size>>
  BY DEF SearchOn
<1>2. /\ items \in Seq(allocated) /\ Injective(items) /\ Leads(items, next)
  BY Shape
<1>3. /\ Len(items) \in Nat /\ DOMAIN items = 1 .. Len(items)
      /\ \A k \in 1 .. Len(items) : items[k] \in allocated /\ items[k] \in Range(items)
  BY <1>2, FirstFinal
<1>4. PICK q \in DOMAIN items : items[q] = cursor
  BY <1>1 DEF ListCorrect, Represents, InList, Range
<1>5. cursor' = IF q = Len(items) THEN Null ELSE items[q + 1]
  BY <1>1, <1>2, <1>4 DEF Leads
<1>6. q # Len(items) => q + 1 \in 1 .. Len(items)
  BY <1>3
<1>7. cursor' \in allocated \cup {Null} /\ (cursor' = Null \/ cursor' \in Range(items))
  BY <1>3, <1>5, <1>6
<1>8. sought \in Data \cup {Null}
  BY DEF ListCorrect, ListTypeOK
<1>9. ListTypeOK' /\ Represents' /\ OwnedOnce'
  BY <1>1, <1>7, <1>8, WalkKeeps
<1>10. SearchMissesNothing'
  <2>1. ASSUME NEW k \in DOMAIN items, \A j \in 1 .. k : items[j] # cursor' PROVE data[items[k]] # sought
    <3>1. k <= q
      <4>1. CASE q = Len(items)
        BY <1>3, <4>1
      <4>2. CASE q # Len(items)
        <5>1. ~(q + 1 \in 1 .. k)
          BY <1>5, <2>1, <4>2
        <5> QED
          BY <1>3, <5>1
      <4> QED
        BY <4>1, <4>2
    <3>2. CASE k = q
      BY <1>1, <1>4, <3>2
    <3>3. CASE k < q
      <4>1. \A j \in 1 .. k : j \in DOMAIN items /\ j # q
        BY <1>3, <3>3
      <4>2. \A j \in 1 .. k : items[j] # cursor
        BY <1>2, <1>4, <4>1 DEF Injective
      <4> QED
        BY <1>1, <4>2 DEF ListCorrect, SearchMissesNothing
    <3> QED
      BY <1>3, <3>1, <3>2, <3>3
  <2> QED
    BY <1>1, <2>1 DEF SearchMissesNothing
<1> QED
  BY <1>9, <1>10 DEF ListCorrect

LEMMA RemovedAllKeeps ==
  ASSUME ListCorrect, RemovedAll
  PROVE  ListCorrect'
<1>1. /\ loop = "remove" /\ cursor = Null /\ size' = 0 /\ front' = Null /\ back' = Null
      /\ loop' = "none" /\ cursor' = Null /\ sought' = Null
      /\ UNCHANGED <<user, free, next, prev, data, allocated, heap, items, freed>>
  BY DEF RemovedAll, Return
<1>2. items \in Seq(allocated) /\ Null \notin allocated
  BY Shape
<1>3. First(items) = Null
  BY <1>1 DEF ListCorrect, Represents
<1>4. /\ Len(items) \in Nat /\ (items = <<>> <=> Len(items) = 0)
      /\ First(items) = (IF Len(items) = 0 THEN Null ELSE items[1])
      /\ \A k \in 1 .. Len(items) : items[k] \in allocated
  BY <1>2, FirstFinal
<1>5. items = <<>> /\ Len(items) = 0
  <2>1. Len(items) # 0 => 1 \in 1 .. Len(items)
    BY <1>4
  <2> QED
    BY <1>2, <1>3, <1>4, <2>1
<1>6. Represents'
  <2>1. Chained(items)' /\ Chained(freed)'
    BY <1>1 DEF ListCorrect, Represents, Chained
  <2>2. free' = First(freed') /\ Injective(items') /\ Injective(freed')
        /\ Range(items') \cap Range(freed') = {} /\ Range(items') \cup Range(freed') = allocated'
        /\ \A k \in DOMAIN items' : k > 1 => prev'[items'[k]] = items'[k - 1]
    BY <1>1 DEF ListCorrect, Represents
  <2>3. front' = First(items') /\ back' = Final(items') /\ size' = Len(items') /\ items' = <<>>
    BY <1>1, <1>5 DEF First, Final
  <2> QED
    BY <1>1, <2>1, <2>2, <2>3 DEF Represents
<1>7. ListTypeOK'
  BY <1>1 DEF ListCorrect, ListTypeOK
<1>8. OwnedOnce'
  BY <1>1 DEF ListCorrect, OwnedOnce
<1>9. SearchMissesNothing'
  BY <1>1 DEF SearchMissesNothing
<1> QED
  BY <1>6, <1>7, <1>8, <1>9 DEF ListCorrect

LEMMA DestroyedKeeps ==
  ASSUME ListCorrect, Destroyed
  PROVE  ListCorrect'
<1>1. /\ loop = "destroyFree" /\ cursor = Null
      /\ front' = Null /\ back' = Null /\ free' = Null /\ size' = 0
      /\ loop' = "none" /\ cursor' = Null /\ sought' = Null
      /\ UNCHANGED <<user, next, prev, data, allocated, heap, items, freed>>
  BY DEF Destroyed, Return
<1>2. freed \in Seq(allocated) /\ Null \notin allocated
  BY Shape
<1>3. First(freed) = Null /\ items = <<>>
  BY <1>1 DEF ListCorrect, Represents
<1>4. /\ Len(freed) \in Nat /\ (freed = <<>> <=> Len(freed) = 0)
      /\ First(freed) = (IF Len(freed) = 0 THEN Null ELSE freed[1])
      /\ \A k \in 1 .. Len(freed) : freed[k] \in allocated
  BY <1>2, FirstFinal
<1>5. freed = <<>>
  <2>1. Len(freed) # 0 => 1 \in 1 .. Len(freed)
    BY <1>4
  <2> QED
    BY <1>2, <1>3, <1>4, <2>1
<1>6. Represents'
  <2>1. Chained(items)' /\ Chained(freed)'
    BY <1>1 DEF ListCorrect, Represents, Chained
  <2>2. Injective(items') /\ Injective(freed')
        /\ Range(items') \cap Range(freed') = {} /\ Range(items') \cup Range(freed') = allocated'
        /\ \A k \in DOMAIN items' : k > 1 => prev'[items'[k]] = items'[k - 1]
    BY <1>1 DEF ListCorrect, Represents
  <2>3. /\ front' = First(items') /\ back' = Final(items') /\ size' = Len(items') /\ items' = <<>>
        /\ free' = First(freed')
    BY <1>1, <1>3, <1>5, EmptySeq DEF First, Final
  <2> QED
    BY <1>1, <2>1, <2>2, <2>3 DEF Represents
<1>7. ListTypeOK'
  BY <1>1 DEF ListCorrect, ListTypeOK
<1>8. OwnedOnce'
  BY <1>1 DEF ListCorrect, OwnedOnce
<1>9. SearchMissesNothing'
  BY <1>1 DEF SearchMissesNothing
<1> QED
  BY <1>6, <1>7, <1>8, <1>9 DEF ListCorrect

LEMMA ListCorrectInit == ListInit => ListCorrect
<1> SUFFICES ASSUME ListInit PROVE ListCorrect
  OBVIOUS
<1>1. /\ user \in {"owning", "borrowing", "recycling"}
      /\ front = Null /\ back = Null /\ free = Null /\ size = 0
      /\ next = [i \in Item |-> Null] /\ prev = [i \in Item |-> Null] /\ data = [i \in Item |-> Null]
      /\ allocated = {} /\ heap = {} /\ loop = "none" /\ cursor = Null /\ sought = Null
      /\ items = <<>> /\ freed = <<>>
  BY DEF ListInit
<1>2. DOMAIN items = {} /\ DOMAIN freed = {} /\ Len(items) = 0
      /\ items \in Seq(allocated) /\ freed \in Seq(allocated)
  BY <1>1
<1>3. Range(items) = {} /\ Range(freed) = {}
  BY <1>2 DEF Range
<1>4. ListTypeOK
  BY <1>1, <1>2 DEF ListTypeOK
<1>5. Represents
  BY <1>1, <1>2, <1>3 DEF Represents, Injective, Chained, First, Final
<1>6. OwnedOnce
  BY <1>1, <1>2 DEF OwnedOnce
<1>7. SearchMissesNothing
  BY <1>1 DEF SearchMissesNothing
<1> QED
  BY <1>4, <1>5, <1>6, <1>7 DEF ListCorrect

LEMMA ListCorrectStep == ListCorrect /\ [ListNext]_listVars => ListCorrect'
<1> SUFFICES ASSUME ListCorrect, [ListNext]_listVars PROVE ListCorrect'
  OBVIOUS
<1>1. ASSUME NEW item \in Item, PushFront(item) PROVE ListCorrect'
  BY <1>1, PushFrontAdds, AddKeeps DEF PushFront
<1>2. ASSUME NEW item \in Item, PushBack(item) PROVE ListCorrect'
  BY <1>2, PushBackAdds, AddKeeps DEF PushBack
<1>3. ASSUME NEW item \in Item, NEW at \in Item, InsertBefore(item, at) PROVE ListCorrect'
  BY <1>3, InsertBeforeAdds, AddKeeps DEF InsertBefore
<1>4. ASSUME NEW item \in Item, NEW at \in Item, InsertAfter(item, at) PROVE ListCorrect'
  BY <1>4, InsertAfterAdds, AddKeeps DEF InsertAfter
<1>5. cursor \in allocated \cup {Null} /\ sought \in Data \cup {Null} /\ allocated \subseteq Item
  BY DEF ListCorrect, ListTypeOK
<1>6. ASSUME NEW item \in Item, RemoveItem(item) PROVE ListCorrect'
  <2>1. /\ loop = "none" /\ InList(item) /\ RemoveFrom(item)
        /\ loop' = loop /\ cursor' = cursor /\ sought' = sought
    BY <1>6 DEF RemoveItem, Idle, walk
  <2> QED
    BY <1>5, <2>1, RemoveKeeps
<1>7. ASSUME NEW d \in Data, StartSearch(d) PROVE ListCorrect'
  BY <1>7, StartSearchKeeps
<1>8. CASE SearchOn
  BY <1>8, SearchOnKeeps
<1>9. CASE SearchEnds
  <2>1. /\ loop = "search" /\ loop' = "none" /\ cursor' = Null /\ sought' = Null
        /\ UNCHANGED <<user, free, next, prev, data, allocated, heap, items, freed>>
        /\ UNCHANGED <<front, back, size>>
    BY <1>9 DEF SearchEnds, Return
  <2>2. ListTypeOK' /\ Represents' /\ OwnedOnce'
    BY <2>1, WalkKeeps
  <2> QED
    BY <2>1, <2>2 DEF ListCorrect, SearchMissesNothing
<1>10. CASE SearchRemoves
  <2>1. /\ loop = "search" /\ cursor # Null /\ RemoveFrom(cursor)
        /\ loop' = "none" /\ cursor' = Null /\ sought' = Null
    BY <1>10 DEF SearchRemoves, Return
  <2>2. InList(cursor) /\ cursor \in Item
    BY <1>5, <2>1 DEF ListCorrect, Represents
  <2> QED
    BY <2>1, <2>2, RemoveKeeps
<1>11. CASE StartRemoveAll \/ StartDestroy
  <2>1. /\ loop = "none" /\ loop' \in {"remove", "destroy"} /\ cursor' = front /\ sought' = sought
        /\ UNCHANGED <<user, free, next, prev, data, allocated, heap, items, freed>>
        /\ UNCHANGED <<front, back, size>>
    BY <1>11 DEF StartRemoveAll, StartDestroy, Idle
  <2>2. front \in allocated \cup {Null}
    BY <2>1, FrontIs DEF Idle
  <2>3. ListTypeOK' /\ Represents' /\ OwnedOnce'
    BY <1>5, <2>1, <2>2, WalkKeeps
  <2> QED
    BY <2>1, <2>3 DEF ListCorrect, SearchMissesNothing
<1>12. CASE RemoveNext
  BY <1>12, RemoveNextKeeps
<1>13. CASE RemovedAll
  BY <1>13, RemovedAllKeeps
<1>14. CASE DestroyNext
  BY <1>14, DestroyNextKeeps
<1>15. CASE DestroyFree
  <2>1. /\ loop = "destroy" /\ loop' = "destroyFree" /\ cursor = Null /\ cursor' = free /\ sought' = sought
        /\ UNCHANGED <<user, free, next, prev, data, allocated, heap, items, freed>>
        /\ UNCHANGED <<front, back, size>>
    BY <1>15 DEF DestroyFree
  <2>2. free \in allocated \cup {Null}
    <3>1. free = First(freed) /\ freed \in Seq(allocated)
      BY <2>1, Shape DEF ListCorrect, Represents
    <3>2. /\ First(freed) = (IF Len(freed) = 0 THEN Null ELSE freed[1]) /\ Len(freed) \in Nat
          /\ \A k \in 1 .. Len(freed) : freed[k] \in allocated
      BY <3>1, FirstFinal
    <3>3. Len(freed) # 0 => 1 \in 1 .. Len(freed)
      BY <3>2
    <3> QED
      BY <3>1, <3>2, <3>3
  <2>3. ListTypeOK' /\ Represents' /\ OwnedOnce'
    BY <1>5, <2>1, <2>2, WalkKeeps
  <2> QED
    BY <2>1, <2>3 DEF ListCorrect, SearchMissesNothing
<1>16. CASE Destroyed
  BY <1>16, DestroyedKeeps
<1>17. CASE UNCHANGED listVars
  BY <1>17 DEF listVars, walk, ListCorrect, ListTypeOK, Represents, SearchMissesNothing, OwnedOnce,
     Chained, Injective, InList, First, Final
<1> QED
  BY <1>1, <1>2, <1>3, <1>4, <1>6, <1>7, <1>8, <1>9, <1>10, <1>11, <1>12, <1>13, <1>14, <1>15,
     <1>16, <1>17 DEF ListNext

\* Whatever the order of calls, however many items and however long the list: next and
\* prev stand for the items in their order, every other item that exists is on the free
\* chain once, a search has passed nothing it looks for, and every object an owner put
\* in the list is in one item, so that it is destroyed once and never forgotten.
THEOREM ListStandsForItems == ListSpec => []ListCorrect
BY ListCorrectInit, ListCorrectStep, PTL DEF ListSpec

-----------------------------------------------------------------------------
(* Recursion.                                                              *)

\* A set of naturals has a least element.
LEMMA MinIn ==
  ASSUME NEW S, S \subseteq Nat, S # {}
  PROVE  Min(S) \in S /\ \A y \in S : Min(S) <= y
<1> DEFINE R == {ss \in Nat \X Nat : ss[1] < ss[2]}
<1>1. IsWellFoundedOn(R, Nat)
  BY NatLessThanWellFounded DEF OpToRel
<1>2. PICK x \in S : \A y \in S : ~(<<y, x>> \in R)
  <2> HIDE DEF R
  <2> QED
    BY <1>1, WFMin
<1>3. ASSUME NEW y \in S PROVE x <= y
  <2> SUFFICES ASSUME y < x PROVE FALSE
    OBVIOUS
  <2>1. <<y, x>> \in Nat \X Nat /\ <<y, x>>[1] < <<y, x>>[2]
    OBVIOUS
  <2>2. <<y, x>> \in R
    BY <2>1
  <2> QED
    BY <1>2, <2>2
<1> QED
  BY <1>3 DEF Min

\* Induction up to n, over a set.
LEMMA UpTo ==
  ASSUME NEW n \in Nat, NEW P, 0 \in P, \A i \in 1 .. n : i - 1 \in P => i \in P
  PROVE  \A i \in 0 .. n : i \in P
<1> DEFINE missing == (0 .. n) \ P
<1> SUFFICES ASSUME missing # {} PROVE FALSE
  OBVIOUS
<1>1. Min(missing) \in missing /\ \A y \in missing : Min(missing) <= y
  <2>1. missing \subseteq Nat
    OBVIOUS
  <2> HIDE DEF missing
  <2> QED
    BY <2>1, MinIn
<1>2. PICK i : i = Min(missing)
  OBVIOUS
<1>3. i \in 1 .. n /\ i - 1 \in 0 .. n /\ ~(i <= i - 1)
  BY <1>1, <1>2
<1>4. i - 1 \notin missing
  BY <1>1, <1>2, <1>3
<1> QED
  BY <1>1, <1>2, <1>3, <1>4

\* A function can be defined step by step.
Steps(n, S) == [1 .. n -> [S -> S]]
Follows(f, n, S, a, step) ==
  f \in [0 .. n -> S] /\ f[0] = a /\ \A i \in 1 .. n : f[i] = step[i][f[i - 1]]

LEMMA StepByStep ==
  ASSUME NEW S, NEW a \in S, NEW n \in Nat, NEW step \in Steps(n, S)
  PROVE  \E f : Follows(f, n, S, a, step)
<1> USE DEF Steps
<1> DEFINE Upto(m, f) == f[0] = a /\ \A i \in 1 .. m : f[i] = step[i][f[i - 1]]
           P == {m \in 0 .. n : \E f \in [0 .. m -> S] : Upto(m, f)}
<1>1. 0 \in P
  <2> DEFINE f == [i \in 0 .. 0 |-> a]
  <2>1. f \in [0 .. 0 -> S]
    OBVIOUS
  <2>2. f[0] = a /\ 1 .. 0 = {}
    OBVIOUS
  <2> HIDE DEF f
  <2> QED
    BY <2>1, <2>2
<1>2. ASSUME NEW m \in 1 .. n, m - 1 \in P PROVE m \in P
  <2>1. PICK f \in [0 .. m - 1 -> S] : Upto(m - 1, f)
    BY <1>2
  <2> DEFINE g == [i \in 0 .. m |-> IF i = m THEN step[m][f[m - 1]] ELSE f[i]]
  <2>2. f[m - 1] \in S /\ step[m] \in [S -> S]
    OBVIOUS
  <2>3. g \in [0 .. m -> S]
    BY <2>2
  <2>4. g[0] = a
    BY <2>1
  <2>5. ASSUME NEW i \in 1 .. m PROVE g[i] = step[i][g[i - 1]]
    <3>1. i \in 0 .. m /\ i - 1 \in 0 .. m /\ i - 1 # m
      OBVIOUS
    <3>2. g[i - 1] = f[i - 1]
      BY <3>1
    <3>3. CASE i = m
      BY <3>1, <3>2, <3>3
    <3>4. CASE i # m
      <4>1. i \in 1 .. m - 1 /\ g[i] = f[i]
        BY <3>1, <3>4
      <4> QED
        BY <4>1, <2>1, <3>2
    <3> QED
      BY <3>3, <3>4
  <2> HIDE DEF g
  <2>6. Upto(m, g) /\ m \in 0 .. n
    BY <2>4, <2>5
  <2> HIDE DEF Upto
  <2> QED
    BY <2>3, <2>6
<1>3. n \in P
  <2> HIDE DEF P
  <2>1. \A m \in 0 .. n : m \in P
    BY <1>1, <1>2, UpTo
  <2> QED
    BY <2>1
<1> QED
  BY <1>3 DEF Follows

-----------------------------------------------------------------------------
(* Vectors of nodes.                                                       *)

Node == [key : Key, value : Value]
Cell == Node \cup {Nothing, Junk, Outside}

\* A vector whose entries in use are nodes, and that has a cell beyond the last one.
Holds(v) ==
  /\ v.count > 0 => v.count < Capacity(v)
  /\ \A i \in 1 .. v.count : v.data[i] \in Node
Vectors == {v \in [data : Seq(Cell), count : Nat] : Holds(v)}

\* What is known of a vector of nodes.
LEMMA VectorIs ==
  ASSUME NEW v \in Vectors
  PROVE  /\ v = [data |-> v.data, count |-> v.count] /\ v.data \in Seq(Cell) /\ v.count \in Nat
         /\ Len(v.data) \in Nat /\ DOMAIN v.data = 1 .. Len(v.data)
         /\ v.count > 0 => v.count < Len(v.data)
         /\ \A i \in 1 .. v.count : v.data[i] \in Node
         /\ \A i \in 1 .. Len(v.data) : v.data[i] \in Cell
<1>1. v \in [data : Seq(Cell), count : Nat] /\ Holds(v)
  BY DEF Vectors
<1>2. v.data \in Seq(Cell) /\ v.count \in Nat /\ v = [data |-> v.data, count |-> v.count]
  BY <1>1
<1>3. Len(v.data) \in Nat /\ DOMAIN v.data = 1 .. Len(v.data)
      /\ \A i \in 1 .. Len(v.data) : v.data[i] \in Cell
  BY <1>2, LenProperties, ElementOfSeq
<1> QED
  BY <1>1, <1>2, <1>3 DEF Holds, Capacity

\* A vector that was just created.
LEMMA EmptyIsVector == EmptyVector \in Vectors /\ EmptyVector.count = 0
<1>1. <<>> \in Seq(Cell)
  BY EmptySeq
<1>2. EmptyVector \in [data : Seq(Cell), count : Nat] /\ EmptyVector.count = 0
  BY <1>1 DEF EmptyVector
<1> QED
  BY <1>2 DEF Vectors, Holds

\* A sequence is a function from the numbers up to its length.
LEMMA FunctionIsSequence ==
  ASSUME NEW S, NEW n \in Nat, NEW f \in [1 .. n -> S]
  PROVE  f \in Seq(S) /\ Len(f) = n
<1>1. f \in Seq(S)
  BY SeqDef
<1> QED
  BY <1>1, LenProperties

\* There is room for one entry more, and a cell beyond it.
LEMMA ExtendedHolds ==
  ASSUME NEW v \in Vectors
  PROVE  /\ Extended(v) \in Seq(Cell)
         /\ Len(Extended(v)) \in Nat /\ v.count + 1 < Len(Extended(v))
         /\ \A i \in 1 .. v.count : Extended(v)[i] = v.data[i]
<1> DEFINE nothing == [k \in 1 .. BlockSize |-> Nothing]
           junk == [k \in 1 .. BlockSize |-> Junk]
<1>1. /\ nothing \in Seq(Cell) /\ Len(nothing) = BlockSize
      /\ junk \in Seq(Cell) /\ Len(junk) = BlockSize
  <2>1. nothing \in [1 .. BlockSize -> Cell] /\ junk \in [1 .. BlockSize -> Cell]
    BY DEF Cell
  <2> HIDE DEF nothing, junk
  <2> QED
    BY <2>1, VectorAssumption, FunctionIsSequence
<1>2. /\ Extended(v) = IF v.data = <<>> THEN nothing
                       ELSE IF v.count + 1 >= Len(v.data) THEN v.data \o junk ELSE v.data
  BY DEF Extended, Capacity
<1> HIDE DEF nothing, junk
<1>3. BlockSize \in Nat /\ BlockSize > 1
  BY VectorAssumption
<1>4. CASE v.data = <<>>
  <2>1. v.count = 0
    BY <1>4, VectorIs, EmptySeq
  <2>2. Extended(v) = nothing
    BY <1>2, <1>4
  <2> QED
    BY <1>1, <1>3, <2>1, <2>2
<1>5. CASE v.data # <<>> /\ v.count + 1 >= Len(v.data)
  <2>1. Extended(v) = v.data \o junk
    BY <1>2, <1>5
  <2>2. /\ v.data \in Seq(Cell) /\ v.count \in Nat /\ Len(v.data) \in Nat
        /\ v.count > 0 => v.count < Len(v.data)
    BY VectorIs
  <2>3. Len(v.data) > 0
    BY <1>5, <2>2, EmptySeq
  <2>4. /\ v.data \o junk \in Seq(Cell) /\ Len(v.data \o junk) = Len(v.data) + BlockSize
        /\ \A i \in 1 .. Len(v.data) : (v.data \o junk)[i] = v.data[i]
    <3> HIDE DEF Cell
    <3>1. /\ v.data \o junk \in Seq(Cell) /\ Len(v.data \o junk) = Len(v.data) + Len(junk)
          /\ \A i \in 1 .. Len(v.data) + Len(junk) :
               (v.data \o junk)[i] = IF i <= Len(v.data) THEN v.data[i] ELSE junk[i - Len(v.data)]
      BY <1>1, <2>2, ConcatProperties
    <3>2. \A i \in 1 .. Len(v.data) : i \in 1 .. Len(v.data) + Len(junk) /\ i <= Len(v.data)
      BY <1>1, <1>3, <2>2
    <3> QED
      BY <1>1, <3>1, <3>2
  <2>5. \A i \in 1 .. v.count : i \in 1 .. Len(v.data)
    BY <2>2
  <2>6. v.count + 1 < Len(v.data) + BlockSize /\ Len(v.data) + BlockSize \in Nat
    BY <1>3, <2>2, <2>3
  <2> QED
    BY <2>1, <2>4, <2>5, <2>6
<1>6. CASE v.data # <<>> /\ ~(v.count + 1 >= Len(v.data))
  <2>1. Extended(v) = v.data
    BY <1>2, <1>6
  <2> QED
    BY <1>6, <2>1, VectorIs
<1> QED
  BY <1>4, <1>5, <1>6

\* An entry is put after the others.
LEMMA PushedVector ==
  ASSUME NEW v \in Vectors, NEW x \in Node
  PROVE  /\ Pushed(v, x) \in Vectors /\ Pushed(v, x).count = v.count + 1
         /\ Pushed(v, x).data[v.count + 1] = x
         /\ \A i \in 1 .. v.count : Pushed(v, x).data[i] = v.data[i]
<1> DEFINE e == Extended(v)
           d == [e EXCEPT ![v.count + 1] = x]
<1>1. Pushed(v, x) = [data |-> d, count |-> v.count + 1]
  BY DEF Pushed
<1>2. /\ e \in Seq(Cell) /\ Len(e) \in Nat /\ v.count + 1 < Len(e) /\ v.count \in Nat
      /\ \A i \in 1 .. v.count : e[i] = v.data[i] /\ v.data[i] \in Node
  BY ExtendedHolds, VectorIs
<1>3. x \in Cell
  BY DEF Cell
<1> HIDE DEF e
<1>4. /\ d \in Seq(Cell) /\ Len(d) = Len(e) /\ d[v.count + 1] = x
      /\ \A i \in 1 .. v.count : d[i] = e[i]
  <2> HIDE DEF Cell
  <2>1. DOMAIN e = 1 .. Len(e) /\ v.count + 1 \in 1 .. Len(e) /\ e \in [1 .. Len(e) -> Cell]
    BY <1>2, LenProperties
  <2>2. d \in [1 .. Len(e) -> Cell]
    BY <1>3, <2>1
  <2>3. d \in Seq(Cell) /\ Len(d) = Len(e)
    <3> HIDE DEF d
    <3> QED
      BY <1>2, <2>2, FunctionIsSequence
  <2>4. \A i \in 1 .. v.count : i \in 1 .. Len(e) /\ i # v.count + 1
    BY <1>2
  <2> QED
    BY <2>1, <2>3, <2>4
<1> HIDE DEF d
<1>5. \A i \in 1 .. v.count + 1 : i \in 1 .. v.count \/ i = v.count + 1
  BY <1>2
<1>6. \A i \in 1 .. v.count + 1 : d[i] \in Node
  BY <1>2, <1>4, <1>5
<1>7. [data |-> d, count |-> v.count + 1] \in [data : Seq(Cell), count : Nat]
  BY <1>2, <1>4
<1>8. [data |-> d, count |-> v.count + 1] \in Vectors
  BY <1>2, <1>4, <1>6, <1>7 DEF Vectors, Holds, Capacity
<1> QED
  BY <1>1, <1>2, <1>4, <1>8

\* The entries after the one that is removed move up.
LEMMA RemovedVector ==
  ASSUME NEW v \in Vectors, NEW p \in 1 .. v.count
  PROVE  /\ RemoveEntry(v, p) \in Vectors /\ RemoveEntry(v, p).count = v.count - 1
         /\ \A i \in 1 .. v.count - 1 :
              RemoveEntry(v, p).data[i] = IF i < p THEN v.data[i] ELSE v.data[i + 1]
<1> DEFINE c == v.count
           n == Len(v.data)
           d == [k \in 1 .. n |-> IF k < p THEN v.data[k]
                                  ELSE IF k <= c THEN At(v, k + 1) ELSE Nothing]
<1>1. RemoveEntry(v, p) = [data |-> d, count |-> c - 1]
  BY DEF RemoveEntry, Capacity
<1>2. /\ c \in Nat /\ n \in Nat /\ c < n /\ p \in 1 .. c /\ c > 0
      /\ \A i \in 1 .. c : v.data[i] \in Node
      /\ \A i \in 1 .. n : v.data[i] \in Cell
  BY VectorIs
<1>3. \A k : At(v, k) = IF k \in 1 .. n THEN v.data[k] ELSE Outside
  BY DEF At, Capacity
<1> HIDE DEF c, n
<1>4. d \in Seq(Cell) /\ Len(d) = n
  <2>1. \A k \in 1 .. n : d[k] \in Cell
    <3>1. \A k \in 1 .. n : At(v, k + 1) \in Cell
      BY <1>2, <1>3 DEF Cell
    <3>2. Nothing \in Cell
      BY DEF Cell
    <3> HIDE DEF Cell
    <3> QED
      BY <1>2, <3>1, <3>2
  <2>2. d \in [1 .. n -> Cell]
    BY <2>1
  <2> HIDE DEF d
  <2> QED
    BY <1>2, <2>2, FunctionIsSequence
<1>5. \A i \in 1 .. c - 1 : d[i] = IF i < p THEN v.data[i] ELSE v.data[i + 1]
  <2>1. \A i \in 1 .. c - 1 : i \in 1 .. n /\ i + 1 \in 1 .. n /\ i <= c /\ i \in Nat
    BY <1>2
  <2> QED
    BY <1>2, <1>3, <2>1
<1> HIDE DEF d
<1>6. \A i \in 1 .. c - 1 : d[i] \in Node
  <2>1. \A i \in 1 .. c - 1 : i \in 1 .. c /\ i + 1 \in 1 .. c
    BY <1>2
  <2> QED
    BY <1>2, <1>5, <2>1
<1>7. [data |-> d, count |-> c - 1] \in [data : Seq(Cell), count : Nat]
  BY <1>2, <1>4
<1>8. [data |-> d, count |-> c - 1] \in Vectors
  BY <1>2, <1>4, <1>6, <1>7 DEF Vectors, Holds, Capacity
<1> QED
  BY <1>1, <1>5, <1>8 DEF c

-----------------------------------------------------------------------------
(* Tables of buckets.                                                      *)

Tables(n) == [1 .. n -> Vectors]

\* The keys of a bucket belong to it, and each is there once.
BucketOK(n, b, v) ==
  /\ \A i \in 1 .. v.count : Bucket(v.data[i].key, n) = b
  /\ \A i, j \in 1 .. v.count : v.data[i].key = v.data[j].key => i = j

In(v, x) == \E i \in 1 .. v.count : v.data[i] = x

\* The nodes in a table.
All(bs) == {x \in Node : \E b \in DOMAIN bs : In(bs[b], x)}

\* The table of n buckets holds the nodes in S, each once, where it belongs.
Stands(n, bs, S) ==
  /\ bs \in Tables(n)
  /\ \A b \in 1 .. n : BucketOK(n, b, bs[b])
  /\ All(bs) = S

HashOK == hasher \in [Key -> Nat]

\* A key has a bucket.
LEMMA BucketIn ==
  ASSUME HashOK, NEW k \in Key, NEW n \in Nat \ {0}
  PROVE  Bucket(k, n) \in 1 .. n
<1>1. hasher[k] \in Nat
  BY DEF HashOK
<1>2. \A h \in Nat : (h % n) + 1 \in 1 .. n
  OBVIOUS
<1> QED
  BY <1>1, <1>2 DEF Bucket

\* A table of empty buckets holds nothing.
LEMMA EmptyStands ==
  ASSUME NEW n
  PROVE  Stands(n, [b \in 1 .. n |-> EmptyVector], {})
<1> DEFINE bs == [b \in 1 .. n |-> EmptyVector]
<1>1. bs \in Tables(n)
  BY EmptyIsVector DEF Tables
<1>2. \A b \in 1 .. n : bs[b].count = 0 /\ 1 .. bs[b].count = {}
  BY EmptyIsVector
<1>3. All(bs) = {}
  BY <1>2 DEF All, In
<1>4. \A b \in 1 .. n : BucketOK(n, b, bs[b])
  BY <1>2 DEF BucketOK
<1> QED
  BY <1>1, <1>3, <1>4 DEF Stands

\* A node of a table is in the bucket of its key.
LEMMA WhereItIs ==
  ASSUME NEW n, NEW bs, NEW S, Stands(n, bs, S), NEW x \in S
  PROVE  x \in Node /\ Bucket(x.key, n) \in 1 .. n /\ In(bs[Bucket(x.key, n)], x)
<1>1. x \in Node /\ DOMAIN bs = 1 .. n /\ \E b \in 1 .. n : In(bs[b], x)
  BY DEF Stands, All, Tables
<1>2. PICK b \in 1 .. n : In(bs[b], x)
  BY <1>1
<1>3. PICK i \in 1 .. bs[b].count : bs[b].data[i] = x
  BY <1>2 DEF In
<1>4. Bucket(x.key, n) = b
  BY <1>3 DEF Stands, BucketOK
<1> QED
  BY <1>1, <1>2, <1>4

\* One bucket of a table changes: what it holds then is in its place.
LEMMA BucketChanged ==
  ASSUME NEW n, NEW bs, NEW S, Stands(n, bs, S), NEW b \in 1 .. n, NEW w \in Vectors,
         BucketOK(n, b, w)
  PROVE  Stands(n, [bs EXCEPT ![b] = w],
                {x \in S : Bucket(x.key, n) # b} \cup {x \in Node : In(w, x)})
<1> DEFINE new == [bs EXCEPT ![b] = w]
           T == {x \in S : Bucket(x.key, n) # b} \cup {x \in Node : In(w, x)}
<1>1. bs \in Tables(n) /\ DOMAIN bs = 1 .. n
  BY DEF Stands, Tables
<1>2. new \in Tables(n) /\ DOMAIN new = 1 .. n
  BY <1>1 DEF Tables
<1>3. new[b] = w /\ \A c \in 1 .. n : c # b => new[c] = bs[c]
  BY <1>1
<1> HIDE DEF new
<1>4. \A c \in 1 .. n : BucketOK(n, c, new[c])
  BY <1>3 DEF Stands
<1>5. ASSUME NEW x \in All(new) PROVE x \in T
  <2>1. x \in Node
    BY <1>5 DEF All
  <2>2. PICK c \in 1 .. n : In(new[c], x)
    BY <1>2, <1>5 DEF All
  <2>3. CASE c = b
    BY <1>3, <2>1, <2>2, <2>3
  <2>4. CASE c # b
    <3>1. In(bs[c], x)
      BY <1>3, <2>2, <2>4
    <3>2. x \in S
      BY <1>1, <2>1, <3>1 DEF Stands, All
    <3>3. Bucket(x.key, n) = c
      BY <3>1 DEF In, Stands, BucketOK
    <3> QED
      BY <2>4, <3>2, <3>3
  <2> QED
    BY <2>3, <2>4
<1>6. ASSUME NEW x \in T PROVE x \in All(new)
  <2>1. CASE x \in Node /\ In(w, x)
    BY <1>2, <1>3, <2>1 DEF All
  <2>2. CASE x \in S /\ Bucket(x.key, n) # b
    <3>1. x \in Node /\ Bucket(x.key, n) \in 1 .. n /\ In(bs[Bucket(x.key, n)], x)
      BY <2>2, WhereItIs
    <3>2. In(new[Bucket(x.key, n)], x)
      BY <1>3, <2>2, <3>1
    <3> QED
      BY <1>2, <3>1, <3>2 DEF All
  <2> QED
    BY <2>1, <2>2
<1> HIDE DEF T
<1>7. All(new) = T
  BY <1>5, <1>6
<1> QED
  BY <1>2, <1>4, <1>7 DEF Stands, new, T

\* A node of a key that is not there is put where it belongs.
LEMMA PutStands ==
  ASSUME HashOK, NEW n \in Nat \ {0}, NEW bs, NEW S, Stands(n, bs, S),
         NEW x \in Node, \A y \in S : y.key # x.key
  PROVE  Stands(n, Put(n, bs, x), S \cup {x})
<1> DEFINE b == Bucket(x.key, n)
           w == Pushed(bs[b], x)
<1>1. x.key \in Key
  BY DEF Node
<1>2. b \in 1 .. n
  BY <1>1, BucketIn
<1>3. bs[b] \in Vectors /\ BucketOK(n, b, bs[b]) /\ DOMAIN bs = 1 .. n
  BY <1>2 DEF Stands, Tables
<1>4. /\ w \in Vectors /\ w.count = bs[b].count + 1 /\ w.data[bs[b].count + 1] = x
      /\ \A i \in 1 .. bs[b].count : w.data[i] = bs[b].data[i] /\ bs[b].data[i] \in Node
      /\ bs[b].count \in Nat
  BY <1>3, PushedVector, VectorIs
<1>5. Put(n, bs, x) = [bs EXCEPT ![b] = w]
  BY DEF Put
<1>6. Bucket(x.key, n) = b
  OBVIOUS
<1> HIDE DEF w, b
<1>7. \A i \in 1 .. w.count : i \in 1 .. bs[b].count \/ i = bs[b].count + 1
  BY <1>4
<1>8. \A i \in 1 .. bs[b].count : bs[b].data[i] \in S
  BY <1>2, <1>3, <1>4 DEF Stands, All, In
<1>9. BucketOK(n, b, w)
  <2>1. \A i \in 1 .. w.count : Bucket(w.data[i].key, n) = b
    BY <1>3, <1>4, <1>6, <1>7 DEF BucketOK
  <2>2. \A i \in 1 .. bs[b].count : w.data[i].key # x.key
    BY <1>4, <1>8
  <2>3. \A i, j \in 1 .. bs[b].count : w.data[i].key = w.data[j].key => i = j
    BY <1>3, <1>4 DEF BucketOK
  <2>4. \A i, j \in 1 .. w.count : w.data[i].key = w.data[j].key => i = j
    BY <1>4, <1>7, <2>2, <2>3
  <2> QED
    BY <2>1, <2>4 DEF BucketOK
<1>10. \A y : In(w, y) <=> In(bs[b], y) \/ y = x
  <2>1. \A i \in 1 .. bs[b].count : i \in 1 .. w.count
    BY <1>4
  <2>2. bs[b].count + 1 \in 1 .. w.count
    BY <1>4
  <2> QED
    BY <1>4, <1>7, <2>1, <2>2 DEF In
<1>11. \A y \in S : y \in Node /\ (Bucket(y.key, n) = b => In(bs[b], y))
  BY WhereItIs
<1>12. \A y : In(bs[b], y) => y \in S
  BY <1>8 DEF In
<1>13. {y \in S : Bucket(y.key, n) # b} \cup {y \in Node : In(w, y)} = S \cup {x}
  <2> DEFINE T == {y \in S : Bucket(y.key, n) # b} \cup {y \in Node : In(w, y)}
  <2>1. ASSUME NEW y \in S PROVE y \in T
    BY <1>10, <1>11
  <2>2. x \in T
    BY <1>10
  <2>3. ASSUME NEW y \in T PROVE y \in S \cup {x}
    BY <1>10, <1>12
  <2> HIDE DEF T
  <2>4. T = S \cup {x}
    BY <2>1, <2>2, <2>3
  <2> QED
    BY <2>4 DEF T
<1>14. Stands(n, [bs EXCEPT ![b] = w],
              {y \in S : Bucket(y.key, n) # b} \cup {y \in Node : In(w, y)})
  BY <1>2, <1>4, <1>9, BucketChanged
<1> QED
  BY <1>5, <1>13, <1>14

\* Two nodes of a table do not have the same key.
LEMMA KeyedOnce ==
  ASSUME NEW n, NEW bs, NEW S, Stands(n, bs, S), NEW x \in S, NEW y \in S, x.key = y.key
  PROVE  x = y
<1> DEFINE b == Bucket(x.key, n)
<1>1. b \in 1 .. n /\ In(bs[b], x) /\ In(bs[b], y)
  BY WhereItIs
<1>2. PICK i \in 1 .. bs[b].count : bs[b].data[i] = x
  BY <1>1 DEF In
<1>3. PICK j \in 1 .. bs[b].count : bs[b].data[j] = y
  BY <1>1 DEF In
<1>4. i = j
  BY <1>1, <1>2, <1>3 DEF Stands, BucketOK
<1> QED
  BY <1>2, <1>3, <1>4

\* The entry that Find chooses: the one of the key, or none.
LEMMA Found ==
  ASSUME HashOK, NEW n \in Nat \ {0}, NEW bs, NEW S, Stands(n, bs, S), NEW k \in Key
  PROVE  LET v == bs[Bucket(k, n)]
             p == Find(v, k)
         IN  /\ p = 0 => \A x \in S : x.key # k
             /\ p # 0 => p \in 1 .. v.count /\ v.data[p] \in S /\ v.data[p].key = k
<1> DEFINE b == Bucket(k, n)
           v == bs[b]
           p == Find(v, k)
           I == {i \in 1 .. v.count : v.data[i].key = k}
<1>1. b \in 1 .. n
  BY BucketIn
<1>2. v \in Vectors /\ v.count \in Nat
  BY <1>1, VectorIs DEF Stands, Tables
<1>3. p = IF I = {} THEN 0 ELSE Min(I)
  BY DEF Find
<1>4. CASE I = {}
  <2>1. p = 0
    BY <1>3, <1>4
  <2>2. \A x \in S : x.key # k
    <3> SUFFICES ASSUME NEW x \in S, x.key = k PROVE FALSE
      OBVIOUS
    <3>1. In(v, x)
      BY WhereItIs
    <3> QED
      BY <1>4, <3>1 DEF In
  <2> QED
    BY <2>1, <2>2
<1>5. CASE I # {}
  <2>1. I \subseteq Nat
    BY <1>2
  <2>2. Min(I) \in I
    <3> HIDE DEF I
    <3> QED
      BY <1>5, <2>1, MinIn
  <2>3. p \in 1 .. v.count /\ v.data[p].key = k /\ p # 0
    BY <1>2, <1>3, <1>5, <2>2
  <2>4. v.data[p] \in Node
    BY <1>2, <2>3, VectorIs
  <2>5. v.data[p] \in S
    <3>1. DOMAIN bs = 1 .. n /\ S = All(bs)
      BY DEF Stands, Tables
    <3>2. In(v, v.data[p])
      BY <2>3 DEF In
    <3> HIDE DEF p
    <3> QED
      BY <1>1, <2>4, <3>1, <3>2 DEF All
  <2> QED
    BY <2>3, <2>5
<1> QED
  BY <1>4, <1>5

\* A node is removed.
LEMMA RemovedStands ==
  ASSUME HashOK, NEW n \in Nat \ {0}, NEW bs, NEW S, Stands(n, bs, S), NEW b \in 1 .. n,
         NEW p \in 1 .. bs[b].count
  PROVE  Stands(n, [bs EXCEPT ![b] = RemoveEntry(@, p)], S \ {bs[b].data[p]})
<1> DEFINE v == bs[b]
           w == RemoveEntry(v, p)
           x == v.data[p]
<1>1. v \in Vectors /\ BucketOK(n, b, v) /\ DOMAIN bs = 1 .. n
  BY DEF Stands, Tables
<1>2. /\ w \in Vectors /\ w.count = v.count - 1
      /\ \A i \in 1 .. v.count - 1 : w.data[i] = IF i < p THEN v.data[i] ELSE v.data[i + 1]
      /\ v.count \in Nat
      /\ \A i \in 1 .. v.count : v.data[i] \in Node
  BY <1>1, RemovedVector, VectorIs
<1>3. [bs EXCEPT ![b] = RemoveEntry(@, p)] = [bs EXCEPT ![b] = w]
  BY <1>1
<1>4. p \in 1 .. v.count
  OBVIOUS
<1> HIDE DEF w
<1> DEFINE From(i) == IF i < p THEN i ELSE i + 1
<1>5. /\ \A i \in 1 .. w.count : From(i) \in 1 .. v.count /\ From(i) # p /\ w.data[i] = v.data[From(i)]
      /\ \A i, j \in 1 .. w.count : From(i) = From(j) => i = j
      /\ \A j \in 1 .. v.count : j # p => \E i \in 1 .. w.count : From(i) = j
  <2>1. w.count = v.count - 1 /\ v.count \in Nat /\ p \in 1 .. v.count
    BY <1>2, <1>4
  <2> HIDE DEF v
  <2>2. \A i \in 1 .. w.count : From(i) \in 1 .. v.count /\ From(i) # p /\ w.data[i] = v.data[From(i)]
    BY <1>2, <2>1 
  <2>3. \A i, j \in 1 .. w.count : From(i) = From(j) => i = j
    BY <2>1
  <2>4. ASSUME NEW j \in 1 .. v.count, j # p PROVE \E i \in 1 .. w.count : From(i) = j
    <3>1. CASE j < p
      <4>1. j \in 1 .. w.count /\ From(j) = j
        BY <2>1, <3>1
      <4> QED
        BY <4>1
    <3>2. CASE ~(j < p)
      <4>1. j - 1 \in 1 .. w.count /\ From(j - 1) = j
        BY <2>1, <2>4, <3>2
      <4> QED
        BY <4>1
    <3> QED
      BY <3>1, <3>2
  <2> QED
    BY <2>2, <2>3, <2>4
<1> HIDE DEF From
<1>6. BucketOK(n, b, w)
  <2> HIDE DEF v
  <2>1. \A i \in 1 .. w.count : Bucket(w.data[i].key, n) = b
    BY <1>1, <1>5 DEF BucketOK
  <2>2. ASSUME NEW i \in 1 .. w.count, NEW j \in 1 .. w.count, w.data[i].key = w.data[j].key
        PROVE  i = j
    <3>1. /\ From(i) \in 1 .. v.count /\ w.data[i] = v.data[From(i)]
          /\ From(j) \in 1 .. v.count /\ w.data[j] = v.data[From(j)]
      BY <1>5
    <3>2. From(i) = From(j)
      BY <1>1, <2>2, <3>1 DEF BucketOK
    <3> QED
      BY <1>5, <3>2
  <2> QED
    BY <2>1, <2>2 DEF BucketOK
<1>7. \A i \in 1 .. v.count : v.data[i] = x => i = p
  BY <1>1, <1>4 DEF BucketOK
<1>8. \A y : In(w, y) <=> In(v, y) /\ y # x
  <2>1. ASSUME NEW y, In(w, y) PROVE In(v, y) /\ y # x
    BY <1>5, <1>7, <2>1 DEF In
  <2>2. ASSUME NEW y, In(v, y), y # x PROVE In(w, y)
    <3>1. PICK j \in 1 .. v.count : v.data[j] = y
      BY <2>2 DEF In
    <3>2. j # p
      BY <2>2, <3>1
    <3>3. PICK i \in 1 .. w.count : From(i) = j
      BY <1>5, <3>2
    <3> QED
      BY <1>5, <3>1, <3>3 DEF In
  <2> QED
    BY <2>1, <2>2
<1>9. \A y \in S : y \in Node /\ (Bucket(y.key, n) = b => In(v, y))
  BY WhereItIs
<1>10. \A y : In(v, y) => y \in S
  BY <1>1, <1>2 DEF Stands, All, In
<1>11. Bucket(x.key, n) = b
  BY <1>1, <1>4 DEF BucketOK
<1> HIDE DEF v, x
<1>12. {y \in S : Bucket(y.key, n) # b} \cup {y \in Node : In(w, y)} = S \ {x}
  <2> DEFINE T == {y \in S : Bucket(y.key, n) # b} \cup {y \in Node : In(w, y)}
  <2>1. ASSUME NEW y \in S, y # x PROVE y \in T
    BY <1>8, <1>9, <2>1
  <2>2. ASSUME NEW y \in T PROVE y \in S /\ y # x
    BY <1>8, <1>10, <1>11
  <2> HIDE DEF T
  <2>3. T = S \ {x}
    BY <2>1, <2>2
  <2> QED
    BY <2>3 DEF T
<1> QED
  BY <1>2, <1>3, <1>6, <1>12, BucketChanged DEF x, v

\* The value of a node is replaced.
LEMMA OverwrittenStands ==
  ASSUME HashOK, NEW n \in Nat \ {0}, NEW bs, NEW S, Stands(n, bs, S), NEW b \in 1 .. n,
         NEW p \in 1 .. bs[b].count, NEW u \in Value
  PROVE  LET x == bs[b].data[p]
         IN  Stands(n, [bs EXCEPT ![b].data[p].value = u],
                    (S \ {x}) \cup {[key |-> x.key, value |-> u]})
<1> DEFINE v == bs[b]
           x == v.data[p]
           z == [key |-> x.key, value |-> u]
           w == [data |-> [v.data EXCEPT ![p] = z], count |-> v.count]
<1>1. v \in Vectors /\ BucketOK(n, b, v) /\ DOMAIN bs = 1 .. n
  BY DEF Stands, Tables
<1>2. /\ v = [data |-> v.data, count |-> v.count] /\ v.data \in Seq(Cell) /\ v.count \in Nat
      /\ Len(v.data) \in Nat /\ DOMAIN v.data = 1 .. Len(v.data)
      /\ v.count > 0 => v.count < Len(v.data)
      /\ \A i \in 1 .. v.count : v.data[i] \in Node
      /\ \A i \in 1 .. Len(v.data) : v.data[i] \in Cell
  BY <1>1, VectorIs
<1>3. p \in 1 .. v.count /\ p \in 1 .. Len(v.data)
  BY <1>2
<1>4. x \in Node /\ z \in Node /\ z \in Cell /\ x = [key |-> x.key, value |-> x.value]
  BY <1>2, <1>3 DEF Node, Cell
<1>5. [bs EXCEPT ![b].data[p].value = u] = [bs EXCEPT ![b] = w]
  <2>1. [bs EXCEPT ![b].data[p].value = u] =
          [bs EXCEPT ![b] = [v EXCEPT !.data = [v.data EXCEPT ![p] = [x EXCEPT !.value = u]]]]
    OBVIOUS
  <2>2. [x EXCEPT !.value = u] = z
    BY <1>4
  <2>3. [v EXCEPT !.data = [v.data EXCEPT ![p] = z]] = w
    BY <1>2
  <2> QED
    BY <2>1, <2>2, <2>3
<1>6. /\ w \in Vectors /\ w.count = v.count /\ w.data[p] = z
      /\ \A i \in 1 .. v.count : i # p => w.data[i] = v.data[i]
  <2> DEFINE d == [v.data EXCEPT ![p] = z]
  <2>1. d \in [1 .. Len(v.data) -> Cell]
    BY <1>2, <1>4
  <2>2. d[p] = z /\ \A i \in 1 .. v.count : i # p => d[i] = v.data[i]
    BY <1>2, <1>3
  <2> HIDE DEF d
  <2>3. d \in Seq(Cell) /\ Len(d) = Len(v.data)
    BY <1>2, <2>1, FunctionIsSequence
  <2>4. \A i \in 1 .. v.count : d[i] \in Node
    BY <1>2, <1>4, <2>2
  <2>5. w = [data |-> d, count |-> v.count]
    BY DEF d
  <2>6. w \in [data : Seq(Cell), count : Nat] /\ w.data = d /\ w.count = v.count
    BY <1>2, <2>3, <2>5
  <2>7. w \in Vectors
    BY <1>2, <2>3, <2>4, <2>6 DEF Vectors, Holds, Capacity
  <2> QED
    BY <2>2, <2>6, <2>7
<1>7. z.key = x.key
  OBVIOUS
<1> HIDE DEF w, z
<1>8. \A i \in 1 .. v.count : w.data[i].key = v.data[i].key
  BY <1>6, <1>7
<1>9. BucketOK(n, b, w)
  BY <1>1, <1>6, <1>8 DEF BucketOK
<1>10. \A i \in 1 .. v.count : v.data[i] = x => i = p
  BY <1>1, <1>3 DEF BucketOK
<1>11. \A y : In(w, y) <=> (In(v, y) /\ y # x) \/ y = z
  BY <1>3, <1>6, <1>10 DEF In
<1>12. \A y \in S : y \in Node /\ (Bucket(y.key, n) = b => In(v, y))
  BY WhereItIs
<1>13. \A y : In(v, y) => y \in S
  BY <1>1, <1>2 DEF Stands, All, In
<1>14. Bucket(x.key, n) = b
  BY <1>1, <1>3 DEF BucketOK
<1> HIDE DEF v, x
<1>15. {y \in S : Bucket(y.key, n) # b} \cup {y \in Node : In(w, y)} = (S \ {x}) \cup {z}
  <2> DEFINE T == {y \in S : Bucket(y.key, n) # b} \cup {y \in Node : In(w, y)}
  <2>1. ASSUME NEW y \in S, y # x PROVE y \in T
    BY <1>11, <1>12, <2>1
  <2>2. z \in T
    BY <1>4, <1>11
  <2>3. ASSUME NEW y \in T PROVE y \in (S \ {x}) \cup {z}
    BY <1>11, <1>13, <1>14
  <2> HIDE DEF T
  <2>4. T = (S \ {x}) \cup {z}
    BY <2>1, <2>2, <2>3
  <2> QED
    BY <2>4 DEF T
<1> QED
  BY <1>5, <1>6, <1>9, <1>15, BucketChanged DEF x, v, z

-----------------------------------------------------------------------------
(* Resizing: the recursions of MoveNodes and of Resize.                    *)

Moves(f, n, v, bs) ==
  f = [j \in 0 .. v.count |-> IF j = 0 THEN bs ELSE Put(n, f[j-1], v.data[j])]

Resizes(f, n, bs) ==
  f = [i \in 0 .. Len(bs) |->
         IF i = 0 THEN [b \in 1 .. n |-> EmptyVector] ELSE MoveNodes(n, bs[i], f[i-1])]

\* Putting a node into a table gives a table.
LEMMA PutTable ==
  ASSUME HashOK, NEW n \in Nat \ {0}, NEW bs \in Tables(n), NEW x \in Node
  PROVE  Put(n, bs, x) \in Tables(n)
<1> DEFINE b == Bucket(x.key, n)
<1>1. b \in 1 .. n /\ bs[b] \in Vectors
  BY BucketIn DEF Node, Tables
<1>2. Pushed(bs[b], x) \in Vectors
  BY <1>1, PushedVector
<1>3. Put(n, bs, x) = [bs EXCEPT ![b] = Pushed(bs[b], x)]
  BY <1>1 DEF Put, Tables
<1> HIDE DEF b
<1> QED
  BY <1>1, <1>2, <1>3 DEF Tables

\* The function that MoveNodes chooses exists.
LEMMA MovesExists ==
  ASSUME HashOK, NEW n \in Nat \ {0}, NEW bs \in Tables(n), NEW v \in Vectors
  PROVE  \E f \in [0 .. v.count -> Tables(n)] : Moves(f, n, v, bs)
<1> PICK c \in Nat : c = v.count
  BY VectorIs
<1>0. \A j \in 1 .. c : v.data[j] \in Node
  BY VectorIs
<1> DEFINE step == [j \in 1 .. c |-> [t \in Tables(n) |-> Put(n, t, v.data[j])]]
<1>1. step \in Steps(c, Tables(n))
  BY <1>0, PutTable DEF Steps
<1>2. PICK f : Follows(f, c, Tables(n), bs, step)
  <2> HIDE DEF step
  <2> QED
    BY <1>1, StepByStep
<1>3. ASSUME NEW j \in 1 .. c PROVE f[j] = Put(n, f[j-1], v.data[j])
  <2>1. j - 1 \in 0 .. c
    OBVIOUS
  <2>2. f[j - 1] \in Tables(n)
    BY <1>2, <2>1 DEF Follows
  <2>3. f[j] = step[j][f[j - 1]]
    BY <1>2 DEF Follows
  <2> QED
    BY <2>2, <2>3
<1>4. f = [j \in 0 .. c |-> IF j = 0 THEN bs ELSE Put(n, f[j-1], v.data[j])]
  <2> HIDE DEF step
  <2>1. \A j \in 0 .. c : j = 0 \/ j \in 1 .. c
    OBVIOUS
  <2> QED
    BY <1>2, <1>3, <2>1 DEF Follows
<1>5. f \in [0 .. v.count -> Tables(n)]
  BY <1>2 DEF Follows
<1> QED
  BY <1>4, <1>5 DEF Moves

\* The nodes of a vector are added to those of a table that has none of their keys.
LEMMA MovedStands ==
  ASSUME HashOK, NEW n \in Nat \ {0}, NEW bs, NEW S, Stands(n, bs, S), NEW v \in Vectors,
         \A i, j \in 1 .. v.count : v.data[i].key = v.data[j].key => i = j,
         \A i \in 1 .. v.count : \A y \in S : y.key # v.data[i].key
  PROVE  Stands(n, MoveNodes(n, v, bs), S \cup {x \in Node : In(v, x)})
<1>0. v.count \in Nat /\ \A i \in 1 .. v.count : v.data[i] \in Node
  BY VectorIs
<1>1. \E f : Moves(f, n, v, bs)
  <2>1. bs \in Tables(n)
    BY DEF Stands
  <2> QED
    BY <2>1, MovesExists
<1> DEFINE moved[j \in 0 .. v.count] ==
             IF j = 0 THEN bs ELSE Put(n, moved[j-1], v.data[j])
<1>2. MoveNodes(n, v, bs) = moved[v.count]
  BY DEF MoveNodes
<1>3. moved = [j \in 0 .. v.count |-> IF j = 0 THEN bs ELSE Put(n, moved[j-1], v.data[j])]
  BY <1>1 DEF Moves
<1> HIDE DEF moved
<1>4. moved[0] = bs
  BY <1>0, <1>3
<1>5. ASSUME NEW j \in 1 .. v.count PROVE moved[j] = Put(n, moved[j-1], v.data[j])
  <2>1. j \in 0 .. v.count /\ j # 0
    BY <1>0
  <2> QED
    BY <1>3, <2>1
<1> DEFINE Seen(j) == {v.data[i] : i \in 1 .. j}
           Good(j) == Stands(n, moved[j], S \cup Seen(j))
           P == {j \in 0 .. v.count : Good(j)}
<1>6. 0 \in P
  <2>1. Seen(0) = {}
    OBVIOUS
  <2> HIDE DEF Seen
  <2> QED
    BY <1>0, <1>4, <2>1
<1>7. ASSUME NEW j \in 1 .. v.count, j - 1 \in P PROVE j \in P
  <2>1. Good(j - 1) /\ j \in 0 .. v.count /\ v.data[j] \in Node
    BY <1>0, <1>7
  <2>2. Seen(j) = Seen(j - 1) \cup {v.data[j]}
    <3>1. 1 .. j = (1 .. j - 1) \cup {j}
      BY <1>0
    <3>2. \A x : x \in Seen(j) <=> x \in Seen(j - 1) \/ x = v.data[j]
      BY <3>1
    <3> QED
      BY <3>2
  <2>3. \A y \in S \cup Seen(j - 1) : y.key # v.data[j].key
    <3>1. \A i \in 1 .. j - 1 : i \in 1 .. v.count /\ i # j
      BY <1>0
    <3>2. \A i \in 1 .. j - 1 : v.data[i].key # v.data[j].key
      BY <3>1
    <3> QED
      BY <3>2
  <2> HIDE DEF Seen
  <2>4. Stands(n, Put(n, moved[j-1], v.data[j]), (S \cup Seen(j - 1)) \cup {v.data[j]})
    BY <2>1, <2>3, PutStands
  <2>5. (S \cup Seen(j - 1)) \cup {v.data[j]} = S \cup Seen(j)
    BY <2>2
  <2>6. Good(j)
    BY <1>5, <2>4, <2>5
  <2> QED
    BY <2>1, <2>6
<1>8. v.count \in P
  <2> HIDE DEF P
  <2>1. \A j \in 0 .. v.count : j \in P
    BY <1>0, <1>6, <1>7, UpTo
  <2> QED
    BY <1>0, <2>1
<1>9. Seen(v.count) = {x \in Node : In(v, x)}
  BY <1>0 DEF In
<1> HIDE DEF Seen
<1> QED
  BY <1>2, <1>8, <1>9

\* Moving the nodes of a vector into a table gives a table.
LEMMA MovedTable ==
  ASSUME HashOK, NEW n \in Nat \ {0}, NEW bs \in Tables(n), NEW v \in Vectors
  PROVE  MoveNodes(n, v, bs) \in Tables(n)
<1>0. v.count \in Nat
  BY VectorIs
<1>1. PICK f : f \in [0 .. v.count -> Tables(n)] /\ Moves(f, n, v, bs)
  BY MovesExists
<1> DEFINE moved[j \in 0 .. v.count] ==
             IF j = 0 THEN bs ELSE Put(n, moved[j-1], v.data[j])
           P == {j \in 0 .. v.count : moved[j] \in Tables(n)}
<1>2. MoveNodes(n, v, bs) = moved[v.count]
  BY DEF MoveNodes
<1>3. moved = [j \in 0 .. v.count |-> IF j = 0 THEN bs ELSE Put(n, moved[j-1], v.data[j])]
  BY <1>1 DEF Moves
<1> HIDE DEF moved
<1>4. 0 \in P
  BY <1>0, <1>3
<1>5. ASSUME NEW j \in 1 .. v.count, j - 1 \in P PROVE j \in P
  <2>1. j \in 0 .. v.count /\ j # 0 /\ v.data[j] \in Node
    BY <1>0, VectorIs
  <2>2. moved[j] = Put(n, moved[j-1], v.data[j])
    BY <1>3, <2>1
  <2>3. moved[j] \in Tables(n)
    BY <1>5, <2>1, <2>2, PutTable
  <2> QED
    BY <2>1, <2>3
<1>6. v.count \in P
  <2> HIDE DEF P
  <2>1. \A j \in 0 .. v.count : j \in P
    BY <1>0, <1>4, <1>5, UpTo
  <2> QED
    BY <1>0, <2>1
<1> QED
  BY <1>2, <1>6

\* The function that Resize chooses exists.
LEMMA ResizesExists ==
  ASSUME HashOK, NEW n \in Nat \ {0}, NEW m \in Nat, NEW bs \in Tables(m)
  PROVE  \E f : Resizes(f, n, bs)
<1>0. Len(bs) = m /\ \A i \in 1 .. m : bs[i] \in Vectors
  BY FunctionIsSequence DEF Tables
<1> DEFINE empty == [b \in 1 .. n |-> EmptyVector]
           step == [i \in 1 .. m |-> [t \in Tables(n) |-> MoveNodes(n, bs[i], t)]]
<1>1. step \in Steps(m, Tables(n))
  BY <1>0, MovedTable DEF Steps
<1>2. empty \in Tables(n)
  BY EmptyIsVector DEF Tables
<1>3. PICK f : Follows(f, m, Tables(n), empty, step)
  <2> HIDE DEF step, empty
  <2> QED
    BY <1>1, <1>2, StepByStep
<1>4. ASSUME NEW i \in 1 .. m PROVE f[i] = MoveNodes(n, bs[i], f[i-1])
  <2>1. i - 1 \in 0 .. m
    OBVIOUS
  <2>2. f[i - 1] \in Tables(n)
    BY <1>3, <2>1 DEF Follows
  <2>3. f[i] = step[i][f[i - 1]]
    BY <1>3 DEF Follows
  <2> QED
    BY <2>2, <2>3
<1>5. f = [i \in 0 .. m |-> IF i = 0 THEN empty ELSE MoveNodes(n, bs[i], f[i-1])]
  <2> HIDE DEF step, empty
  <2>1. \A i \in 0 .. m : i = 0 \/ i \in 1 .. m
    OBVIOUS
  <2> QED
    BY <1>3, <1>4, <2>1 DEF Follows
<1> QED
  BY <1>0, <1>5 DEF Resizes

\* A table that is resized holds the same nodes.
LEMMA ResizedStands ==
  ASSUME HashOK, NEW n \in Nat \ {0}, NEW m \in Nat \ {0}, NEW bs, NEW S, Stands(m, bs, S)
  PROVE  Stands(n, Resize(n, bs), S)
<1>0. bs \in Tables(m) /\ DOMAIN bs = 1 .. m /\ Len(bs) = m /\ \A i \in 1 .. m : bs[i] \in Vectors
  BY FunctionIsSequence DEF Stands, Tables
<1>1. \E f : Resizes(f, n, bs)
  BY <1>0, ResizesExists
<1> DEFINE moved[i \in 0 .. Len(bs)] ==
             IF i = 0 THEN [b \in 1 .. n |-> EmptyVector] ELSE MoveNodes(n, bs[i], moved[i-1])
<1>2. Resize(n, bs) = moved[m]
  BY <1>0 DEF Resize
<1>3. moved = [i \in 0 .. Len(bs) |->
                 IF i = 0 THEN [b \in 1 .. n |-> EmptyVector] ELSE MoveNodes(n, bs[i], moved[i-1])]
  BY <1>1 DEF Resizes
<1> HIDE DEF moved
<1>4. moved[0] = [b \in 1 .. n |-> EmptyVector]
  BY <1>0, <1>3
<1>5. ASSUME NEW i \in 1 .. m PROVE moved[i] = MoveNodes(n, bs[i], moved[i-1])
  <2>1. i \in 0 .. Len(bs) /\ i # 0
    BY <1>0
  <2> QED
    BY <1>3, <2>1
<1> DEFINE Seen(i) == {x \in S : Bucket(x.key, m) <= i}
           Good(i) == Stands(n, moved[i], Seen(i))
           P == {i \in 0 .. m : Good(i)}
<1>6. \A x \in S : x \in Node /\ Bucket(x.key, m) \in 1 .. m /\ In(bs[Bucket(x.key, m)], x)
  BY WhereItIs
<1>7. 0 \in P
  <2>1. Seen(0) = {}
    BY <1>6
  <2>2. 0 \in 0 .. m
    BY <1>0
  <2> HIDE DEF Seen
  <2>3. Good(0)
    BY <1>4, <2>1, EmptyStands
  <2> HIDE DEF Good
  <2> QED
    BY <2>2, <2>3
<1>8. ASSUME NEW i \in 1 .. m, i - 1 \in P PROVE i \in P
  <2>1. Good(i - 1) /\ i \in 0 .. m /\ bs[i] \in Vectors /\ BucketOK(m, i, bs[i])
    BY <1>0, <1>8 DEF Stands
  <2>2. \A x \in Node : In(bs[i], x) => x \in S
    BY <1>0 DEF Stands, All
  <2>3. Seen(i) = Seen(i - 1) \cup {x \in Node : In(bs[i], x)}
    <3> DEFINE T == {x \in Node : In(bs[i], x)}
    <3>1. ASSUME NEW x \in Seen(i) PROVE x \in Seen(i - 1) \cup T
      <4>1. x \in S /\ x \in Node /\ Bucket(x.key, m) \in 1 .. m /\ Bucket(x.key, m) <= i
        BY <1>6
      <4>2. CASE Bucket(x.key, m) = i
        BY <1>6, <4>1, <4>2
      <4>3. CASE Bucket(x.key, m) # i
        BY <4>1, <4>3
      <4> QED
        BY <4>2, <4>3
    <3>2. ASSUME NEW x \in Seen(i - 1) PROVE x \in Seen(i)
      <4>1. x \in S /\ Bucket(x.key, m) \in 1 .. m /\ Bucket(x.key, m) <= i - 1
        BY <1>6
      <4> QED
        BY <4>1
    <3>3. ASSUME NEW x \in T PROVE x \in Seen(i)
      <4>1. Bucket(x.key, m) = i
        BY <2>1 DEF In, BucketOK
      <4> QED
        BY <2>2, <4>1
    <3> HIDE DEF T, Seen
    <3>4. Seen(i) = Seen(i - 1) \cup T
      BY <3>1, <3>2, <3>3
    <3> QED
      BY <3>4 DEF T
  <2>4. \A j \in 1 .. bs[i].count : \A y \in Seen(i - 1) : y.key # bs[i].data[j].key
    <3> SUFFICES ASSUME NEW j \in 1 .. bs[i].count, NEW y \in S, Bucket(y.key, m) <= i - 1,
                        y.key = bs[i].data[j].key
                 PROVE  FALSE
      OBVIOUS
    <3>1. Bucket(y.key, m) = i
      BY <2>1 DEF BucketOK
    <3> QED
      BY <3>1
  <2>5. \A j, l \in 1 .. bs[i].count : bs[i].data[j].key = bs[i].data[l].key => j = l
    BY <2>1 DEF BucketOK
  <2> HIDE DEF Seen
  <2>6. Stands(n, MoveNodes(n, bs[i], moved[i - 1]), Seen(i - 1) \cup {x \in Node : In(bs[i], x)})
    BY <2>1, <2>4, <2>5, MovedStands
  <2>7. Good(i)
    BY <1>5, <2>3, <2>6
  <2> QED
    BY <2>1, <2>7
<1>9. m \in P
  <2> HIDE DEF P
  <2>1. \A i \in 0 .. m : i \in P
    BY <1>7, <1>8, UpTo
  <2> QED
    BY <2>1
<1>10. Seen(m) = S
  <2>1. \A x \in S : Bucket(x.key, m) <= m
    BY <1>6
  <2> QED
    BY <2>1
<1> HIDE DEF Seen
<1> QED
  BY <1>2, <1>9, <1>10

-----------------------------------------------------------------------------
(* The number of buckets.                                                  *)

SizeOK(n) == \E m \in 1 .. n : n = InitSize * m /\ PowerOfTwo(m)

\* A new map has as many buckets as it may have.
LEMMA SizeInit == SizeOK(InitSize)
<1>1. InitSize \in Nat /\ InitSize >= 1
  BY HashMapAssumption
<1>2. PowerOfTwo(1)
  BY DEF PowerOfTwo
<1> QED
  BY <1>1, <1>2 DEF SizeOK

\* A product is not below one of its factors.
LEMMA ProductPositive ==
  ASSUME NEW a \in Nat \ {0}, NEW b \in Nat
  PROVE  a * b \in Nat /\ a * b >= b
<1>1. PICK c \in Nat : a = c + 1
  <2>1. a - 1 \in Nat /\ a = (a - 1) + 1
    OBVIOUS
  <2> QED
    BY <2>1
<1>2. a * b = c * b + b /\ c * b \in Nat /\ c * b >= 0
  BY <1>1
<1> QED
  BY <1>2

\* An odd divisor of 2m divides m.
LEMMA Halved ==
  ASSUME NEW m \in Nat \ {0}, NEW d \in Nat \ {0}, NEW q \in Nat \ {0},
         2 * m = d * q, d % 2 # 0
  PROVE  \E r \in 1 .. m : m = d * r
<1>1. PICK s \in Nat : d = 2 * s + 1
  <2>1. d = 2 * (d \div 2) + (d % 2) /\ d \div 2 \in Nat /\ d % 2 \in 0 .. 1
    OBVIOUS
  <2> QED
    BY <2>1
<1>2. PICK r \in Nat : q = 2 * r \/ q = 2 * r + 1
  <2>1. q = 2 * (q \div 2) + (q % 2) /\ q \div 2 \in Nat /\ q % 2 \in 0 .. 1
    OBVIOUS
  <2> QED
    BY <2>1
<1>3. q # 2 * r + 1
  <2> SUFFICES ASSUME q = 2 * r + 1 PROVE FALSE
    OBVIOUS
  <2>1. d * q = 2 * (2 * (s * r) + s + r) + 1
    BY <1>1
  <2>2. 2 * (s * r) + s + r \in Nat
    OBVIOUS
  <2>3. \A t \in Nat : 2 * m # 2 * t + 1
    OBVIOUS
  <2> QED
    BY <2>1, <2>2, <2>3
<1>4. q = 2 * r
  BY <1>2, <1>3
<1>5. d * q = 2 * (d * r) /\ d * r \in Nat
  BY <1>4
<1>6. m = d * r
  BY <1>5
<1>7. r \in 1 .. m
  <2>1. r # 0
    BY <1>4
  <2> QED
    BY <1>6, <2>1, ProductPositive
<1> QED
  BY <1>6, <1>7

\* Doubling keeps a power of two one.
LEMMA PowerDoubled ==
  ASSUME NEW m \in Nat \ {0}, PowerOfTwo(m)
  PROVE  PowerOfTwo(2 * m)
<1> SUFFICES ASSUME NEW d \in 1 .. 2 * m, NEW q \in 1 .. 2 * m, 2 * m = d * q, d % 2 # 0
             PROVE  d = 1
  BY DEF PowerOfTwo
<1>1. d \in Nat \ {0} /\ q \in Nat \ {0}
  OBVIOUS
<1>2. PICK r \in 1 .. m : m = d * r
  BY <1>1, Halved
<1>3. d <= m
  <2>1. r * d = d * r
    BY <1>1
  <2> QED
    BY <1>1, <1>2, <2>1, ProductPositive
<1>4. d \in 1 .. m
  BY <1>1, <1>3
<1> QED
  BY <1>2, <1>4 DEF PowerOfTwo

\* Halving does, too.
LEMMA PowerHalved ==
  ASSUME NEW m \in Nat \ {0}, PowerOfTwo(m), m # 1
  PROVE  \E r \in Nat \ {0} : m = 2 * r /\ PowerOfTwo(r)
<1>1. m % 2 = 0
  <2>1. m \in 1 .. m /\ 1 \in 1 .. m /\ m = m * 1
    OBVIOUS
  <2> QED
    BY <2>1 DEF PowerOfTwo
<1>2. PICK r \in Nat : m = 2 * r
  <2>1. m = 2 * (m \div 2) + (m % 2) /\ m \div 2 \in Nat
    OBVIOUS
  <2> QED
    BY <1>1, <2>1
<1>3. r # 0
  BY <1>2
<1>4. PowerOfTwo(r)
  <2> SUFFICES ASSUME NEW d \in 1 .. r, NEW q \in 1 .. r, r = d * q
               PROVE  d = 1 \/ d % 2 = 0
    BY DEF PowerOfTwo
  <2>1. m = d * (2 * q)
    BY <1>2
  <2>2. d \in 1 .. m /\ 2 * q \in 1 .. m
    BY <1>2
  <2> QED
    BY <2>1, <2>2 DEF PowerOfTwo
<1> QED
  BY <1>2, <1>3, <1>4

\* The number of buckets may be doubled.
LEMMA SizeGrown ==
  ASSUME NEW n \in Nat \ {0}, SizeOK(n)
  PROVE  SizeOK(2 * n)
<1>1. PICK m \in 1 .. n : n = InitSize * m /\ PowerOfTwo(m)
  BY DEF SizeOK
<1>2. InitSize \in Nat
  BY HashMapAssumption
<1>3. 2 * n = InitSize * (2 * m)
  BY <1>1, <1>2
<1>4. 2 * m \in 1 .. 2 * n
  OBVIOUS
<1> QED
  BY <1>1, <1>3, <1>4, PowerDoubled DEF SizeOK

\* It may be halved while it is above what it was at first.
LEMMA SizeShrunk ==
  ASSUME NEW n \in Nat \ {0}, SizeOK(n), n > InitSize
  PROVE  n \div 2 \in Nat \ {0} /\ SizeOK(n \div 2)
<1>1. PICK m \in 1 .. n : n = InitSize * m /\ PowerOfTwo(m)
  BY DEF SizeOK
<1>2. InitSize \in Nat \ {0}
  BY HashMapAssumption
<1>3. m # 1
  BY <1>1, <1>2
<1>4. PICK r \in Nat \ {0} : m = 2 * r /\ PowerOfTwo(r)
  BY <1>1, <1>3, PowerHalved
<1>5. n = 2 * (InitSize * r) /\ InitSize * r \in Nat /\ InitSize * r >= r
  BY <1>1, <1>2, <1>4, ProductPositive
<1>6. n \div 2 = InitSize * r
  BY <1>5
<1> QED
  BY <1>4, <1>5, <1>6 DEF SizeOK

-----------------------------------------------------------------------------
(* Counting the copies.                                                    *)

\* The nodes of S that hold a copy of y.
Having(S, y) == {x \in S : y \in Copied(x.key, x.value)}

\* A node is added to a set.
LEMMA HavingAdded ==
  ASSUME NEW S, IsFiniteSet(S), NEW x, x \notin S, NEW y
  PROVE  /\ IsFiniteSet(S \cup {x}) /\ Cardinality(S \cup {x}) = Cardinality(S) + 1
         /\ Cardinality(Having(S, y)) \in Nat
         /\ Cardinality(Having(S \cup {x}, y)) =
              Cardinality(Having(S, y)) + IF y \in Copied(x.key, x.value) THEN 1 ELSE 0
<1>1. IsFiniteSet(S \cup {x}) /\ Cardinality(S \cup {x}) = Cardinality(S) + 1
  BY FS_AddElement
<1>2. IsFiniteSet(Having(S, y))
  <2>1. Having(S, y) \in SUBSET S
    BY DEF Having
  <2> QED
    BY <2>1, FS_Subset
<1>3. Cardinality(Having(S, y)) \in Nat
  BY <1>2, FS_CardinalityType
<1>4. CASE y \in Copied(x.key, x.value)
  <2>1. Having(S \cup {x}, y) = Having(S, y) \cup {x} /\ x \notin Having(S, y)
    BY <1>4 DEF Having
  <2> QED
    BY <1>1, <1>2, <1>3, <1>4, <2>1, FS_AddElement
<1>5. CASE y \notin Copied(x.key, x.value)
  <2>1. Having(S \cup {x}, y) = Having(S, y)
    BY <1>5 DEF Having
  <2> QED
    BY <1>1, <1>3, <1>5, <2>1
<1> QED
  BY <1>4, <1>5

\* A node is taken from a set.
LEMMA HavingRemoved ==
  ASSUME NEW S, IsFiniteSet(S), NEW x \in S, NEW y
  PROVE  /\ IsFiniteSet(S \ {x}) /\ Cardinality(S \ {x}) = Cardinality(S) - 1
         /\ Cardinality(S) \in Nat /\ Cardinality(S \ {x}) \in Nat
         /\ Cardinality(Having(S \ {x}, y)) \in Nat
         /\ Cardinality(Having(S \ {x}, y)) =
              Cardinality(Having(S, y)) - IF y \in Copied(x.key, x.value) THEN 1 ELSE 0
<1> DEFINE R == S \ {x}
<1>1. IsFiniteSet(R) /\ Cardinality(R) = Cardinality(S) - 1
  BY FS_RemoveElement
<1>2. Cardinality(S) \in Nat /\ Cardinality(R) \in Nat
  BY <1>1, FS_CardinalityType
<1>3. x \notin R /\ S = R \cup {x}
  OBVIOUS
<1> HIDE DEF R
<1>4. /\ Cardinality(Having(R, y)) \in Nat
      /\ Cardinality(Having(S, y)) =
           Cardinality(Having(R, y)) + IF y \in Copied(x.key, x.value) THEN 1 ELSE 0
  BY <1>1, <1>3, HavingAdded
<1> QED
  BY <1>1, <1>2, <1>4 DEF R

\* The places of nodes of T are as many as those nodes.
LEMMA Counted ==
  ASSUME NEW n, NEW S, Stands(n, buckets, S), NEW T \in SUBSET S, IsFiniteSet(T)
  PROVE  /\ \A p \in Places : NodeAt(p) \in S
         /\ Cardinality({p \in Places : NodeAt(p) \in T}) = Cardinality(T)
<1>0. DOMAIN buckets = 1 .. n /\ \A b \in 1 .. n : buckets[b] \in Vectors
  BY DEF Stands, Tables
<1>1. ASSUME NEW p \in Places
      PROVE  /\ p = <<p[1], p[2]>> /\ p[1] \in 1 .. n /\ p[2] \in 1 .. buckets[p[1]].count
             /\ NodeAt(p) \in S /\ Bucket(NodeAt(p).key, n) = p[1]
  <2>1. PICK b \in 1 .. n : p \in {<<b, i>> : i \in 1 .. buckets[b].count}
    BY <1>0 DEF Places
  <2>2. PICK i \in 1 .. buckets[b].count : p = <<b, i>>
    BY <2>1
  <2>3. p[1] = b /\ p[2] = i
    BY <2>2
  <2>4. NodeAt(p) = buckets[b].data[i] /\ buckets[b].data[i] \in Node
    BY <1>0, <2>3, VectorIs DEF NodeAt
  <2>5. NodeAt(p) \in S
    BY <1>0, <2>4 DEF Stands, All, In
  <2>6. Bucket(NodeAt(p).key, n) = b
    BY <2>4 DEF Stands, BucketOK
  <2> QED
    BY <2>2, <2>3, <2>5, <2>6
<1>2. ASSUME NEW p \in Places, NEW q \in Places, NodeAt(p) = NodeAt(q) PROVE p = q
  <2>1. p[1] = q[1]
    BY <1>1, <1>2
  <2>2. p[2] = q[2]
    <3>1. BucketOK(n, p[1], buckets[p[1]])
      BY <1>1 DEF Stands
    <3>2. /\ p[2] \in 1 .. buckets[p[1]].count /\ q[2] \in 1 .. buckets[p[1]].count
          /\ buckets[p[1]].data[p[2]] = buckets[p[1]].data[q[2]]
      BY <1>1, <1>2, <2>1 DEF NodeAt
    <3> QED
      BY <3>1, <3>2 DEF BucketOK
  <2> QED
    BY <1>1, <2>1, <2>2
<1>3. ASSUME NEW x \in S PROVE \E p \in Places : NodeAt(p) = x
  <2>1. PICK b : b = Bucket(x.key, n)
    OBVIOUS
  <2>2. b \in 1 .. n /\ In(buckets[b], x)
    BY <2>1, WhereItIs
  <2>3. PICK i \in 1 .. buckets[b].count : buckets[b].data[i] = x
    BY <2>2 DEF In
  <2>4. <<b, i>> \in Places /\ NodeAt(<<b, i>>) = x
    BY <1>0, <2>2, <2>3 DEF Places, NodeAt
  <2> QED
    BY <2>4
<1> DEFINE Q == {p \in Places : NodeAt(p) \in T}
           f == [x \in T |-> CHOOSE p \in Places : NodeAt(p) = x]
<1>4. ASSUME NEW x \in T PROVE f[x] \in Places /\ NodeAt(f[x]) = x
  <2>1. \E p \in Places : NodeAt(p) = x
    BY <1>3
  <2> QED
    BY <2>1
<1>5. f \in [T -> Q]
  BY <1>4
<1> HIDE DEF f
<1>6. f \in Injection(T, Q)
  BY <1>4, <1>5 DEF Injection, IsInjective
<1>7. f \in Surjection(T, Q)
  <2>1. ASSUME NEW p \in Q PROVE \E x \in T : f[x] = p
    <3>1. NodeAt(p) \in T /\ p \in Places
      OBVIOUS
    <3>2. f[NodeAt(p)] = p
      BY <1>2, <1>4, <3>1
    <3> QED
      BY <3>1, <3>2
  <2> QED
    BY <1>5, <2>1 DEF Surjection
<1>8. Cardinality(Q) = Cardinality(T)
  <2>1. ExistsBijection(T, Q)
    BY <1>6, <1>7 DEF ExistsBijection, Bijection
  <2> QED
    BY <2>1, FS_Bijection
<1> QED
  BY <1>1, <1>8

-----------------------------------------------------------------------------
(* The inductive invariant.                                                *)

\* The buckets are a sound table, as long as it may be, and mapSize and copies count
\* what is in it.
MapInv ==
  /\ hasher \in Hashes /\ copiesValues \in BOOLEAN
  /\ SizeOK(Len(buckets))
  /\ Stands(Len(buckets), buckets, All(buckets))
  /\ IsFiniteSet(All(buckets)) /\ mapSize = Cardinality(All(buckets))
  /\ copies \in [Key \cup Value -> Nat]
  /\ \A y \in Key \cup Value : copies[y] = Cardinality(Having(All(buckets), y))

\* What is known of the buckets.
LEMMA MapIs ==
  ASSUME MapInv
  PROVE  /\ HashOK /\ Len(buckets) \in Nat \ {0}
         /\ buckets \in Tables(Len(buckets)) /\ DOMAIN buckets = 1 .. Len(buckets)
         /\ All(buckets) \subseteq Node
<1>1. HashOK
  BY HashMapAssumption DEF MapInv, HashOK
<1>2. buckets \in Tables(Len(buckets)) /\ SizeOK(Len(buckets))
  BY DEF MapInv, Stands
<1>3. DOMAIN buckets = 1 .. Len(buckets)
  BY <1>2 DEF Tables
<1>4. PICK m \in 1 .. Len(buckets) : Len(buckets) = InitSize * m
  BY <1>2 DEF SizeOK
<1>5. m \in Nat \ {0}
  OBVIOUS
<1>6. Len(buckets) \in Nat /\ Len(buckets) >= m
  BY <1>4, <1>5, HashMapAssumption, ProductPositive
<1> QED
  BY <1>1, <1>2, <1>3, <1>5, <1>6 DEF All

\* The invariant holds once the buckets are a table of T, and T is counted.
LEMMA MapInvAgain ==
  ASSUME MapInv, NEW n \in Nat \ {0}, NEW T, Stands(n, buckets', T), SizeOK(n),
         IsFiniteSet(T), mapSize' = Cardinality(T),
         copies' \in [Key \cup Value -> Nat],
         \A y \in Key \cup Value : copies'[y] = Cardinality(Having(T, y)),
         UNCHANGED <<hasher, copiesValues>>
  PROVE  MapInv' /\ Len(buckets') = n /\ All(buckets') = T
<1>1. buckets' \in [1 .. n -> Vectors] /\ All(buckets') = T
  BY DEF Stands, Tables
<1>2. Len(buckets') = n
  BY <1>1, FunctionIsSequence
<1>3. \A y : Having(T, y)' = Having(T, y)
  BY DEF Having, Copied
<1>4. Stands(n, buckets, T)' 
  BY DEF Stands, BucketOK, Bucket
<1>5. hasher' \in Hashes /\ copiesValues' \in BOOLEAN
  BY DEF MapInv
<1> QED
  BY <1>1, <1>2, <1>3, <1>4, <1>5 DEF MapInv

\* A new map satisfies the invariant.
LEMMA MapInvInit == MapInit => MapInv
<1> SUFFICES ASSUME MapInit PROVE MapInv
  OBVIOUS
<1>1. buckets = [b \in 1 .. InitSize |-> EmptyVector] /\ InitSize \in Nat
  BY HashMapAssumption DEF MapInit, Empty
<1>2. Stands(InitSize, buckets, {})
  BY <1>1, EmptyStands
<1>3. Len(buckets) = InitSize /\ All(buckets) = {}
  BY <1>1, <1>2, FunctionIsSequence DEF Stands, Tables
<1>4. IsFiniteSet({}) /\ Cardinality({}) = 0
  BY FS_EmptySet
<1>5. \A y : Having({}, y) = {}
  BY DEF Having
<1>6. copies = [x \in Key \cup Value |-> 0] /\ mapSize = 0
  BY DEF MapInit
<1>7. hasher \in Hashes /\ copiesValues \in BOOLEAN
  BY DEF MapInit
<1> QED
  BY <1>2, <1>3, <1>4, <1>5, <1>6, <1>7, SizeInit DEF MapInv

-----------------------------------------------------------------------------
(* The steps.                                                              *)

\* What GetNode finds.
LEMMA NodeFound ==
  ASSUME MapInv, NEW k \in Key
  PROVE  LET b == Bucket(k, Len(buckets))
         IN  /\ b \in 1 .. Len(buckets)
             /\ GetNode(k) = 0 => \A x \in All(buckets) : x.key # k
             /\ GetNode(k) # 0 => /\ GetNode(k) \in 1 .. buckets[b].count
                                  /\ buckets[b].data[GetNode(k)] \in All(buckets)
                                  /\ buckets[b].data[GetNode(k)].key = k
<1>1. HashOK /\ Len(buckets) \in Nat \ {0} /\ Stands(Len(buckets), buckets, All(buckets))
  BY MapIs DEF MapInv
<1>2. Bucket(k, Len(buckets)) \in 1 .. Len(buckets)
  BY <1>1, BucketIn
<1>3. GetNode(k) = Find(buckets[Bucket(k, Len(buckets))], k)
  BY DEF GetNode, GetBucket
<1> QED
  BY <1>1, <1>2, <1>3, Found

\* The table before a node is added to it.
LEMMA RoomMade ==
  ASSUME MapInv
  PROVE  \E n \in Nat \ {0} :
           LET bs == IF Overloaded THEN Resize(2 * Len(buckets), buckets) ELSE buckets
           IN  SizeOK(n) /\ Len(bs) = n /\ Stands(n, bs, All(buckets))
<1> DEFINE m == Len(buckets)
<1>1. HashOK /\ m \in Nat \ {0} /\ Stands(m, buckets, All(buckets)) /\ SizeOK(m)
  BY MapIs DEF MapInv
<1> HIDE DEF m
<1>2. 2 * m \in Nat \ {0} /\ SizeOK(2 * m) /\ Stands(2 * m, Resize(2 * m, buckets), All(buckets))
  BY <1>1, SizeGrown, ResizedStands
<1>3. Len(Resize(2 * m, buckets)) = 2 * m
  BY <1>2, FunctionIsSequence DEF Stands, Tables
<1> QED
  BY <1>1, <1>2, <1>3 DEF m

\* A key is set that is not there.
LEMMA AddNodeStep ==
  ASSUME MapInv, NEW k \in Key, NEW u \in Value, GetNode(k) = 0, SetKey(k, u)
  PROVE  /\ MapInv'
         /\ \A x \in All(buckets) : x.key # k
         /\ All(buckets') = All(buckets) \cup {[key |-> k, value |-> u]}
<1> PICK S : S = All(buckets)
  OBVIOUS
<1> DEFINE bs == IF Overloaded THEN Resize(2 * Len(buckets), buckets) ELSE buckets
           x == [key |-> k, value |-> u]
           T == S \cup {x}
<1>1. HashOK /\ S \subseteq Node /\ IsFiniteSet(S) /\ mapSize = Cardinality(S)
      /\ copies \in [Key \cup Value -> Nat]
      /\ \A y \in Key \cup Value : copies[y] = Cardinality(Having(S, y))
  BY MapIs DEF MapInv
<1>2. \A y \in S : y.key # k
  BY NodeFound
<1>3. PICK n \in Nat \ {0} : SizeOK(n) /\ Len(bs) = n /\ Stands(n, bs, S)
  BY RoomMade
<1>4. /\ buckets' = Put(n, bs, x) /\ mapSize' = mapSize + 1 /\ Add(Copied(k, u))
      /\ UNCHANGED <<hasher, copiesValues>>
  BY <1>3 DEF SetKey, AddNode
<1> HIDE DEF bs
<1>5. x \in Node /\ x.key = k /\ x.value = u /\ x \notin S
  BY <1>2 DEF Node
<1>6. Stands(n, buckets', T)
  BY <1>1, <1>2, <1>3, <1>4, <1>5, PutStands
<1>7. IsFiniteSet(T) /\ mapSize' = Cardinality(T)
  BY <1>1, <1>4, <1>5, HavingAdded
<1> HIDE DEF x
<1>8. \A y \in Key \cup Value :
        /\ Cardinality(Having(S, y)) \in Nat
        /\ Cardinality(Having(T, y)) =
             Cardinality(Having(S, y)) + IF y \in Copied(k, u) THEN 1 ELSE 0
  BY <1>1, <1>5, HavingAdded
<1> HIDE DEF T
<1>9. copies' = [y \in Key \cup Value |-> IF y \in Copied(k, u) THEN copies[y] + 1 ELSE copies[y]]
  BY <1>1, <1>4 DEF Add
<1>10. copies' \in [Key \cup Value -> Nat]
  BY <1>1, <1>9
<1>11. ASSUME NEW y \in Key \cup Value PROVE copies'[y] = Cardinality(Having(T, y))
  <2>1. /\ copies[y] \in Nat /\ copies[y] = Cardinality(Having(S, y))
        /\ copies'[y] = IF y \in Copied(k, u) THEN copies[y] + 1 ELSE copies[y]
    BY <1>1, <1>9
  <2> QED
    BY <1>8, <2>1
<1>12. MapInv' /\ All(buckets') = T
  BY <1>3, <1>4, <1>6, <1>7, <1>10, <1>11, MapInvAgain
<1> QED
  BY <1>2, <1>12 DEF T, x

\* A key is set that is there.
LEMMA OverwriteStep ==
  ASSUME MapInv, NEW k \in Key, NEW u \in Value, GetNode(k) # 0, SetKey(k, u)
  PROVE  /\ MapInv'
         /\ \E x \in All(buckets) :
              /\ x.key = k
              /\ All(buckets') = (All(buckets) \ {x}) \cup {[key |-> k, value |-> u]}
<1> PICK S : S = All(buckets)
  OBVIOUS
<1> PICK n : n = Len(buckets)
  OBVIOUS
<1> PICK b : b = Bucket(k, n)
  OBVIOUS
<1> PICK p : p = GetNode(k)
  OBVIOUS
<1> PICK x : x = buckets[b].data[p]
  OBVIOUS
<1> DEFINE z == [key |-> k, value |-> u]
           R == S \ {x}
           T == R \cup {z}
<1>1. /\ HashOK /\ S \subseteq Node /\ IsFiniteSet(S) /\ mapSize = Cardinality(S)
      /\ copies \in [Key \cup Value -> Nat]
      /\ \A y \in Key \cup Value : copies[y] = Cardinality(Having(S, y))
      /\ n \in Nat \ {0} /\ Stands(n, buckets, S) /\ SizeOK(n)
  BY MapIs DEF MapInv
<1>2. b \in 1 .. n /\ p \in 1 .. buckets[b].count /\ x \in S /\ x.key = k
  BY NodeFound
<1>3. /\ buckets' = [buckets EXCEPT ![b].data[p].value = u]
      /\ copies' = [y \in Key \cup Value |->
                      IF copiesValues /\ x.value # u /\ y = x.value THEN copies[y] - 1
                      ELSE IF copiesValues /\ x.value # u /\ y = u THEN copies[y] + 1
                      ELSE copies[y]]
      /\ UNCHANGED <<mapSize, hasher, copiesValues>>
  BY <1>1 DEF SetKey, Overwrite
<1>4. Stands(n, buckets', T)
  <2>1. Stands(n, [buckets EXCEPT ![b].data[p].value = u],
               (S \ {x}) \cup {[key |-> x.key, value |-> u]})
    BY <1>1, <1>2, OverwrittenStands
  <2> QED
    BY <1>2, <1>3, <2>1
<1>5. z.key = k /\ z.value = u /\ z \notin R
  <2>1. z.key = k /\ z.value = u
    OBVIOUS
  <2>2. z \in S => z = x
    BY <1>1, <1>2, <2>1, KeyedOnce
  <2> QED
    BY <2>1, <2>2
<1>6. x.value \in Value
  BY <1>1, <1>2 DEF Node
<1> HIDE DEF z
<1>7. ASSUME NEW y
      PROVE  /\ IsFiniteSet(R) /\ Cardinality(R) = Cardinality(S) - 1
             /\ Cardinality(S) \in Nat /\ Cardinality(R) \in Nat
             /\ Cardinality(Having(R, y)) \in Nat
             /\ Cardinality(Having(R, y)) =
                  Cardinality(Having(S, y)) - IF y \in Copied(x.key, x.value) THEN 1 ELSE 0
  <2>1. IsFiniteSet(S) /\ x \in S
    BY <1>1, <1>2
  <2> QED
    BY <2>1, HavingRemoved
<1> HIDE DEF R
<1>8. ASSUME NEW y
      PROVE  /\ IsFiniteSet(T) /\ Cardinality(T) = Cardinality(R) + 1
             /\ Cardinality(Having(T, y)) =
                  Cardinality(Having(R, y)) + IF y \in Copied(k, u) THEN 1 ELSE 0
  BY <1>5, <1>7, HavingAdded
<1> HIDE DEF T
<1>9. IsFiniteSet(T) /\ mapSize' = Cardinality(T)
  BY <1>1, <1>3, <1>7, <1>8
<1>10. ASSUME NEW y \in Key \cup Value
       PROVE  copies'[y] = Cardinality(Having(T, y)) /\ copies'[y] \in Nat
  <2>1. copies[y] \in Nat /\ copies[y] = Cardinality(Having(S, y))
    BY <1>1
  <2>2. /\ Cardinality(Having(R, y)) \in Nat
        /\ Cardinality(Having(R, y)) = copies[y] - IF y \in Copied(x.key, x.value) THEN 1 ELSE 0
        /\ Cardinality(Having(T, y)) =
             Cardinality(Having(R, y)) + IF y \in Copied(k, u) THEN 1 ELSE 0
    BY <1>7, <1>8, <2>1
  <2>3. copies'[y] = IF copiesValues /\ x.value # u /\ y = x.value THEN copies[y] - 1
                     ELSE IF copiesValues /\ x.value # u /\ y = u THEN copies[y] + 1
                     ELSE copies[y]
    BY <1>3
  <2>4. /\ y \in Copied(x.key, x.value) <=> y = k \/ (copiesValues /\ y = x.value)
        /\ y \in Copied(k, u) <=> y = k \/ (copiesValues /\ y = u)
    BY <1>2 DEF Copied
  <2>5. k # x.value /\ k # u
    BY <1>6, HashMapAssumption
  <2> QED
    BY <2>1, <2>2, <2>3, <2>4, <2>5
<1>11. copies' \in [Key \cup Value -> Nat]
  BY <1>3, <1>10
<1>12. MapInv' /\ All(buckets') = T
  BY <1>1, <1>3, <1>4, <1>9, <1>10, <1>11, MapInvAgain
<1> QED
  BY <1>2, <1>12 DEF T, R, z

\* A key is removed.
LEMMA RemoveStep ==
  ASSUME MapInv, NEW k \in Key, RemoveKey(k)
  PROVE  /\ MapInv'
         /\ \E x \in All(buckets) : x.key = k /\ All(buckets') = All(buckets) \ {x}
<1> PICK S : S = All(buckets)
  OBVIOUS
<1> PICK n : n = Len(buckets)
  OBVIOUS
<1> PICK b : b = Bucket(k, n)
  OBVIOUS
<1> PICK p : p = GetNode(k)
  OBVIOUS
<1> PICK x : x = buckets[b].data[p]
  OBVIOUS
<1> DEFINE T == S \ {x}
           bs == [buckets EXCEPT ![b] = RemoveEntry(@, p)]
<1>1. /\ HashOK /\ S \subseteq Node /\ IsFiniteSet(S) /\ mapSize = Cardinality(S)
      /\ copies \in [Key \cup Value -> Nat]
      /\ \A y \in Key \cup Value : copies[y] = Cardinality(Having(S, y))
      /\ n \in Nat \ {0} /\ Stands(n, buckets, S) /\ SizeOK(n)
  BY MapIs DEF MapInv
<1>2. b \in 1 .. n /\ p \in 1 .. buckets[b].count /\ x \in S /\ x.key = k
  BY NodeFound DEF RemoveKey
<1>3. /\ buckets' = IF Sparse(mapSize - 1) THEN Resize(Len(bs) \div 2, bs) ELSE bs
      /\ Drop(Copied(k, x.value))
      /\ mapSize' = mapSize - 1
      /\ UNCHANGED <<hasher, copiesValues>>
  BY DEF RemoveKey
<1>4. Stands(n, bs, T)
  BY <1>1, <1>2, RemovedStands
<1> HIDE DEF bs
<1>5. Len(bs) = n
  BY <1>1, <1>4, FunctionIsSequence DEF Stands, Tables
<1>6. PICK m \in Nat \ {0} : SizeOK(m) /\ Stands(m, buckets', T)
  <2>1. CASE Sparse(mapSize - 1)
    <3>1. n > InitSize
      BY <2>1 DEF Sparse
    <3>2. n \div 2 \in Nat \ {0} /\ SizeOK(n \div 2)
      BY <1>1, <3>1, SizeShrunk
    <3>3. Stands(n \div 2, Resize(n \div 2, bs), T)
      BY <1>1, <1>4, <3>2, ResizedStands
    <3> QED
      BY <1>3, <1>5, <2>1, <3>2, <3>3
  <2>2. CASE ~Sparse(mapSize - 1)
    BY <1>1, <1>3, <1>4, <2>2
  <2> QED
    BY <2>1, <2>2
<1>7. ASSUME NEW y
      PROVE  /\ IsFiniteSet(T) /\ Cardinality(T) = Cardinality(S) - 1
             /\ Cardinality(Having(T, y)) \in Nat
             /\ Cardinality(Having(T, y)) =
                  Cardinality(Having(S, y)) - IF y \in Copied(x.key, x.value) THEN 1 ELSE 0
  <2>1. IsFiniteSet(S) /\ x \in S
    BY <1>1, <1>2
  <2> QED
    BY <2>1, HavingRemoved
<1> HIDE DEF T
<1>8. copies' = [y \in Key \cup Value |->
                   IF y \in Copied(k, x.value) THEN copies[y] - 1 ELSE copies[y]]
  BY <1>1, <1>3 DEF Drop
<1>9. ASSUME NEW y \in Key \cup Value PROVE copies'[y] = Cardinality(Having(T, y))
  <2>1. /\ copies[y] \in Nat /\ copies[y] = Cardinality(Having(S, y))
        /\ copies'[y] = IF y \in Copied(x.key, x.value) THEN copies[y] - 1 ELSE copies[y]
    BY <1>1, <1>2, <1>8
  <2> QED
    BY <1>7, <2>1
<1>10. copies' \in [Key \cup Value -> Nat]
  <2>1. copies' = [y \in Key \cup Value |-> copies'[y]]
    BY <1>8
  <2>2. \A y \in Key \cup Value : copies'[y] \in Nat
    BY <1>7, <1>9
  <2> QED
    BY <2>1, <2>2
<1>11. IsFiniteSet(T) /\ mapSize' = Cardinality(T)
  BY <1>1, <1>3, <1>7
<1>12. MapInv' /\ All(buckets') = T
  BY <1>3, <1>6, <1>9, <1>10, <1>11, MapInvAgain
<1> QED
  BY <1>2, <1>12 DEF T

\* The copies that a map holds are those of the nodes in its places.
LEMMA CopiesHeld ==
  ASSUME MapInv
  PROVE  /\ mapSize = Cardinality(Places)
         /\ \A y \in Key \cup Value : copies[y] = Cardinality(Holding(y))
<1> PICK S : S = All(buckets)
  OBVIOUS
<1>1. /\ Stands(Len(buckets), buckets, S) /\ IsFiniteSet(S) /\ mapSize = Cardinality(S)
      /\ \A y \in Key \cup Value : copies[y] = Cardinality(Having(S, y))
  BY DEF MapInv
<1>2. mapSize = Cardinality(Places)
  <2>1. \A p \in Places : NodeAt(p) \in S
    BY <1>1, Counted
  <2>2. {p \in Places : NodeAt(p) \in S} = Places
    BY <2>1
  <2> QED
    BY <1>1, <2>2, Counted
<1>3. ASSUME NEW y \in Key \cup Value PROVE copies[y] = Cardinality(Holding(y))
  <2>1. Having(S, y) \in SUBSET S
    BY DEF Having
  <2>2. IsFiniteSet(Having(S, y))
    BY <1>1, <2>1, FS_Subset
  <2>3. /\ \A p \in Places : NodeAt(p) \in S
        /\ Cardinality({p \in Places : NodeAt(p) \in Having(S, y)}) = Cardinality(Having(S, y))
    BY <1>1, <2>1, <2>2, Counted
  <2>4. {p \in Places : NodeAt(p) \in Having(S, y)} = Holding(y)
    BY <2>3 DEF Having, Holding
  <2> QED
    BY <1>1, <2>3, <2>4
<1> QED
  BY <1>2, <1>3

\* The map is destroyed.
LEMMA DestroyStep ==
  ASSUME MapInv, DestroyMap
  PROVE  MapInv' /\ All(buckets') = {}
<1>1. /\ buckets' = [b \in 1 .. InitSize |-> EmptyVector] /\ InitSize \in Nat \ {0}
      /\ mapSize' = 0 /\ UNCHANGED <<hasher, copiesValues>>
  BY HashMapAssumption DEF DestroyMap, Empty
<1>2. Stands(InitSize, buckets', {})
  BY <1>1, EmptyStands
<1>3. IsFiniteSet({}) /\ Cardinality({}) = 0
  BY FS_EmptySet
<1>4. \A y : Having({}, y) = {}
  BY DEF Having
<1>5. copies \in [Key \cup Value -> Nat] /\ \A y \in Key \cup Value : copies[y] = Cardinality(Holding(y))
  BY CopiesHeld DEF MapInv
<1>6. copies' = [y \in Key \cup Value |-> copies[y] - Cardinality(Holding(y))]
  BY <1>5 DEF DestroyMap
<1>7. \A y \in Key \cup Value : copies'[y] = 0
  <2>1. \A y \in Key \cup Value : copies'[y] = copies[y] - copies[y]
    BY <1>5, <1>6
  <2> QED
    BY <1>5, <2>1
<1>8. copies' \in [Key \cup Value -> Nat]
  <2>1. copies' = [y \in Key \cup Value |-> copies'[y]]
    BY <1>6
  <2>2. \A y \in Key \cup Value : copies'[y] \in Nat
    BY <1>7
  <2> QED
    BY <2>1, <2>2
<1> QED
  BY <1>1, <1>2, <1>3, <1>4, <1>7, <1>8, SizeInit, MapInvAgain

\* Every call keeps it.
LEMMA MapInvStep == MapInv /\ [MapNext]_mapVars => MapInv'
<1> SUFFICES ASSUME MapInv, [MapNext]_mapVars PROVE MapInv'
  OBVIOUS
<1>1. CASE \E k \in Key : RemoveKey(k)
  BY <1>1, RemoveStep
<1>2. CASE \E k \in Key, u \in Value : SetKey(k, u)
  BY <1>2, AddNodeStep, OverwriteStep
<1>3. CASE DestroyMap
  BY <1>3, DestroyStep
<1>4. CASE UNCHANGED mapVars
  <2>1. UNCHANGED <<hasher, copiesValues, buckets, mapSize, copies>>
    BY <1>4 DEF mapVars
  <2> PICK S : S = All(buckets)
    OBVIOUS
  <2> PICK n : n = Len(buckets)
    OBVIOUS
  <2>2. /\ n \in Nat \ {0} /\ Stands(n, buckets', S) /\ SizeOK(n) /\ IsFiniteSet(S)
        /\ mapSize' = Cardinality(S) /\ copies' \in [Key \cup Value -> Nat]
        /\ \A y \in Key \cup Value : copies'[y] = Cardinality(Having(S, y))
    BY <2>1, MapIs DEF MapInv
  <2> QED
    BY <2>1, <2>2, MapInvAgain
<1> QED
  BY <1>1, <1>2, <1>3, <1>4 DEF MapNext

\* It holds after any calls.
LEMMA MapInvariance == MapSpec => []MapInv
  BY MapInvInit, MapInvStep, PTL DEF MapSpec

\* However often the map grew and shrank, its copies are owned once, its entries are nodes,
\* and its vectors have a cell beyond their last entry.
THEOREM MapAlwaysSound == MapSpec => []MapSound
<1>1. MapInv => MapSound
  <2> SUFFICES ASSUME MapInv PROVE MapSound
    OBVIOUS
  <2> PICK S : S = All(buckets)
    OBVIOUS
  <2>1. /\ S \subseteq Node /\ DOMAIN buckets = 1 .. Len(buckets)
        /\ buckets \in Tables(Len(buckets)) /\ IsFiniteSet(S)
        /\ Stands(Len(buckets), buckets, S)
    BY MapIs DEF MapInv
  <2>2. \A p \in Places : NodeAt(p) \in S
    BY <2>1, Counted
  <2>3. mapSize \in Nat
    BY <2>1, FS_CardinalityType DEF MapInv
  <2>4. MapTypeOK
    <3>1. \A p \in Places : NodeAt(p).key \in Key /\ NodeAt(p).value \in Value
      BY <2>1, <2>2 DEF Node
    <3> QED
      BY <2>3, <3>1 DEF MapTypeOK, MapInv, SizeOK
  <2>5. CopiesOwned
    <3>1. DOMAIN copies = Key \cup Value
      BY DEF MapInv
    <3> QED
      BY <3>1, CopiesHeld DEF CopiesOwned
  <2>6. RoomBeyond
    <3>1. \A b \in 1 .. Len(buckets) : buckets[b] \in Vectors
      BY <2>1 DEF Tables
    <3>2. \A b \in 1 .. Len(buckets) :
            buckets[b].count > 0 => buckets[b].count < Capacity(buckets[b])
      BY <3>1, VectorIs DEF Capacity
    <3> QED
      BY <2>1, <3>2 DEF RoomBeyond
  <2> QED
    BY <2>4, <2>5, <2>6 DEF MapSound
<1> QED
  BY <1>1, MapInvariance, PTL

-----------------------------------------------------------------------------
(* The map implements a dictionary.                                        *)

\* In the nodes of S key k has value u, or Nothing if it is not there.
Maps(S, k, u) ==
  \/ \E x \in S : x.key = k /\ x.value = u
  \/ u = Nothing /\ \A x \in S : x.key # k

\* That is one value only.
LEMMA MapsOne ==
  ASSUME NEW n, NEW bs, NEW S, Stands(n, bs, S), NEW k, NEW u, NEW w, Maps(S, k, u), Maps(S, k, w)
  PROVE  u = w
  BY KeyedOnce DEF Maps

\* It is what is read from the entry that Find chooses.
LEMMA GetMaps ==
  ASSUME HashOK, NEW n \in Nat \ {0}, NEW bs, NEW S, Stands(n, bs, S), NEW k \in Key
  PROVE  LET v == bs[Bucket(k, n)]
             p == Find(v, k)
         IN  Maps(S, k, IF p = 0 THEN Nothing ELSE v.data[p].value)
<1> DEFINE v == bs[Bucket(k, n)]
           p == Find(v, k)
<1>1. /\ p = 0 => \A x \in S : x.key # k
      /\ p # 0 => p \in 1 .. v.count /\ v.data[p] \in S /\ v.data[p].key = k
  BY Found
<1> HIDE DEF p, v
<1>2. PICK u : u = IF p = 0 THEN Nothing ELSE v.data[p].value
  OBVIOUS
<1>3. Maps(S, k, u)
  <2>1. CASE p = 0
    BY <1>1, <1>2, <2>1 DEF Maps
  <2>2. CASE p # 0
    BY <1>1, <1>2, <2>2 DEF Maps
  <2> QED
    BY <2>1, <2>2
<1> QED
  BY <1>2, <1>3 DEF p, v

\* What Get returns, before a step and after it.
LEMMA GetBoth ==
  ASSUME MapInv, MapInv', UNCHANGED hasher, NEW k \in Key
  PROVE  Maps(All(buckets), k, Get(k)) /\ Maps(All(buckets'), k, Get(k)')
<1>1. HashOK /\ Len(buckets) \in Nat \ {0} /\ Stands(Len(buckets), buckets, All(buckets))
  BY MapIs DEF MapInv
<1>2. Len(buckets') \in Nat \ {0} /\ Stands(Len(buckets'), buckets', All(buckets'))
  <2>1. Stands(Len(buckets'), buckets', All(buckets'))
    BY DEF MapInv, Stands, BucketOK, Bucket
  <2>2. PICK m \in 1 .. Len(buckets') : Len(buckets') = InitSize * m
    BY DEF MapInv, SizeOK
  <2>3. Len(buckets') \in Nat /\ Len(buckets') >= m
    BY <2>2, HashMapAssumption, ProductPositive
  <2> QED
    BY <2>1, <2>2, <2>3
<1>3. Get(k) = LET v == buckets[Bucket(k, Len(buckets))]
                   p == Find(v, k)
               IN  IF p = 0 THEN Nothing ELSE v.data[p].value
  BY DEF Get, GetNode, GetBucket
<1>4. Get(k)' = LET v == buckets'[Bucket(k, Len(buckets'))]
                    p == Find(v, k)
                IN  IF p = 0 THEN Nothing ELSE v.data[p].value
  BY DEF Get, GetNode, GetBucket, Bucket
<1> QED
  BY <1>1, <1>2, <1>3, <1>4, GetMaps

\* The dictionary after key k was given value u, or removed where u is Nothing.
LEMMA Changed ==
  ASSUME MapInv, MapInv', UNCHANGED hasher, NEW k \in Key, NEW u,
         \A j \in Key : \A w : j # k => (Maps(All(buckets), j, w) <=> Maps(All(buckets'), j, w)),
         Maps(All(buckets'), k, u)
  PROVE  [j \in Key |-> Get(j)]' = [[j \in Key |-> Get(j)] EXCEPT ![k] = u]
<1>1. \A j \in Key : Maps(All(buckets), j, Get(j)) /\ Maps(All(buckets'), j, Get(j)')
  BY GetBoth
<1>2. Stands(Len(buckets), buckets, All(buckets))
  BY DEF MapInv
<1>3. Stands(Len(buckets'), buckets', All(buckets'))
  BY DEF MapInv, Stands, BucketOK, Bucket
<1>4. Get(k)' = u
  BY <1>1, <1>3, MapsOne
<1>5. ASSUME NEW j \in Key, j # k PROVE Get(j)' = Get(j)
  BY <1>1, <1>2, <1>5, MapsOne
<1> QED
  BY <1>4, <1>5

\* A key has the value it was last set to, until it is removed.
THEOREM MapImplementsDictionary == MapSpec => ImplementsDictionary
<1> DEFINE value == [k \in Key |-> Get(k)]
<1>1. MapInit => Dict!Init
  <2> SUFFICES ASSUME MapInit PROVE Dict!Init
    OBVIOUS
  <2>1. buckets = [b \in 1 .. InitSize |-> EmptyVector] /\ InitSize \in Nat \ {0} /\ HashOK
    BY HashMapAssumption DEF MapInit, Empty, HashOK
  <2>2. Stands(InitSize, buckets, {}) /\ Len(buckets) = InitSize
    BY <2>1, EmptyStands, FunctionIsSequence DEF Stands, Tables
  <2>3. ASSUME NEW k \in Key PROVE Get(k) = Nothing
    <3>1. Get(k) = LET v == buckets[Bucket(k, Len(buckets))]
                       p == Find(v, k)
                   IN  IF p = 0 THEN Nothing ELSE v.data[p].value
      BY DEF Get, GetNode, GetBucket
    <3>2. Maps({}, k, Get(k))
      BY <2>1, <2>2, <3>1, GetMaps
    <3> QED
      BY <3>2 DEF Maps
  <2> QED
    BY <2>3 DEF Dict!Init
<1>2. MapInv /\ MapInv' /\ [MapNext]_mapVars => [Dict!Next]_value
  <2> SUFFICES ASSUME MapInv, MapInv', [MapNext]_mapVars PROVE [Dict!Next]_value
    OBVIOUS
  <2>1. \A x \in All(buckets) : x \in Node /\ x.value \in Value /\ x.value # Nothing
    BY HashMapAssumption DEF All, Node
  <2>2. ASSUME NEW k \in Key, NEW u \in Value, SetKey(k, u) PROVE Dict!Set(k, u)
    <3> PICK z : z = [key |-> k, value |-> u]
      OBVIOUS
    <3>0. z.key = k /\ z.value = u /\ UNCHANGED hasher
      BY <2>2 DEF SetKey
    <3>1. PICK R : /\ All(buckets') = R \cup {z}
                   /\ \A x \in All(buckets) : x.key # k => x \in R
                   /\ \A x \in R : x \in All(buckets) /\ x.key # k
      <4>1. CASE GetNode(k) = 0
        BY <2>2, <4>1, AddNodeStep
      <4>2. CASE GetNode(k) # 0
        <5>1. PICK x \in All(buckets) :
                x.key = k /\ All(buckets') = (All(buckets) \ {x}) \cup {z}
          BY <2>2, <4>2, OverwriteStep
        <5>2. \A y \in All(buckets) : y.key = k => y = x
          BY <5>1, KeyedOnce DEF MapInv
        <5> QED
          BY <5>1, <5>2
      <4> QED
        BY <4>1, <4>2
    <3>2. Maps(All(buckets'), k, u)
      BY <3>0, <3>1 DEF Maps
    <3>3. \A j \in Key : \A w : j # k => (Maps(All(buckets), j, w) <=> Maps(All(buckets'), j, w))
      BY <3>0, <3>1 DEF Maps
    <3> QED
      BY <3>0, <3>2, <3>3, Changed DEF Dict!Set
  <2>3. ASSUME NEW k \in Key, RemoveKey(k) PROVE Dict!Remove(k)
    <3>0. UNCHANGED hasher
      BY <2>3 DEF RemoveKey
    <3>1. PICK x \in All(buckets) : x.key = k /\ All(buckets') = All(buckets) \ {x}
      BY <2>3, RemoveStep
    <3>2. \A y \in All(buckets) : y.key = k => y = x
      BY <3>1, KeyedOnce DEF MapInv
    <3>3. Maps(All(buckets'), k, Nothing)
      BY <3>1, <3>2 DEF Maps
    <3>4. \A j \in Key : \A w : j # k => (Maps(All(buckets), j, w) <=> Maps(All(buckets'), j, w))
      BY <3>1 DEF Maps
    <3>5. Get(k) # Nothing
      <4>1. Maps(All(buckets), k, Get(k))
        BY <3>0, GetBoth
      <4> QED
        BY <2>1, <3>1, <4>1 DEF Maps
    <3> QED
      BY <3>0, <3>3, <3>4, <3>5, Changed DEF Dict!Remove
  <2>4. ASSUME DestroyMap PROVE Dict!Clear
    <3>1. All(buckets') = {} /\ UNCHANGED hasher
      BY <2>4, DestroyStep DEF DestroyMap
    <3>2. \A k \in Key : Maps(All(buckets'), k, Get(k)')
      BY <3>1, GetBoth
    <3>3. \A k \in Key : Get(k)' = Nothing
      BY <3>1, <3>2 DEF Maps
    <3> QED
      BY <3>3 DEF Dict!Clear
  <2>5. ASSUME UNCHANGED mapVars PROVE UNCHANGED value
    BY <2>5 DEF mapVars, Get, GetNode, GetBucket, Bucket
  <2> QED
    BY <2>2, <2>3, <2>4, <2>5 DEF MapNext, Dict!Next
<1> QED
  BY <1>1, <1>2, MapInvariance, PTL DEF MapSpec, ImplementsDictionary, Dict!Spec

-----------------------------------------------------------------------------
(* Codec: times.                                                           *)

\* A whole number of seconds, and less than one.
Proper(t) == t.sec \in Nat /\ t.nsec \in Nat /\ t.nsec < Second

LEMMA ProperTime ==
  ASSUME NEW t
  PROVE  Proper(t) <=> t.sec \in Nat /\ t.nsec \in 0 .. Second - 1
<1>1. Second \in Nat
  BY SMT DEF Second
<1> QED
  BY <1>1 DEF Proper

\* A time as nanoseconds.
Nanos(t) == (t.sec * Second) + t.nsec

\* Sums of seconds and nanoseconds, with and without a carry.
LEMMA Carried ==
  ASSUME NEW a \in Nat, NEW m \in Nat, NEW s \in Nat, NEW d \in Nat
  PROVE  /\ ((a + s + 1) * Second) + ((m + d) - Second) = ((a * Second) + m) + ((s * Second) + d)
         /\ ((a + s) * Second) + (m + d) = ((a * Second) + m) + ((s * Second) + d)
BY SMT DEF Second

LEMMA Difference ==
  ASSUME NEW a \in Nat, NEW m \in Nat, NEW b \in Nat, NEW n \in Nat, NEW x \in Nat,
         (a * Second) + m = ((b * Second) + n) + x, m < Second, n < Second
  PROVE  /\ x = ((a - b) * Second) + (m - n)
         /\ x = ((a - b - 1) * Second) + (Second + m - n)
         /\ x = 0 => a = b /\ m = n
         /\ x # 0 => a > b \/ (a = b /\ m > n)
         /\ Second + m - n \in Nat
BY SMT DEF Second

LEMMA AfterProper ==
  ASSUME NEW t, Proper(t), NEW ns \in Nat
  PROVE  Proper(After(t, ns)) /\ Nanos(After(t, ns)) = Nanos(t) + ns
<1> DEFINE u == t.nsec + ns
           q == u \div Second
           r == u % Second
<1>1. t.sec \in Nat /\ t.nsec \in Nat /\ u \in Nat
  BY DEF Proper
<1>2. q \in Nat /\ r \in Nat /\ r < Second /\ u = (q * Second) + r
  <2> HIDE DEF u
  <2> QED
    BY SMT, <1>1 DEF Second
<1>3. After(t, ns).sec = t.sec + q /\ After(t, ns).nsec = r
  BY DEF After
<1> HIDE DEF q, r
<1>4. (t.sec + q) * Second = (t.sec * Second) + (q * Second)
  BY SMT, <1>1, <1>2 DEF Second
<1>5. Proper(After(t, ns))
  BY <1>1, <1>2, <1>3 DEF Proper
<1>6. ((t.sec + q) * Second) + r = ((t.sec * Second) + t.nsec) + ns
  BY SMT, <1>1, <1>2, <1>4 DEF Second
<1> QED
  BY <1>3, <1>5, <1>6 DEF Nanos

LEMMA LaterProper ==
  ASSUME NEW t, Proper(t), NEW ms \in Nat
  PROVE  Proper(Later(t, ms)) /\ Nanos(Later(t, ms)) = Nanos(t) + (ms * Millisecond)
<1> DEFINE s == ms \div 1000
           d == (ms % 1000) * Millisecond
           e == Later(t, ms)
<1>1. /\ s \in Nat /\ d \in Nat /\ d < Second
      /\ ms * Millisecond = (s * Second) + d
  BY SMT DEF Second, Millisecond
<1>2. t.sec \in Nat /\ t.nsec \in Nat /\ t.nsec < Second
  BY DEF Proper
<1>3. e = IF t.nsec + d >= Second
          THEN [sec |-> t.sec + s + 1, nsec |-> (t.nsec + d) - Second]
          ELSE [sec |-> t.sec + s, nsec |-> t.nsec + d]
  BY DEF Later
<1> HIDE DEF s, d, e
<1>4. CASE t.nsec + d >= Second
  <2>1. e.sec = t.sec + s + 1 /\ e.nsec = (t.nsec + d) - Second
    BY <1>3, <1>4
  <2>2. e.sec \in Nat /\ e.nsec \in Nat /\ e.nsec < Second
    BY SMT, <1>1, <1>2, <1>4, <2>1 DEF Second
  <2>3. (e.sec * Second) + e.nsec = ((t.sec * Second) + t.nsec) + ((s * Second) + d)
    <3> DEFINE a == t.sec
               m == t.nsec
    <3>1. a \in Nat /\ m \in Nat
      BY <1>2
    <3> HIDE DEF a, m
    <3>2. ((a + s + 1) * Second) + ((m + d) - Second) = ((a * Second) + m) + ((s * Second) + d)
      BY <1>1, <3>1, Carried
    <3> QED
      BY <2>1, <3>2 DEF a, m
  <2> QED
    BY <1>1, <2>2, <2>3 DEF Proper, Nanos, e
<1>5. CASE ~(t.nsec + d >= Second)
  <2>1. e.sec = t.sec + s /\ e.nsec = t.nsec + d
    BY <1>3, <1>5
  <2>2. e.sec \in Nat /\ e.nsec \in Nat /\ e.nsec < Second
    BY SMT, <1>1, <1>2, <1>5, <2>1 DEF Second
  <2>3. (e.sec * Second) + e.nsec = ((t.sec * Second) + t.nsec) + ((s * Second) + d)
    <3> DEFINE a == t.sec
               m == t.nsec
    <3>1. a \in Nat /\ m \in Nat
      BY <1>2
    <3> HIDE DEF a, m
    <3>2. ((a + s) * Second) + (m + d) = ((a * Second) + m) + ((s * Second) + d)
      BY <1>1, <3>1, Carried
    <3> QED
      BY <2>1, <3>2 DEF a, m
  <2> QED
    BY <1>1, <2>2, <2>3 DEF Proper, Nanos, e
<1> QED
  BY <1>4, <1>5

\* The two ways to measure agree unless the fraction of a second has become smaller.
LEMMA ElapsedIs ==
  ASSUME NEW s, Proper(s), NEW e, Proper(e), NEW ns \in Nat, Nanos(e) = Nanos(s) + ns
  PROVE  /\ Elapsed(s, e) = ns \div Millisecond
         /\ PoolElapsed(s, e) \in Int /\ PoolElapsed(s, e) >= ns \div Millisecond
         /\ e.nsec >= s.nsec => PoolElapsed(s, e) = ns \div Millisecond
<1>1. /\ s.sec \in Nat /\ s.nsec \in Nat /\ s.nsec < Second
      /\ e.sec \in Nat /\ e.nsec \in Nat /\ e.nsec < Second
  BY DEF Proper
<1>2. (e.sec * Second) + e.nsec = ((s.sec * Second) + s.nsec) + ns
  BY DEF Nanos
<1>3. CASE e.nsec >= s.nsec
  <2> DEFINE q == e.sec - s.sec
             d == e.nsec - s.nsec
  <2>1. q \in Int /\ d \in Nat /\ ns = (q * Second) + d
    <3> DEFINE a == e.sec
               m == e.nsec
               b == s.sec
               n == s.nsec
    <3>1. /\ a \in Nat /\ m \in Nat /\ b \in Nat /\ n \in Nat /\ m < Second /\ n < Second
          /\ (a * Second) + m = ((b * Second) + n) + ns
      BY <1>1, <1>2
    <3> HIDE DEF a, m, b, n
    <3>2. ns = ((a - b) * Second) + (m - n) /\ Second + m - n \in Nat
      BY <3>1, Difference
    <3>3. ns = (q * Second) + d
      BY <3>2 DEF a, m, b, n
    <3>4. q \in Int /\ d \in Nat
      BY <1>1, <1>3, <3>2 DEF a, m, b, n
    <3> QED
      BY <3>3, <3>4
  <2>2. Elapsed(s, e) = (q * 1000) + (d \div Millisecond) /\ PoolElapsed(s, e) = Elapsed(s, e)
    BY <1>3 DEF Elapsed, PoolElapsed
  <2> HIDE DEF q, d
  <2>3. (q * 1000) + (d \div Millisecond) = ns \div Millisecond
    BY SMT, <2>1 DEF Second, Millisecond
  <2>4. ns \div Millisecond \in Int
    BY SMT DEF Millisecond
  <2> QED
    BY <2>2, <2>3, <2>4
<1>4. CASE ~(e.nsec >= s.nsec)
  <2> DEFINE q == e.sec - s.sec - 1
             d == Second + e.nsec - s.nsec
  <2>1. q \in Int /\ d \in Nat /\ ns = (q * Second) + d
    <3> DEFINE a == e.sec
               m == e.nsec
               b == s.sec
               n == s.nsec
    <3>1. /\ a \in Nat /\ m \in Nat /\ b \in Nat /\ n \in Nat /\ m < Second /\ n < Second
          /\ (a * Second) + m = ((b * Second) + n) + ns
      BY <1>1, <1>2
    <3> HIDE DEF a, m, b, n
    <3>2. ns = ((a - b - 1) * Second) + (Second + m - n) /\ Second + m - n \in Nat
      BY <3>1, Difference
    <3>3. ns = (q * Second) + d
      BY <3>2 DEF a, m, b, n
    <3>4. q \in Int /\ d \in Nat
      BY <1>1, <1>4, <3>2 DEF a, m, b, n
    <3> QED
      BY <3>3, <3>4
  <2>2. Elapsed(s, e) = (q * 1000) + (d \div Millisecond) /\ PoolElapsed(s, e) = (q * 1000) + d
    BY <1>4 DEF Elapsed, PoolElapsed
  <2> HIDE DEF q, d
  <2>3. (q * 1000) + (d \div Millisecond) = ns \div Millisecond
    BY SMT, <2>1 DEF Second, Millisecond
  <2>4. (q * 1000) + d \in Int /\ (q * 1000) + d >= ns \div Millisecond
    BY SMT, <2>1 DEF Second, Millisecond
  <2> QED
    BY <1>4, <2>2, <2>3, <2>4
<1> QED
  BY <1>3, <1>4

LEMMA CompareIs ==
  ASSUME NEW s, Proper(s), NEW e, Proper(e), NEW ns \in Nat, Nanos(e) = Nanos(s) + ns
  PROVE  Compare(e, s) = IF ns = 0 THEN 0 ELSE 1
<1>1. /\ s.sec \in Nat /\ s.nsec \in Nat /\ s.nsec < Second
      /\ e.sec \in Nat /\ e.nsec \in Nat /\ e.nsec < Second
  BY DEF Proper
<1>2. (e.sec * Second) + e.nsec = ((s.sec * Second) + s.nsec) + ns
  BY DEF Nanos
<1>3. CASE ns = 0
  <2>1. e.sec = s.sec /\ e.nsec = s.nsec
    BY <1>1, <1>2, <1>3, Difference
  <2> QED
    BY <1>1, <1>3, <2>1 DEF Compare
<1>4. CASE ns # 0
  <2>1. e.sec > s.sec \/ (e.sec = s.sec /\ e.nsec > s.nsec)
    BY <1>1, <1>2, <1>4, Difference
  <2> QED
    BY SMT, <1>1, <1>4, <2>1 DEF Compare
<1> QED
  BY <1>3, <1>4

-----------------------------------------------------------------------------
(* rtBase64.                                                               *)

\* The four characters of three bytes.
C1(x) == x \div 4
C2(x, y) == ((x % 4) * 16) + (y \div 16)
C3(y, z) == ((y % 16) * 4) + (z \div 64)
C4(z) == z % 64

\* Four characters give back the three bytes they were made of.
LEMMA BytesOfGroup ==
  ASSUME NEW x \in Byte, NEW y \in Byte, NEW z \in Byte
  PROVE  /\ IsChar(C1(x)) /\ IsChar(C2(x, y)) /\ IsChar(C3(y, z)) /\ IsChar(C4(z))
         /\ C1(x) * 4 + (C2(x, y) \div 16) = x
         /\ ((C2(x, y) * 16) % 256) + (C3(y, z) \div 4) = y
         /\ ((C3(y, z) * 64) % 256) + C4(z) = z
<1>1. x \in Nat /\ y \in Nat /\ z \in Nat /\ x < 256 /\ y < 256 /\ z < 256
  BY DEF Byte
<1> DEFINE a == x \div 4  b == x % 4  c == y \div 16  d == y % 16  e == z \div 64  f == z % 64
<1>2. a \in 0 .. 63 /\ b \in 0 .. 3 /\ x = 4 * a + b
  BY <1>1
<1>3. c \in 0 .. 15 /\ d \in 0 .. 15 /\ y = 16 * c + d
  BY <1>1
<1>4. e \in 0 .. 3 /\ f \in 0 .. 63 /\ z = 64 * e + f
  BY <1>1
<1>5. C1(x) = a /\ C2(x, y) = b * 16 + c /\ C3(y, z) = d * 4 + e /\ C4(z) = f
  BY DEF C1, C2, C3, C4
<1> HIDE DEF a, b, c, d, e, f
<1>6. a < Pad /\ b * 16 + c < Pad /\ d * 4 + e < Pad /\ f < Pad
  BY <1>2, <1>3, <1>4 DEF Pad
<1>7. (b * 16 + c) \div 16 = b /\ a * 4 + b = x
  BY <1>2, <1>3
<1>8. ((b * 16 + c) * 16) % 256 = 16 * c
  <2>1. (b * 16 + c) * 16 = 256 * b + 16 * c /\ 16 * c \in 0 .. 255
    BY <1>2, <1>3
  <2> QED
    BY <1>2, <2>1
<1>9. (d * 4 + e) \div 4 = d /\ 16 * c + d = y
  BY <1>3, <1>4
<1>10. ((d * 4 + e) * 64) % 256 = 64 * e
  <2>1. (d * 4 + e) * 64 = 256 * d + 64 * e /\ 64 * e \in 0 .. 255
    BY <1>3, <1>4
  <2> QED
    BY <1>3, <2>1
<1> QED
  BY <1>4, <1>5, <1>6, <1>7, <1>8, <1>9, <1>10 DEF IsChar

\* The length of a sequence given as a function.
LEMMA LengthOf ==
  ASSUME NEW n \in Nat, NEW S, NEW s \in [1 .. n -> S]
  PROVE  s \in Seq(S) /\ Len(s) = n
  OBVIOUS

\* The text of b: its length, and its group g, of which n bytes or more are there.
LEMMA TextOf ==
  ASSUME NEW b \in Seq(Byte), Len(b) <= Limit
  PROVE  /\ EncodeBase64(b) # Failed
         /\ Len(EncodeBase64(b).text) = 4 * ((Len(b) + 2) \div 3)
         /\ Len(EncodeBase64(b).text) + 1 <= EncodeBase64(b).out_size
         /\ \A g \in Nat : 3 * g < Len(b) =>
              LET t == EncodeBase64(b).text
              IN  /\ t[4 * g + 1] = C1(ByteAt(b, 3 * g + 1))
                  /\ t[4 * g + 2] = C2(ByteAt(b, 3 * g + 1), ByteAt(b, 3 * g + 2))
                  /\ t[4 * g + 3] = IF Len(b) - 3 * g >= 2
                                    THEN C3(ByteAt(b, 3 * g + 2), ByteAt(b, 3 * g + 3)) ELSE Pad
                  /\ t[4 * g + 4] = IF Len(b) - 3 * g >= 3 THEN C4(ByteAt(b, 3 * g + 3)) ELSE Pad
<1> DEFINE L       == Len(b)
           last    == L % 3
           q       == L \div 3
           whole   == 4 * q
           chars   == whole + (IF last = 0 THEN 0 ELSE last + 1)
           written == whole + (IF last = 0 THEN 0 ELSE 4)
           char(k) == IF k <= chars THEN Group(b, (k - 1) \div 4)[((k - 1) % 4) + 1] ELSE Pad
           t       == [k \in 1 .. written |-> char(k)]
<1>1. EncodeBase64(b) = [text |-> t, out_size |-> EncodedSize(L)]
  <2>1. ~(Len(b) > Limit)
    BY CodecAssumption
  <2>2. EncodeBase64(b) =
          IF Len(b) > Limit THEN Failed ELSE [text |-> t, out_size |-> EncodedSize(L)]
    BY DEF EncodeBase64
  <2> HIDE DEF L, t
  <2> QED
    BY <2>1, <2>2
<1>2. EncodeBase64(b) # Failed
  <2>1. DOMAIN EncodeBase64(b) = {"text", "out_size"}
    BY <1>1
  <2>2. DOMAIN Failed = {"error"}
    BY DEF Failed
  <2> QED
    BY <2>1, <2>2
<1>3. EncodeBase64(b).text = t /\ EncodeBase64(b).out_size = EncodedSize(L)
  BY <1>1
<1>4. L \in Nat /\ last \in 0 .. 2 /\ q \in Nat /\ L = 3 * q + last
  OBVIOUS
<1>5. written \in Nat /\ chars \in Nat /\ Len(t) = written
  <2>1. 4 * q \in Nat /\ last + 1 \in Nat
    BY <1>4
  <2>2. written \in Nat /\ chars \in Nat
    <3> HIDE DEF last, q
    <3> QED
      BY <2>1
  <2>3. t \in [1 .. written -> {char(k) : k \in 1 .. written}]
    <3> HIDE DEF written, char
    <3> QED
      OBVIOUS
  <2> HIDE DEF written, char, t
  <2> QED
    BY <2>2, <2>3, LengthOf
<1>6. EncodedSize(L) = ((L * 4) \div 3) + 1 + (IF last = 0 THEN 0 ELSE 4)
  BY DEF EncodedSize
<1> HIDE DEF last, q, L
<1>7. written = 4 * ((L + 2) \div 3)
  BY <1>4
<1>8. written + 1 <= EncodedSize(L)
  BY <1>4, <1>6
<1>9. ASSUME NEW g \in Nat, 3 * g < L, NEW j \in 1 .. 4
      PROVE  t[4 * g + j] = IF L - 3 * g >= j - 1 THEN Group(b, g)[j] ELSE Pad
  <2>1. 4 * g + j \in 1 .. written
    BY <1>4, <1>9
  <2>2. ((4 * g + j) - 1) \div 4 = g /\ (((4 * g + j) - 1) % 4) + 1 = j
    BY <1>9
  <2>3. 4 * g + j <= chars <=> L - 3 * g >= j - 1
    BY <1>4, <1>9
  <2> HIDE DEF chars, written
  <2> QED
    BY <2>1, <2>2, <2>3
<1>10. ASSUME NEW g \in Nat, 3 * g < L
       PROVE  /\ t[4 * g + 1] = C1(ByteAt(b, 3 * g + 1))
              /\ t[4 * g + 2] = C2(ByteAt(b, 3 * g + 1), ByteAt(b, 3 * g + 2))
              /\ t[4 * g + 3] = IF L - 3 * g >= 2
                                THEN C3(ByteAt(b, 3 * g + 2), ByteAt(b, 3 * g + 3)) ELSE Pad
              /\ t[4 * g + 4] = IF L - 3 * g >= 3 THEN C4(ByteAt(b, 3 * g + 3)) ELSE Pad
  <2> DEFINE x == ByteAt(b, 3 * g + 1)  y == ByteAt(b, 3 * g + 2)  z == ByteAt(b, 3 * g + 3)
  <2>1. Group(b, g) = <<C1(x), C2(x, y), C3(y, z), C4(z)>>
    BY DEF Group, C1, C2, C3, C4
  <2> HIDE DEF t, x, y, z
  <2>2. /\ t[4 * g + 1] = IF L - 3 * g >= 1 - 1 THEN Group(b, g)[1] ELSE Pad
        /\ t[4 * g + 2] = IF L - 3 * g >= 2 - 1 THEN Group(b, g)[2] ELSE Pad
        /\ t[4 * g + 3] = IF L - 3 * g >= 3 - 1 THEN Group(b, g)[3] ELSE Pad
        /\ t[4 * g + 4] = IF L - 3 * g >= 4 - 1 THEN Group(b, g)[4] ELSE Pad
    BY <1>9, <1>10
  <2>3. L - 3 * g >= 1
    BY <1>4, <1>10
  <2>4. t[4 * g + 1] = C1(x) /\ t[4 * g + 2] = C2(x, y)
    BY <1>4, <2>1, <2>2, <2>3
  <2>5. t[4 * g + 3] = IF L - 3 * g >= 2 THEN C3(y, z) ELSE Pad
    BY <2>1, <2>2
  <2>6. t[4 * g + 4] = IF L - 3 * g >= 3 THEN C4(z) ELSE Pad
    BY <2>1, <2>2
  <2> QED
    BY <2>4, <2>5, <2>6 DEF x, y, z
<1> HIDE DEF t, written
<1> QED
  BY <1>2, <1>3, <1>5, <1>7, <1>8, <1>10 DEF L

\* Decoding writes as many bytes as it allocates, whatever the text.
LEMMA DecodedFits ==
  ASSUME NEW t, Len(t) \in Nat, Len(t) > 0, DecodeBase64(t) # Failed
  PROVE  Len(DecodeBase64(t).bytes) = DecodeBase64(t).out_size
<1> DEFINE pad     == Padding(t)
           whole   == IF pad = 0 THEN Len(t) ELSE Len(t) - 4
           written == 3 * (whole \div 4) + (IF pad = 0 THEN 0 ELSE 3 - pad)
           byte(k) == Ungroup(t, (k - 1) \div 3)[((k - 1) % 3) + 1]
           bytes   == [k \in 1 .. written |-> byte(k)]
           out     == [bytes |-> bytes, out_size |-> ((Len(t) * 3) \div 4) - pad]
<1>1. pad \in 0 .. 2
  BY DEF Padding
<1>2. DecodeBase64(t) =
        IF Len(t) > (Limit * 4) \div 3 \/ Len(t) % 4 # 0 THEN Failed
        ELSE IF \E k \in 1 .. Len(t) - pad : ~IsChar(t[k]) THEN Failed ELSE out
  BY DEF DecodeBase64
<1>3. DecodeBase64(t) = out /\ Len(t) % 4 = 0
  <2> HIDE DEF pad, out
  <2> QED
    BY <1>2
<1>4. PICK q \in Nat : Len(t) = 4 * q /\ q > 0
  <2>1. Len(t) \div 4 \in Nat /\ Len(t) = 4 * (Len(t) \div 4)
    BY <1>3
  <2> QED
    BY <2>1
<1>5. written = 3 * q - pad
  <2> HIDE DEF pad
  <2>1. CASE pad = 0
    <3>1. whole \div 4 = q
      BY <1>4, <2>1
    <3> QED
      BY <1>4, <2>1, <3>1
  <2>2. CASE pad # 0
    <3>1. whole \div 4 = q - 1
      BY <1>4, <2>2
    <3> QED
      BY <1>1, <1>4, <2>2, <3>1
  <2> QED
    BY <2>1, <2>2
<1>6. out.out_size = 3 * q - pad
  <2>1. (Len(t) * 3) \div 4 = 3 * q
    BY <1>4
  <2> HIDE DEF pad, bytes
  <2> QED
    BY <2>1
<1>7. Len(bytes) = written
  <2>1. written \in Nat
    <3> HIDE DEF written, pad
    <3> QED
      BY <1>1, <1>4, <1>5
  <2>2. bytes \in [1 .. written -> {byte(k) : k \in 1 .. written}]
    <3> HIDE DEF written, byte
    <3> QED
      OBVIOUS
  <2> HIDE DEF written, byte, bytes
  <2> QED
    BY <2>1, <2>2, LengthOf
<1>8. out.bytes = bytes
  <2> HIDE DEF bytes, pad
  <2> QED
    OBVIOUS
<1> HIDE DEF out, bytes, written, pad
<1> QED
  BY <1>3, <1>5, <1>6, <1>7, <1>8

\* What was encoded is decoded to the same bytes.
LEMMA Base64RoundTrip ==
  ASSUME NEW b \in Seq(Byte), Len(b) <= Limit, Len(b) > 0
  PROVE  /\ DecodeBase64(EncodeBase64(b).text) # Failed
         /\ DecodeBase64(EncodeBase64(b).text).bytes = b
<1> DEFINE L       == Len(b)
           t       == EncodeBase64(b).text
           g       == (L - 1) \div 3
           pad     == Padding(t)
           whole   == IF pad = 0 THEN Len(t) ELSE Len(t) - 4
           written == 3 * (whole \div 4) + (IF pad = 0 THEN 0 ELSE 3 - pad)
           byte(k) == Ungroup(t, (k - 1) \div 3)[((k - 1) % 3) + 1]
           bytes   == [k \in 1 .. written |-> byte(k)]
           out     == [bytes |-> bytes, out_size |-> ((Len(t) * 3) \div 4) - pad]
           x(i)    == ByteAt(b, 3 * i + 1)
           y(i)    == ByteAt(b, 3 * i + 2)
           z(i)    == ByteAt(b, 3 * i + 3)
<1>1. L \in Nat /\ g \in Nat /\ L - 3 * g \in 1 .. 3
  OBVIOUS
<1>2. ASSUME NEW i \in Nat
      PROVE  /\ x(i) \in Byte /\ y(i) \in Byte /\ z(i) \in Byte
             /\ 3 * i + 1 <= L => x(i) = b[3 * i + 1]
             /\ 3 * i + 2 <= L => y(i) = b[3 * i + 2]
             /\ 3 * i + 3 <= L => z(i) = b[3 * i + 3]
  <2>0. 0 \in Byte
    BY DEF Byte
  <2>1. 0 \in Byte /\ \A k \in 1 .. L : b[k] \in Byte
    BY <2>0
  <2>2. ASSUME NEW k \in Nat, k > 0
        PROVE  ByteAt(b, k) \in Byte /\ (k <= L => ByteAt(b, k) = b[k])
    BY <2>1, <2>2 DEF ByteAt
  <2> HIDE DEF L
  <2> QED
    BY <1>2, <2>2
<1>3. Len(t) = 4 * g + 4
  <2>1. Len(t) = 4 * ((L + 2) \div 3)
    BY TextOf
  <2>2. (L + 2) \div 3 = g + 1
    BY <1>1
  <2> HIDE DEF L, g, t
  <2> QED
    BY <1>1, <2>1, <2>2
<1>4. ASSUME NEW i \in Nat, 3 * i < L
      PROVE  /\ t[4 * i + 1] = C1(x(i)) /\ t[4 * i + 2] = C2(x(i), y(i))
             /\ t[4 * i + 3] = IF L - 3 * i >= 2 THEN C3(y(i), z(i)) ELSE Pad
             /\ t[4 * i + 4] = IF L - 3 * i >= 3 THEN C4(z(i)) ELSE Pad
  BY <1>4, TextOf
<1>5. ASSUME NEW i \in Nat
      PROVE  /\ IsChar(C1(x(i))) /\ IsChar(C2(x(i), y(i)))
             /\ IsChar(C3(y(i), z(i))) /\ IsChar(C4(z(i)))
             /\ C1(x(i)) * 4 + (C2(x(i), y(i)) \div 16) = x(i)
             /\ ((C2(x(i), y(i)) * 16) % 256) + (C3(y(i), z(i)) \div 4) = y(i)
             /\ ((C3(y(i), z(i)) * 64) % 256) + C4(z(i)) = z(i)
  BY <1>2, <1>5, BytesOfGroup
<1> HIDE DEF x, y, z, t, g, L
<1>0. ~IsChar(Pad)
  BY DEF IsChar, Pad
<1>6. pad = 3 - (L - 3 * g)
  <2>1. Len(t) - 1 = 4 * g + 3 /\ Len(t) = 4 * g + 4 /\ 3 * g < L
    BY <1>1, <1>3
  <2>2. t[4 * g + 3] # Pad <=> L - 3 * g >= 2
    BY <1>0, <1>1, <1>4, <1>5, <2>1
  <2>3. t[4 * g + 4] # Pad <=> L - 3 * g >= 3
    BY <1>0, <1>1, <1>4, <1>5, <2>1
  <2>4. pad = IF t[4 * g + 3] = Pad THEN 2 ELSE IF t[4 * g + 4] = Pad THEN 1 ELSE 0
    BY <2>1 DEF Padding
  <2> HIDE DEF pad
  <2> QED
    BY <1>1, <2>2, <2>3, <2>4
<1>7. DecodeBase64(t) =
        IF Len(t) > (Limit * 4) \div 3 \/ Len(t) % 4 # 0 THEN Failed
        ELSE IF \E k \in 1 .. Len(t) - pad : ~IsChar(t[k]) THEN Failed ELSE out
  BY DEF DecodeBase64
<1>8. written = L
  <2> HIDE DEF pad
  <2>1. CASE pad = 0
    <3>1. whole \div 4 = g + 1
      BY <1>1, <1>3, <2>1
    <3> QED
      BY <1>1, <1>6, <2>1, <3>1
  <2>2. CASE pad # 0
    <3>1. whole \div 4 = g
      BY <1>1, <1>3, <2>2
    <3> QED
      BY <1>1, <1>6, <2>2, <3>1
  <2> QED
    BY <2>1, <2>2
<1>9. ~(Len(t) > (Limit * 4) \div 3) /\ Len(t) % 4 = 0
  <2>1. PICK m \in Nat : Limit = 3 * m
    <3>1. Limit \div 3 \in Nat /\ Limit = 3 * (Limit \div 3)
      BY CodecAssumption
    <3> QED
      BY <3>1
  <2>2. (Limit * 4) \div 3 = 4 * m
    BY <2>1
  <2>3. L <= 3 * m
    BY <2>1 DEF L
  <2>4. g + 1 <= m
    BY <1>1, <2>1, <2>3
  <2> QED
    BY <1>1, <1>3, <2>1, <2>2, <2>4
<1>10. ASSUME NEW k \in 1 .. Len(t) - pad PROVE IsChar(t[k])
  <2> DEFINE i == (k - 1) \div 4  j == (k - 1) % 4
  <2>0. k \in Nat /\ k >= 1 /\ k <= (4 * g + 4) - pad
    <3> HIDE DEF pad
    <3> QED
      BY <1>1, <1>3, <1>6, <1>10
  <2>1. i \in Nat /\ j \in 0 .. 3 /\ k = (4 * i + j) + 1
    BY <2>0
  <2> HIDE DEF i, j, pad
  <2>2. 3 * i < L /\ (j = 2 => L - 3 * i >= 2) /\ (j = 3 => L - 3 * i >= 3)
    BY <1>1, <1>6, <2>0, <2>1
  <2>3. CASE j = 0
    <3>1. t[k] = C1(x(i))
      BY <1>4, <2>1, <2>2, <2>3
    <3> QED
      BY <1>5, <2>1, <3>1
  <2>4. CASE j = 1
    <3>1. k = 4 * i + 2
      BY <2>1, <2>4
    <3>2. t[k] = C2(x(i), y(i))
      BY <1>4, <2>1, <2>2, <3>1
    <3> QED
      BY <1>5, <2>1, <3>2
  <2>5. CASE j = 2
    <3>1. k = 4 * i + 3
      BY <2>1, <2>5
    <3>2. t[k] = C3(y(i), z(i))
      BY <1>4, <2>1, <2>2, <2>5, <3>1
    <3> QED
      BY <1>5, <2>1, <3>2
  <2>6. CASE j = 3
    <3>1. k = 4 * i + 4
      BY <2>1, <2>6
    <3>2. t[k] = C4(z(i))
      BY <1>4, <2>1, <2>2, <2>6, <3>1
    <3> QED
      BY <1>5, <2>1, <3>2
  <2> QED
    BY <2>1, <2>3, <2>4, <2>5, <2>6
<1>11. DecodeBase64(t) = out
  <2> HIDE DEF pad, out
  <2> QED
    BY <1>7, <1>9, <1>10
<1>12. ASSUME NEW k \in 1 .. L PROVE byte(k) = b[k]
  <2> DEFINE i == (k - 1) \div 3  j == (k - 1) % 3
             c(n) == IF IsChar(t[4 * i + n]) THEN t[4 * i + n] ELSE 0
  <2>1. i \in Nat /\ j \in 0 .. 2 /\ k = (3 * i + j) + 1 /\ k \in Nat /\ k <= L
    BY <1>1
  <2>2. byte(k) = <<c(1) * 4 + (c(2) \div 16), ((c(2) * 16) % 256) + (c(3) \div 4),
                    ((c(3) * 64) % 256) + c(4)>>[j + 1]
    BY DEF Ungroup
  <2> HIDE DEF i, j
  <2>3. 3 * i < L /\ (j = 1 => L - 3 * i >= 2) /\ (j = 2 => L - 3 * i >= 3)
    BY <1>1, <2>1
  <2>4. c(1) = C1(x(i)) /\ c(2) = C2(x(i), y(i))
    BY <1>4, <1>5, <2>1, <2>3
  <2>5. L - 3 * i >= 2 => c(3) = C3(y(i), z(i))
    BY <1>4, <1>5, <2>1, <2>3
  <2>6. L - 3 * i >= 3 => c(4) = C4(z(i))
    BY <1>4, <1>5, <2>1, <2>3
  <2> HIDE DEF c, byte
  <2>7. CASE j = 0
    <3>1. byte(k) = c(1) * 4 + (c(2) \div 16) /\ k = 3 * i + 1
      BY <2>1, <2>2, <2>7
    <3>2. byte(k) = x(i)
      BY <1>5, <2>1, <2>4, <3>1
    <3>3. 3 * i + 1 <= L
      BY <2>1, <3>1
    <3> QED
      BY <1>2, <2>1, <3>1, <3>2, <3>3
  <2>8. CASE j = 1
    <3>1. byte(k) = ((c(2) * 16) % 256) + (c(3) \div 4) /\ k = 3 * i + 2
      BY <2>1, <2>2, <2>8
    <3> QED
      BY <1>2, <1>5, <2>1, <2>3, <2>4, <2>5, <2>8, <3>1
  <2>9. CASE j = 2
    <3>1. byte(k) = ((c(3) * 64) % 256) + c(4) /\ k = 3 * i + 3
      BY <2>1, <2>2, <2>9
    <3>2. L - 3 * i >= 2
      BY <1>1, <2>1, <2>3, <2>9
    <3> QED
      BY <1>2, <1>5, <2>1, <2>3, <2>5, <2>6, <2>9, <3>1, <3>2
  <2> QED
    BY <2>1, <2>7, <2>8, <2>9
<1>13. bytes = b
  <2>1. b = [k \in 1 .. L |-> b[k]]
    BY DEF L
  <2> HIDE DEF written, byte
  <2> QED
    BY <1>8, <1>12, <2>1
<1>14. out.bytes = bytes
  <2> HIDE DEF bytes, pad
  <2> QED
    OBVIOUS
<1>15. out # Failed
  <2> HIDE DEF bytes, pad
  <2>1. DOMAIN out = {"bytes", "out_size"} /\ DOMAIN Failed = {"error"}
    BY DEF Failed
  <2> QED
    BY <2>1
<1> HIDE DEF out, bytes
<1> QED
  BY <1>11, <1>13, <1>14, <1>15 DEF t

-----------------------------------------------------------------------------
(* rtEncoder and rtMessageHeader.                                          *)

\* The bytes of a number.
LEMMA Bytes16 ==
  ASSUME NEW n \in Nat
  PROVE  EncodeUInt16(n) \in Seq(Byte) /\ Len(EncodeUInt16(n)) = 2
<1>1. (n \div 256) % 256 \in Byte /\ n % 256 \in Byte
  BY SMT DEF Byte
<1> QED
  BY <1>1 DEF EncodeUInt16

LEMMA Bytes32 ==
  ASSUME NEW n \in Nat
  PROVE  EncodeInt32(n) \in Seq(Byte) /\ Len(EncodeInt32(n)) = 4
<1>1. /\ (n \div 16777216) % 256 \in Byte /\ (n \div 65536) % 256 \in Byte
      /\ (n \div 256) % 256 \in Byte /\ n % 256 \in Byte
  BY SMT DEF Byte
<1> QED
  BY SMT, <1>1 DEF EncodeInt32

\* s has t at place k.
HasAt(s, k, t) == \A j \in 1 .. Len(t) : s[k + (j - 1)] = t[j]

\* What is at a place, and what follows it.
LEMMA HasAtParts ==
  ASSUME NEW S, NEW u \in Seq(S), NEW v \in Seq(S), NEW s, NEW k \in Nat, HasAt(s, k, u \o v)
  PROVE  HasAt(s, k, u) /\ HasAt(s, k + Len(u), v)
<1>1. Len(u) \in Nat /\ Len(v) \in Nat /\ Len(u \o v) = Len(u) + Len(v)
  OBVIOUS
<1>2. ASSUME NEW j \in 1 .. Len(u) PROVE s[k + (j - 1)] = u[j]
  <2>1. (u \o v)[j] = u[j] /\ j \in 1 .. Len(u \o v)
    BY <1>1
  <2> QED
    BY <2>1 DEF HasAt
<1>3. ASSUME NEW j \in 1 .. Len(v) PROVE s[(k + Len(u)) + (j - 1)] = v[j]
  <2>1. (u \o v)[Len(u) + j] = v[j] /\ Len(u) + j \in 1 .. Len(u \o v)
    BY <1>1
  <2>2. k + ((Len(u) + j) - 1) = (k + Len(u)) + (j - 1)
    BY <1>1
  <2> QED
    BY <2>1, <2>2 DEF HasAt
<1> QED
  BY <1>2, <1>3 DEF HasAt

\* A number is decoded where it was encoded.
LEMMA Decodes16 ==
  ASSUME NEW n \in Nat, n < 65536, NEW s, NEW k \in Nat, HasAt(s, k, EncodeUInt16(n))
  PROVE  DecodeUInt16(s, k) = n
<1>1. s[k] = (n \div 256) % 256 /\ s[k + 1] = n % 256
  <2>0. Len(EncodeUInt16(n)) = 2
    BY Bytes16
  <2>1. s[k + (1 - 1)] = EncodeUInt16(n)[1] /\ s[k + (2 - 1)] = EncodeUInt16(n)[2]
    BY <2>0 DEF HasAt
  <2>2. k + (1 - 1) = k /\ k + (2 - 1) = k + 1
    OBVIOUS
  <2> QED
    BY SMT, <2>1, <2>2 DEF EncodeUInt16
<1>2. 256 * ((n \div 256) % 256) + (n % 256) = n
  BY SMT
<1> QED
  BY <1>1, <1>2 DEF DecodeUInt16

LEMMA Decodes32 ==
  ASSUME NEW n \in UInt32, NEW s, NEW k \in Nat, HasAt(s, k, EncodeInt32(n))
  PROVE  DecodeInt32(s, k) = n
<1>1. /\ s[k] = (n \div 16777216) % 256 /\ s[k + 1] = (n \div 65536) % 256
      /\ s[k + 2] = (n \div 256) % 256 /\ s[k + 3] = n % 256
  <2>1. n \in Nat
    BY SMT DEF UInt32
  <2>2. /\ s[k + (1 - 1)] = EncodeInt32(n)[1] /\ s[k + (2 - 1)] = EncodeInt32(n)[2]
        /\ s[k + (3 - 1)] = EncodeInt32(n)[3] /\ s[k + (4 - 1)] = EncodeInt32(n)[4]
    BY <2>1, Bytes32 DEF HasAt
  <2>3. /\ k + (1 - 1) = k /\ k + (2 - 1) = k + 1
        /\ k + (3 - 1) = k + 2 /\ k + (4 - 1) = k + 3
    OBVIOUS
  <2> QED
    BY SMT, <2>2, <2>3 DEF EncodeInt32
<1>2. 16777216 * ((n \div 16777216) % 256) + (65536 * ((n \div 65536) % 256)
        + (256 * ((n \div 256) % 256) + (n % 256))) = n
  <2>1. n \in Nat /\ n \div 65536 < 65536
    BY SMT DEF UInt32
  <2> QED
    BY SMT, <2>1
<1>3. /\ (n \div 16777216) % 256 \in Int /\ (n \div 65536) % 256 \in Int
      /\ (n \div 256) % 256 \in Int /\ n % 256 \in Int
  BY SMT DEF UInt32
<1>4. DecodeInt32(s, k) = n
  BY SMT, <1>1, <1>2, <1>3 DEF DecodeInt32
<1> QED
  BY <1>4

\* The characters of a topic before its end.
LEMMA StrLenIs ==
  ASSUME NEW t, IsTopic(t)
  PROVE  /\ StrLen(t) \in 0 .. MaxTopic - 1
         /\ \A k \in 1 .. MaxTopic : t[k] = 0 <=> k > StrLen(t)
<1>0. MaxTopic \in Nat
  BY SMT, CodecAssumption DEF UInt32
<1>1. PICK n \in 0 .. MaxTopic - 1 : \A k \in 1 .. MaxTopic : t[k] = 0 <=> k > n
  BY DEF IsTopic
<1> DEFINE m == StrLen(t)
<1>2. m \in 0 .. MaxTopic - 1 /\ \A k \in 1 .. m + 1 : t[k] = 0 <=> k = m + 1
  <2>1. \E i \in 0 .. MaxTopic - 1 : \A k \in 1 .. i + 1 : t[k] = 0 <=> k = i + 1
    <3>1. \A k \in 1 .. n + 1 : t[k] = 0 <=> k = n + 1
      BY <1>0, <1>1
    <3> QED
      BY <3>1
  <2>2. m = CHOOSE i \in 0 .. MaxTopic - 1 : \A k \in 1 .. i + 1 : t[k] = 0 <=> k = i + 1
    BY DEF StrLen
  <2> HIDE DEF m
  <2> QED
    BY Zenon, <2>1, <2>2
<1> HIDE DEF m
<1>3. m = n
  <2>1. t[m + 1] = 0 /\ m + 1 \in 1 .. MaxTopic
    BY <1>0, <1>2
  <2>2. m >= n
    BY <1>0, <1>1, <1>2, <2>1
  <2>3. t[n + 1] = 0
    BY <1>0, <1>1
  <2>4. ~(n + 1 <= m)
    BY <1>0, <1>1, <1>2, <2>3
  <2> QED
    BY <1>0, <1>2, <2>2, <2>4
<1> QED
  BY <1>1, <1>3 DEF m

\* A string is its length and its characters.
LEMMA BytesString ==
  ASSUME NEW t, IsTopic(t)
  PROVE  /\ StrLen(t) \in UInt32 /\ StrLen(t) \in Nat /\ StrLen(t) < MaxTopic
         /\ EncodeInt32(StrLen(t)) \in Seq(Byte) /\ Len(EncodeInt32(StrLen(t))) = 4
         /\ [k \in 1 .. StrLen(t) |-> t[k]] \in Seq(Byte)
         /\ Len([k \in 1 .. StrLen(t) |-> t[k]]) = StrLen(t)
         /\ EncodeString(t) \in Seq(Byte) /\ Len(EncodeString(t)) = 4 + StrLen(t)
<1> DEFINE n == StrLen(t)
           c == [k \in 1 .. n |-> t[k]]
<1>0. MaxTopic \in Nat /\ MaxTopic \div 65536 < 65536
  BY SMT, CodecAssumption DEF UInt32
<1>1. n \in Nat /\ n < MaxTopic
  BY <1>0, StrLenIs
<1> HIDE DEF n
<1>2. n \in UInt32
  BY SMT, <1>0, <1>1 DEF UInt32
<1>3. EncodeInt32(n) \in Seq(Byte) /\ Len(EncodeInt32(n)) = 4
  BY <1>1, Bytes32
<1>4. c \in [1 .. n -> Byte]
  BY <1>0, <1>1 DEF IsTopic
<1>5. c \in Seq(Byte) /\ Len(c) = n
  BY <1>1, <1>4, LengthOf
<1>6. EncodeString(t) = EncodeInt32(n) \o c
  BY DEF EncodeString, n
<1> HIDE DEF c
<1>7. EncodeString(t) \in Seq(Byte) /\ Len(EncodeString(t)) = 4 + n
  <2>1. EncodeInt32(n) \o c \in Seq(Byte) /\ Len(EncodeInt32(n) \o c) = Len(EncodeInt32(n)) + Len(c)
    BY <1>3, <1>5, ConcatProperties
  <2> QED
    BY <1>3, <1>5, <1>6, <2>1
<1> QED
  BY <1>1, <1>2, <1>3, <1>5, <1>7 DEF n, c

\* A topic copied over an old one without its end.
Over(old, t) == [j \in 1 .. MaxTopic |-> IF j <= StrLen(t) THEN t[j] ELSE old[j]]

\* A string is decoded where it was encoded.
LEMMA StringParts ==
  ASSUME NEW old, NEW t, IsTopic(t), NEW s, NEW k \in Nat, HasAt(s, k, EncodeString(t))
  PROVE  /\ DecodeInt32(s, k) = StrLen(t)
         /\ DecodeStr(old, s, k + 4, StrLen(t)) = Over(old, t)
<1> DEFINE n == StrLen(t)
           c == [j \in 1 .. n |-> t[j]]
<1>1. /\ n \in UInt32 /\ n \in Nat /\ n < MaxTopic
      /\ EncodeInt32(n) \in Seq(Byte) /\ Len(EncodeInt32(n)) = 4
      /\ c \in Seq(Byte) /\ Len(c) = n
  BY BytesString
<1>2. HasAt(s, k, EncodeInt32(n)) /\ HasAt(s, k + 4, c)
  <2>1. EncodeString(t) = EncodeInt32(n) \o c
    BY DEF EncodeString
  <2> HIDE DEF c, n
  <2> QED
    BY <1>1, <2>1, HasAtParts
<1>3. DecodeInt32(s, k) = n
  BY <1>1, <1>2, Decodes32
<1>4. ASSUME NEW j \in 1 .. MaxTopic
      PROVE  (IF j <= n THEN s[(k + 4) + (j - 1)] ELSE old[j]) = IF j <= n THEN t[j] ELSE old[j]
  <2>1. CASE j <= n
    <3>1. j \in 1 .. n
      BY <1>1, <2>1
    <3> QED
      BY <1>1, <1>2, <2>1, <3>1 DEF HasAt
  <2>2. CASE ~(j <= n)
    BY <2>2
  <2> QED
    BY <2>1, <2>2
<1>5. Over(old, t) = [j \in 1 .. MaxTopic |-> IF j <= n THEN t[j] ELSE old[j]]
  BY DEF Over
<1>6. DecodeStr(old, s, k + 4, n)
        = [j \in 1 .. MaxTopic |-> IF j <= n THEN s[(k + 4) + (j - 1)] ELSE old[j]]
  BY DEF DecodeStr
<1> HIDE DEF n
<1>7. DecodeStr(old, s, k + 4, n) = Over(old, t)
  BY <1>4, <1>5, <1>6
<1> QED
  BY <1>3, <1>7 DEF n

\* s is n bytes; w is u and then v.
IsBytes(s, n) == s \in Seq(Byte) /\ Len(s) = n
Joins(w, u, v) == w = u \o v

LEMMA JoinedBytes ==
  ASSUME NEW i \in Nat, NEW j \in Nat, NEW u, IsBytes(u, i), NEW v, IsBytes(v, j),
         NEW w, Joins(w, u, v)
  PROVE  /\ IsBytes(w, i + j)
         /\ \A s : HasAt(s, 1, w) => HasAt(s, 1, u) /\ HasAt(s, 1 + i, v)
<1>1. IsBytes(w, i + j)
  BY ConcatProperties DEF Joins, IsBytes
<1>2. ASSUME NEW s, HasAt(s, 1, w) PROVE HasAt(s, 1, u) /\ HasAt(s, 1 + i, v)
  BY <1>2, HasAtParts DEF Joins, IsBytes
<1> QED
  BY <1>1, <1>2

\* A header is received as it was sent but for the ends of its topics.
LEMMA HeaderArrives ==
  ASSUME NEW h, IsHeader(h), NEW g
  PROVE  DecodeHeader(g, EncodeHeader(h)) =
           [sequence_number |-> h.sequence_number, flags |-> h.flags,
            control_data |-> h.control_data, payload_length |-> h.payload_length,
            topic |-> Over(g.topic, h.topic), reply_topic |-> Over(g.reply_topic, h.reply_topic)]
<1> DEFINE n  == StrLen(h.topic)
           m  == StrLen(h.reply_topic)
           p1 == EncodeUInt16(Marker)
           p2 == EncodeUInt16(Version)
           p3 == EncodeUInt16(SizeWithoutStrings + n + m)
           p4 == EncodeInt32(h.sequence_number)
           p5 == EncodeInt32(h.flags)
           p6 == EncodeInt32(h.control_data)
           p7 == EncodeInt32(h.payload_length)
           p8 == EncodeString(h.topic)
           p9 == EncodeString(h.reply_topic)
           s  == EncodeHeader(h)
<1>1. /\ h.sequence_number \in UInt32 /\ h.flags \in UInt32
      /\ h.control_data \in UInt32 /\ h.payload_length \in UInt32
      /\ IsTopic(h.topic) /\ IsTopic(h.reply_topic)
  BY DEF IsHeader
<1>2. \A x \in UInt32 : x \in Nat
  BY SMT DEF UInt32
<1>3. Marker \in Nat /\ Version \in Nat /\ SizeWithoutStrings \in Nat /\ Marker < 65536
  BY SMT DEF Marker, Version, SizeWithoutStrings
<1>4. n \in Nat /\ m \in Nat /\ n < MaxTopic /\ m < MaxTopic
  BY <1>1, BytesString
<1>5. IsBytes(p1, 2) /\ IsBytes(p2, 2)
  BY <1>3, Bytes16 DEF IsBytes
<1>6. IsBytes(p3, 2)
  <2>1. SizeWithoutStrings + n + m \in Nat
    <3> HIDE DEF n, m
    <3> QED
      BY <1>3, <1>4
  <2> HIDE DEF n, m
  <2> QED
    BY <2>1, Bytes16 DEF IsBytes
<1>7. /\ IsBytes(p4, 4) /\ IsBytes(p5, 4)
      /\ IsBytes(p6, 4) /\ IsBytes(p7, 4)
  BY <1>1, <1>2, Bytes32 DEF IsBytes
<1>8. /\ IsBytes(p8, 4 + n) /\ IsBytes(p9, 4 + m)
  BY <1>1, BytesString DEF IsBytes
<1> DEFINE q2 == p1 \o p2
           q3 == q2 \o p3
           q4 == q3 \o p4
           q5 == q4 \o p5
           q6 == q5 \o p6
           q7 == q6 \o p7
           q8 == q7 \o p8
           q9 == q8 \o p9
<1>9. s = q9 \o p1
  BY DEF EncodeHeader
<1>0. /\ Joins(q2, p1, p2) /\ Joins(q3, q2, p3) /\ Joins(q4, q3, p4) /\ Joins(q5, q4, p5)
      /\ Joins(q6, q5, p6) /\ Joins(q7, q6, p7) /\ Joins(q8, q7, p8) /\ Joins(q9, q8, p9)
  BY DEF Joins
<1> HIDE DEF q2, q3, q4, q5, q6, q7, q8, q9
<1> HIDE DEF n, m, p1, p2, p3, p4, p5, p6, p7, p8, p9, s
<1> USE <1>0
<1>10. IsBytes(q2, 2 + 2) /\ (HasAt(s, 1, q2) => HasAt(s, 1, p1))
  BY <1>5, JoinedBytes
<1>11. IsBytes(q3, 4 + 2) /\ (HasAt(s, 1, q3) => HasAt(s, 1, q2))
  BY <1>6, <1>10, JoinedBytes
<1>12. IsBytes(q4, 6 + 4) /\ (HasAt(s, 1, q4) => HasAt(s, 1, q3) /\ HasAt(s, 7, p4))
  BY <1>7, <1>11, JoinedBytes
<1>13. IsBytes(q5, 10 + 4) /\ (HasAt(s, 1, q5) => HasAt(s, 1, q4) /\ HasAt(s, 11, p5))
  BY <1>7, <1>12, JoinedBytes
<1>14. IsBytes(q6, 14 + 4) /\ (HasAt(s, 1, q6) => HasAt(s, 1, q5) /\ HasAt(s, 15, p6))
  BY <1>7, <1>13, JoinedBytes
<1>15. IsBytes(q7, 18 + 4) /\ (HasAt(s, 1, q7) => HasAt(s, 1, q6) /\ HasAt(s, 19, p7))
  BY <1>7, <1>14, JoinedBytes
<1>16. IsBytes(q8, 26 + n) /\ (HasAt(s, 1, q8) => HasAt(s, 1, q7) /\ HasAt(s, 23, p8))
  <2>1. 4 + n \in Nat /\ 22 + (4 + n) = 26 + n
    BY <1>4
  <2> QED
    BY <1>8, <1>15, <2>1, JoinedBytes
<1>17. IsBytes(q9, (30 + n) + m) /\ (HasAt(s, 1, q9) => HasAt(s, 1, q8) /\ HasAt(s, 27 + n, p9))
  <2>1. /\ 26 + n \in Nat /\ 4 + m \in Nat /\ (26 + n) + (4 + m) = (30 + n) + m
        /\ 1 + (26 + n) = 27 + n
    BY <1>4
  <2> QED
    BY <1>8, <1>16, <2>1, JoinedBytes
<1>20. HasAt(s, 1, q9) /\ HasAt(s, (31 + n) + m, p1)
  <2>1. HasAt(s, 1, s)
    <3>1. \A j \in 1 .. Len(s) : 1 + (j - 1) = j
      OBVIOUS
    <3> QED
      BY <3>1 DEF HasAt
  <2>2. Joins(s, q9, p1) /\ (30 + n) + m \in Nat /\ 1 + ((30 + n) + m) = (31 + n) + m
    BY <1>4, <1>9 DEF Joins
  <2> QED
    BY <1>5, <1>17, <2>1, <2>2, JoinedBytes
<1>21. /\ HasAt(s, 1, p1) /\ HasAt(s, 7, p4) /\ HasAt(s, 11, p5) /\ HasAt(s, 15, p6)
       /\ HasAt(s, 19, p7) /\ HasAt(s, 23, p8) /\ HasAt(s, 27 + n, p9)
  BY <1>10, <1>11, <1>12, <1>13, <1>14, <1>15, <1>16, <1>17, <1>20
<1>30. DecodeUInt16(s, 1) = Marker /\ DecodeUInt16(s, (31 + n) + m) = Marker
  BY <1>3, <1>4, <1>20, <1>21, Decodes16 DEF p1
<1>31. /\ DecodeInt32(s, 7) = h.sequence_number /\ DecodeInt32(s, 11) = h.flags
       /\ DecodeInt32(s, 15) = h.control_data /\ DecodeInt32(s, 19) = h.payload_length
  BY <1>1, <1>21, Decodes32 DEF p4, p5, p6, p7
<1>32. DecodeInt32(s, 23) = n /\ DecodeStr(g.topic, s, 27, n) = Over(g.topic, h.topic)
  <2>1. 23 + 4 = 27
    OBVIOUS
  <2> QED
    BY <1>1, <1>21, <2>1, StringParts DEF p8, n
<1>33. DecodeInt32(s, 27 + n) = m /\ DecodeStr(g.reply_topic, s, 31 + n, m) = Over(g.reply_topic, h.reply_topic)
  <2>1. (27 + n) + 4 = 31 + n /\ 27 + n \in Nat
    BY <1>4
  <2>2. HasAt(s, 27 + n, EncodeString(h.reply_topic))
    BY <1>21 DEF p9
  <2> QED
    BY <1>1, <2>1, <2>2, StringParts DEF m
<1>34. ~(n >= MaxTopic) /\ ~(m >= MaxTopic)
  <2>1. MaxTopic \in Nat
    BY SMT, CodecAssumption DEF UInt32
  <2> QED
    BY <1>4, <2>1
<1> QED
  BY <1>30, <1>31, <1>32, <1>33, <1>34 DEF DecodeHeader, s

-----------------------------------------------------------------------------
(* What a state of Codec holds.                                            *)

\* The output is what the functions called so far make of the input.
Computed ==
  /\ input \in Inputs
  /\ input.kind = "binary" =>
       /\ stage \in {"input", "encoded", "decoded"}
       /\ stage = "encoded" => output = EncodeBase64(input.bytes)
       /\ stage = "decoded" => /\ EncodeBase64(input.bytes) # Failed
                               /\ EncodeBase64(input.bytes).text # <<>>
                               /\ output = DecodeBase64(EncodeBase64(input.bytes).text)
  /\ input.kind = "text" =>
       /\ stage \in {"input", "decoded"}
       /\ stage = "decoded" => output = DecodeBase64(input.text)
  /\ input.kind = "time" =>
       LET e == Later(input.start, input.ms)
       IN  /\ stage \in {"input", "encoded", "decoded"}
           /\ stage = "encoded" => output = e
           /\ stage = "decoded" => \E late \in Naps \cup {0} :
                output = [late |-> late, elapsed |-> Elapsed(input.start, After(e, late)),
                          order |-> Compare(After(e, late), input.start)]

LEMMA InputKinds ==
  ASSUME input \in Inputs
  PROVE  /\ input.kind \in {"binary", "text", "header", "time", "stop"}
         /\ input.kind = "binary" => input.bytes \in Binaries
         /\ input.kind = "text" => input.text \in Texts
         /\ input.kind = "header" => input.headers \in HeaderLists
         /\ input.kind \in {"time", "stop"} => input.start \in Starts /\ input.ms \in Millis
  BY DEF Inputs

LEMMA AlwaysComputed == CodecSpec => []Computed
<1>1. CodecInit => Computed
  BY DEF CodecInit, Computed
<1>2. Computed /\ [CodecNext]_codecVars => Computed'
  <2> SUFFICES ASSUME Computed, [CodecNext]_codecVars PROVE Computed'
    OBVIOUS
  <2>1. CASE ClearHeader \/ SendHeader \/ ReceiveHeader
    BY <2>1 DEF ClearHeader, SendHeader, ReceiveHeader, Computed
  <2>2. CASE BeginStop \/ StopWakes
    BY <2>2 DEF BeginStop, StopWakes, Computed
  <2>3. CASE Encode
    BY <2>3 DEF Encode, Computed
  <2>4. CASE Decode
    BY <2>4 DEF Decode, Computed
  <2>5. CASE AddTime
    BY <2>5 DEF AddTime, Computed
  <2>6. CASE MeasureTime
    BY <2>6 DEF MeasureTime, Computed
  <2>7. CASE UNCHANGED codecVars
    BY <2>7 DEF codecVars, Computed
  <2> QED
    BY <2>1, <2>2, <2>3, <2>4, <2>5, <2>6, <2>7 DEF CodecNext
<1> QED
  BY <1>1, <1>2, PTL DEF CodecSpec

-----------------------------------------------------------------------------
(* Headers decoded one after the other.                                    *)

TopicsOf(l) == [i \in 1 .. Len(l) |-> l[i].topic]
ReplyTopicsOf(l) == [i \in 1 .. Len(l) |-> l[i].reply_topic]

\* t is what the first n topics of u, copied without their ends, leave of an empty one.
Kept(t, u, n) ==
  /\ t = [j \in 1 .. MaxTopic |-> t[j]]
  /\ n > 0 => StartsWith(t, u[n])
  /\ \A j \in 1 .. MaxTopic : (\A i \in 1 .. n : StrLen(u[i]) < j) => t[j] = 0

LEMMA KeptNone ==
  ASSUME NEW u
  PROVE  Kept(NoTopic, u, 0)
BY DEF Kept, NoTopic

LEMMA KeptOneMore ==
  ASSUME NEW t, NEW u, NEW n \in Nat, Kept(t, u, n), IsTopic(u[n + 1])
  PROVE  Kept(Over(t, u[n + 1]), u, n + 1)
<1> DEFINE v == u[n + 1]
           w == Over(t, v)
<1>0. MaxTopic \in Nat
  BY SMT, CodecAssumption DEF UInt32
<1>1. StrLen(v) \in Nat /\ StrLen(v) < MaxTopic
  BY <1>0, StrLenIs
<1>2. w = [j \in 1 .. MaxTopic |-> IF j <= StrLen(v) THEN v[j] ELSE t[j]]
  BY DEF Over
<1> HIDE DEF w
<1>3. w = [j \in 1 .. MaxTopic |-> w[j]]
  BY <1>2
<1>4. StartsWith(w, v)
  <2> SUFFICES ASSUME NEW k \in 1 .. StrLen(v) PROVE w[k] = v[k]
    BY DEF StartsWith
  <2>1. k \in 1 .. MaxTopic /\ k <= StrLen(v)
    BY <1>0, <1>1
  <2> QED
    BY <1>2, <2>1
<1>5. ASSUME NEW j \in 1 .. MaxTopic, \A i \in 1 .. n + 1 : StrLen(u[i]) < j
      PROVE  w[j] = 0
  <2>1. n + 1 \in 1 .. n + 1 /\ \A i \in 1 .. n : i \in 1 .. n + 1
    OBVIOUS
  <2>2. StrLen(v) < j /\ \A i \in 1 .. n : StrLen(u[i]) < j
    BY <1>5, <2>1
  <2>3. t[j] = 0
    BY <2>2 DEF Kept
  <2>4. ~(j <= StrLen(v))
    BY <1>1, <2>2
  <2> QED
    BY <1>2, <2>3, <2>4
<1> QED
  BY <1>3, <1>4, <1>5 DEF Kept, w

\* The last topic is whole when none before it was longer.
LEMMA KeptWhole ==
  ASSUME NEW t, NEW u, NEW n \in Nat \ {0}, Kept(t, u, n), \A i \in 1 .. n : IsTopic(u[i]),
         \A i \in 1 .. n : StrLen(u[i]) <= StrLen(u[n])
  PROVE  t = u[n]
<1>0. MaxTopic \in Nat
  BY SMT, CodecAssumption DEF UInt32
<1>1. \A i \in 1 .. n : StrLen(u[i]) \in Nat
  BY <1>0, StrLenIs
<1>2. n \in 1 .. n
  OBVIOUS
<1>3. ASSUME NEW j \in 1 .. MaxTopic PROVE t[j] = u[n][j]
  <2>1. CASE j <= StrLen(u[n])
    BY <1>1, <1>2, <2>1 DEF Kept, StartsWith
  <2>2. CASE ~(j <= StrLen(u[n]))
    <3>1. \A i \in 1 .. n : StrLen(u[i]) < j
      BY <1>1, <1>2, <2>2
    <3>2. u[n][j] = 0
      BY <1>1, <1>2, <2>2, StrLenIs
    <3> QED
      BY <3>1, <3>2 DEF Kept
  <2> QED
    BY <2>1, <2>2
<1>4. u[n] = [j \in 1 .. MaxTopic |-> u[n][j]] /\ t = [j \in 1 .. MaxTopic |-> t[j]]
  BY <1>2 DEF IsTopic, Kept
<1> QED
  BY <1>3, <1>4

\* What a reader of headers has in its memory.
HeadersKept ==
  LET l == input.headers
  IN  /\ input \in Inputs
      /\ input.kind = "header" /\ stage # "input" =>
           /\ stage \in {"encoded", "decoded"}
           /\ output = [header |-> output.header, bytes |-> output.bytes, count |-> output.count]
           /\ output.count \in 0 .. Len(l)
           /\ stage = "encoded" =>
                /\ output.count > 0 /\ output.bytes = EncodeHeader(l[output.count])
                /\ Kept(output.header.topic, TopicsOf(l), output.count - 1)
                /\ Kept(output.header.reply_topic, ReplyTopicsOf(l), output.count - 1)
           /\ stage = "decoded" =>
                /\ Kept(output.header.topic, TopicsOf(l), output.count)
                /\ Kept(output.header.reply_topic, ReplyTopicsOf(l), output.count)
                /\ output.count > 0 =>
                     LET g == output.header
                     IN  /\ SameNumbers(g, l[output.count])
                         /\ g = [sequence_number |-> g.sequence_number, flags |-> g.flags,
                                 control_data |-> g.control_data, payload_length |-> g.payload_length,
                                 topic |-> g.topic, reply_topic |-> g.reply_topic]

LEMMA HeaderLengths ==
  ASSUME input \in Inputs, input.kind = "header"
  PROVE  /\ Len(input.headers) \in Nat
         /\ \A i \in 1 .. Len(input.headers) :
              /\ IsHeader(input.headers[i])
              /\ TopicsOf(input.headers)[i] = input.headers[i].topic
              /\ ReplyTopicsOf(input.headers)[i] = input.headers[i].reply_topic
              /\ IsTopic(input.headers[i].topic) /\ IsTopic(input.headers[i].reply_topic)
BY InputKinds, CodecAssumption DEF TopicsOf, ReplyTopicsOf, IsHeader

LEMMA ReceiveKeeps ==
  ASSUME HeadersKept, ReceiveHeader
  PROVE  HeadersKept'
<1> DEFINE l == input.headers
           n == output.count
           h == l[n]
           g == output.header
           d == DecodeHeader(g, EncodeHeader(h))
<1>1. /\ input \in Inputs /\ input.kind = "header" /\ stage = "encoded"
      /\ input' = input /\ stage' = "decoded"
      /\ n \in 0 .. Len(l) /\ n > 0 /\ output.bytes = EncodeHeader(h)
      /\ Kept(g.topic, TopicsOf(l), n - 1)
      /\ Kept(g.reply_topic, ReplyTopicsOf(l), n - 1)
      /\ output = [header |-> g, bytes |-> output.bytes, count |-> n]
  BY DEF ReceiveHeader, HeadersKept
<1>2. output' = [header |-> d, bytes |-> output.bytes, count |-> n]
  <2>1. output' = [output EXCEPT !.header = d]
    BY <1>1 DEF ReceiveHeader
  <2> HIDE DEF d, g, n
  <2> QED
    BY <1>1, <2>1
<1>3. /\ Len(l) \in Nat /\ n \in 1 .. Len(l) /\ IsHeader(h)
      /\ TopicsOf(l)[n] = h.topic /\ ReplyTopicsOf(l)[n] = h.reply_topic
      /\ IsTopic(h.topic) /\ IsTopic(h.reply_topic)
  <2>1. Len(l) \in Nat /\ n \in 1 .. Len(l)
    BY <1>1, HeaderLengths
  <2> QED
    BY <1>1, <2>1, HeaderLengths
<1>4. d = [sequence_number |-> h.sequence_number, flags |-> h.flags,
           control_data |-> h.control_data, payload_length |-> h.payload_length,
           topic |-> Over(g.topic, h.topic), reply_topic |-> Over(g.reply_topic, h.reply_topic)]
  BY <1>3, HeaderArrives
<1>5. n - 1 \in Nat /\ n - 1 + 1 = n
  BY <1>3
<1> HIDE DEF d, n
<1>6. Kept(Over(g.topic, h.topic), TopicsOf(l), n)
  BY <1>1, <1>3, <1>5, KeptOneMore
<1>7. Kept(Over(g.reply_topic, h.reply_topic), ReplyTopicsOf(l), n)
  BY <1>1, <1>3, <1>5, KeptOneMore
<1>8. /\ SameNumbers(d, h)
      /\ Kept(d.topic, TopicsOf(l), n) /\ Kept(d.reply_topic, ReplyTopicsOf(l), n)
      /\ d = [sequence_number |-> d.sequence_number, flags |-> d.flags,
              control_data |-> d.control_data, payload_length |-> d.payload_length,
              topic |-> d.topic, reply_topic |-> d.reply_topic]
  BY <1>4, <1>6, <1>7 DEF SameNumbers
<1>9. output'.header = d /\ output'.count = n
  BY <1>2
<1> HIDE DEF g
<1> QED
  BY <1>1, <1>2, <1>8, <1>9 DEF HeadersKept

LEMMA SendKeeps ==
  ASSUME HeadersKept, SendHeader
  PROVE  HeadersKept'
<1> DEFINE l == input.headers
           n == output.count
           g == output.header
<1>1. /\ input \in Inputs /\ input.kind = "header" /\ stage = "decoded"
      /\ input' = input /\ stage' = "encoded"
      /\ n \in 0 .. Len(l) /\ n < Len(l)
      /\ Kept(g.topic, TopicsOf(l), n)
      /\ Kept(g.reply_topic, ReplyTopicsOf(l), n)
      /\ output = [header |-> g, bytes |-> output.bytes, count |-> n]
      /\ output' = [header |-> g, bytes |-> EncodeHeader(l[n + 1]), count |-> n + 1]
  BY DEF SendHeader, HeadersKept
<1>3. output'.header = g /\ output'.count = n + 1 /\ output'.bytes = EncodeHeader(l[n + 1])
  BY <1>1
<1>4. n + 1 \in 0 .. Len(l) /\ n + 1 > 0 /\ n + 1 - 1 = n
  BY <1>1, HeaderLengths
<1> HIDE DEF g, n
<1> QED
  BY <1>1, <1>3, <1>4 DEF HeadersKept

LEMMA AlwaysHeadersKept == CodecSpec => []HeadersKept
<1>1. CodecInit => HeadersKept
  BY DEF CodecInit, HeadersKept
<1>2. HeadersKept /\ [CodecNext]_codecVars => HeadersKept'
  <2> SUFFICES ASSUME HeadersKept, [CodecNext]_codecVars PROVE HeadersKept'
    OBVIOUS
  <2>1. CASE ClearHeader
    <3>1. /\ input \in Inputs /\ input.kind = "header" /\ input' = input /\ stage' = "decoded"
          /\ output' = [header |-> InitHeader(input.memory), bytes |-> <<>>, count |-> 0]
      BY <2>1 DEF ClearHeader, HeadersKept
    <3>2. /\ output'.header.topic = NoTopic /\ output'.header.reply_topic = NoTopic
          /\ output'.count = 0
          /\ output' = [header |-> output'.header, bytes |-> output'.bytes, count |-> output'.count]
      BY <3>1 DEF InitHeader
    <3>3. 0 \in 0 .. Len(input.headers)
      BY <3>1, HeaderLengths
    <3> QED
      BY <3>1, <3>2, <3>3, KeptNone DEF HeadersKept
  <2>2. CASE SendHeader
    BY <2>2, SendKeeps
  <2>3. CASE ReceiveHeader
    BY <2>3, ReceiveKeeps
  <2>4. CASE Encode \/ Decode \/ AddTime \/ MeasureTime
    BY <2>4 DEF Encode, Decode, AddTime, MeasureTime, HeadersKept
  <2>5. CASE BeginStop \/ StopWakes
    BY <2>5 DEF BeginStop, StopWakes, HeadersKept
  <2>6. CASE UNCHANGED codecVars
    BY <2>6 DEF codecVars, HeadersKept
  <2> QED
    BY <2>1, <2>2, <2>3, <2>4, <2>5, <2>6 DEF CodecNext
<1> QED
  BY <1>1, <1>2, PTL DEF CodecSpec

-----------------------------------------------------------------------------
(* A limited wait.                                                         *)

\* What has passed, against what has been counted off.
CountedOff(ms, o) ==
  /\ Proper(o.now) /\ o.remaining \in Int /\ o.waited \in Nat /\ o.wakes \in Nat
  /\ o.waited <= ((ms - o.remaining) + o.wakes) * Millisecond
  /\ ~o.borrowed => (ms - o.remaining) * Millisecond <= o.waited

StopCounted ==
  /\ input \in Inputs
  /\ stage = "waiting" => input.kind = "stop" /\ CountedOff(input.ms, output)

LEMMA WakeCounts ==
  ASSUME NEW ms \in Nat, NEW o, CountedOff(ms, o), NEW nap \in Nat
  PROVE  LET now == After(o.now, nap)
         IN  CountedOff(ms, [now |-> now, remaining |-> o.remaining - PoolElapsed(o.now, now),
                          waited |-> o.waited + nap, wakes |-> o.wakes + 1,
                          borrowed |-> o.borrowed \/ now.nsec < o.now.nsec])
<1> DEFINE now == After(o.now, nap)
           p == PoolElapsed(o.now, now)
           e == nap \div Millisecond
           r == o.remaining
           b == now.nsec < o.now.nsec
<1>1. /\ Proper(o.now) /\ r \in Int /\ o.waited \in Nat /\ o.wakes \in Nat
      /\ o.waited <= ((ms - r) + o.wakes) * Millisecond
      /\ ~o.borrowed => (ms - r) * Millisecond <= o.waited
  BY DEF CountedOff
<1>2. Proper(now) /\ Nanos(now) = Nanos(o.now) + nap
  BY <1>1, AfterProper
<1>3. p \in Int /\ p >= e /\ (now.nsec >= o.now.nsec => p = e)
  BY <1>1, <1>2, ElapsedIs
<1>4. now.nsec \in Int /\ o.now.nsec \in Int
  BY <1>1, <1>2 DEF Proper
<1>5. ~b => p = e
  BY <1>3, <1>4
<1>6. e \in Nat /\ e * Millisecond <= nap /\ nap < (e + 1) * Millisecond
  BY SMT DEF Millisecond
<1> HIDE DEF now, p, e, r, b
<1>7. o.waited + nap <= ((ms - (r - p)) + (o.wakes + 1)) * Millisecond
  <2>1. (e + 1) * Millisecond <= (p + 1) * Millisecond
    BY SMT, <1>3, <1>6 DEF Millisecond
  <2>2. o.waited + nap <= (((ms - r) + o.wakes) * Millisecond) + ((p + 1) * Millisecond)
    <3>1. ((ms - r) + o.wakes) * Millisecond \in Int /\ (p + 1) * Millisecond \in Int
          /\ (e + 1) * Millisecond \in Int
      BY SMT, <1>1, <1>3, <1>6 DEF Millisecond
    <3> QED
      BY <1>1, <1>6, <2>1, <3>1
  <2>3. (((ms - r) + o.wakes) * Millisecond) + ((p + 1) * Millisecond)
          = ((ms - (r - p)) + (o.wakes + 1)) * Millisecond
    BY SMT, <1>1, <1>3 DEF Millisecond
  <2> QED
    BY <2>2, <2>3
<1>8. ASSUME ~o.borrowed, ~b PROVE (ms - (r - p)) * Millisecond <= o.waited + nap
  <2>1. (ms - (r - p)) * Millisecond = ((ms - r) * Millisecond) + (e * Millisecond)
    BY SMT, <1>1, <1>3, <1>5, <1>6, <1>8 DEF Millisecond
  <2>2. (ms - r) * Millisecond \in Int /\ e * Millisecond \in Int
    BY SMT, <1>1, <1>6 DEF Millisecond
  <2> QED
    BY <1>1, <1>6, <1>8, <2>1, <2>2
<1> DEFINE q == [now |-> now, remaining |-> r - p, waited |-> o.waited + nap,
                 wakes |-> o.wakes + 1, borrowed |-> o.borrowed \/ b]
<1>9. /\ q.now = now /\ q.remaining = r - p /\ q.waited = o.waited + nap
      /\ q.wakes = o.wakes + 1
  OBVIOUS
<1>10. q.borrowed <=> o.borrowed \/ b
  BY Zenon
<1>11. r - p \in Int /\ o.waited + nap \in Nat /\ o.wakes + 1 \in Nat
  BY <1>1, <1>3
<1> HIDE DEF q
<1>12. CountedOff(ms, q)
  BY <1>2, <1>7, <1>8, <1>9, <1>10, <1>11 DEF CountedOff
<1> QED
  BY <1>12 DEF q, now, p, r, b

LEMMA AlwaysStopCounted == CodecSpec => []StopCounted
<1>1. CodecInit => StopCounted
  BY DEF CodecInit, StopCounted
<1>2. StopCounted /\ [CodecNext]_codecVars => StopCounted'
  <2> SUFFICES ASSUME StopCounted, [CodecNext]_codecVars PROVE StopCounted'
    OBVIOUS
  <2>1. CASE BeginStop
    <3>1. /\ input \in Inputs /\ input.kind = "stop" /\ input' = input /\ stage' = "waiting"
          /\ output' = [now |-> input.start, remaining |-> input.ms,
                        waited |-> 0, wakes |-> 0, borrowed |-> FALSE]
      BY <2>1 DEF BeginStop, StopCounted
    <3>2. Proper(input.start) /\ input.ms \in Nat
      BY <3>1, InputKinds, CodecAssumption, ProperTime
    <3>3. /\ output'.now = input.start /\ output'.remaining = input.ms
          /\ output'.waited = 0 /\ output'.wakes = 0
      BY <3>1
    <3>4. 0 <= ((input.ms - input.ms) + 0) * Millisecond /\ (input.ms - input.ms) * Millisecond <= 0
      BY SMT, <3>2 DEF Millisecond
    <3>5. CountedOff(input.ms, output')
      BY <3>2, <3>3, <3>4 DEF CountedOff
    <3> QED
      BY <3>1, <3>5 DEF StopCounted
  <2>2. CASE StopWakes
    <3> DEFINE Next(nap) ==
                 LET now == After(output.now, nap)
                 IN  [now |-> now, remaining |-> output.remaining - PoolElapsed(output.now, now),
                      waited |-> output.waited + nap, wakes |-> output.wakes + 1,
                      borrowed |-> output.borrowed \/ now.nsec < output.now.nsec]
    <3>1. /\ input \in Inputs /\ input.kind = "stop" /\ input' = input /\ stage' = "waiting"
          /\ CountedOff(input.ms, output)
      BY <2>2 DEF StopWakes, StopCounted
    <3>2. PICK nap \in Naps : output' = Next(nap)
      BY <2>2 DEF StopWakes
    <3>3. input.ms \in Nat /\ nap \in Nat
      BY <3>1, InputKinds, CodecAssumption
    <3>4. CountedOff(input.ms, Next(nap))
      BY <3>1, <3>3, WakeCounts
    <3> HIDE DEF Next
    <3> QED
      BY <3>1, <3>2, <3>4 DEF StopCounted
  <2>3. CASE ClearHeader \/ SendHeader \/ ReceiveHeader
    BY <2>3 DEF ClearHeader, SendHeader, ReceiveHeader, StopCounted
  <2>4. CASE Encode \/ Decode \/ AddTime \/ MeasureTime
    BY <2>4 DEF Encode, Decode, AddTime, MeasureTime, StopCounted
  <2>5. CASE UNCHANGED codecVars
    BY <2>5 DEF codecVars, StopCounted
  <2> QED
    BY <2>1, <2>2, <2>3, <2>4, <2>5 DEF CodecNext
<1> QED
  BY <1>1, <1>2, PTL DEF CodecSpec

(* rtTime_Later, rtTime_Elapsed and rtTime_Compare agree for every proper time, any    *)
(* number of milliseconds and any moment to measure at; and a limited wait of          *)
(* StopAllThread, woken any number of times, is late by less than a millisecond each   *)
(* time and is early only when a measurement borrowed a second.                        *)
THEOREM TimesAlwaysRight == CodecSpec => []TimesRight
<1>1. ASSUME Computed PROVE TimesAgree
  <2> SUFFICES ASSUME input.kind = "time", stage \in {"encoded", "decoded"} PROVE TimesAgree
    BY DEF TimesAgree, Done
  <2> DEFINE t == input.start
             ms == input.ms
             e == Later(t, ms)
  <2>1. Proper(t) /\ ms \in Nat
    BY <1>1, InputKinds, CodecAssumption, ProperTime DEF Computed
  <2>2. Proper(e) /\ Nanos(e) = Nanos(t) + (ms * Millisecond)
    BY <2>1, LaterProper
  <2>3. CASE stage = "encoded"
    BY <1>1, <2>2, <2>3, ProperTime DEF Computed, TimesAgree, Done
  <2>4. CASE stage = "decoded"
    <3>1. PICK late \in Naps \cup {0} :
            output = [late |-> late, elapsed |-> Elapsed(t, After(e, late)),
                      order |-> Compare(After(e, late), t)]
      BY <1>1, <2>4 DEF Computed
    <3> HIDE DEF t, ms, e
    <3>2. late \in Nat
      BY CodecAssumption
    <3> DEFINE ns == (ms * Millisecond) + late
    <3>3. /\ ns \in Nat /\ (ns = 0 <=> ms = 0 /\ late = 0)
          /\ ns \div Millisecond = ms + (late \div Millisecond)
      BY SMT, <2>1, <3>2 DEF Millisecond
    <3>4. Proper(After(e, late)) /\ Nanos(After(e, late)) = Nanos(t) + ns
      <4>1. Proper(After(e, late)) /\ Nanos(After(e, late)) = Nanos(e) + late
        BY <2>2, <3>2, AfterProper
      <4>2. Nanos(t) \in Int /\ ms * Millisecond \in Int
        <5>1. t.sec \in Nat /\ t.nsec \in Nat
          BY <2>1 DEF Proper
        <5>2. (t.sec * Second) + t.nsec \in Int /\ ms * Millisecond \in Int
          BY SMT, <2>1, <5>1 DEF Second, Millisecond
        <5> QED
          BY <5>2 DEF Nanos
      <4> QED
        BY <2>2, <3>2, <4>1, <4>2
    <3> HIDE DEF ns
    <3>5. Elapsed(t, After(e, late)) = ns \div Millisecond
      BY <2>1, <3>3, <3>4, ElapsedIs
    <3>6. Compare(After(e, late), t) = IF ns = 0 THEN 0 ELSE 1
      BY <2>1, <3>3, <3>4, CompareIs
    <3>7. /\ output.late = late /\ output.elapsed = ms + (late \div Millisecond)
          /\ output.order = IF ms = 0 /\ late = 0 THEN 0 ELSE 1
      BY <3>1, <3>3, <3>5, <3>6
    <3> QED
      BY <2>4, <3>7 DEF TimesAgree, ms
  <2> QED
    BY <2>3, <2>4
<1>2. ASSUME StopCounted PROVE StopCountsTime
  <2> SUFFICES ASSUME stage = "waiting" PROVE StopCountsTime
    BY DEF StopCountsTime
  <2> DEFINE c == input.ms - output.remaining
  <2>1. /\ input.ms \in Nat /\ output.remaining \in Int
        /\ output.waited \in Nat /\ output.wakes \in Nat
        /\ output.waited <= (c + output.wakes) * Millisecond
        /\ ~output.borrowed => c * Millisecond <= output.waited
    BY <1>2, InputKinds, CodecAssumption DEF StopCounted, CountedOff
  <2>2. c \in Int
    BY <2>1
  <2>3. StopCountsTime <=>
          /\ output.waited \div Millisecond <= c + output.wakes
          /\ ~output.borrowed => c <= output.waited \div Millisecond
    BY DEF StopCountsTime
  <2> HIDE DEF c
  <2>4. output.waited \div Millisecond <= c + output.wakes
    BY SMT, <2>1, <2>2 DEF Millisecond
  <2>5. ASSUME ~output.borrowed PROVE c <= output.waited \div Millisecond
    BY SMT, <2>1, <2>2, <2>5 DEF Millisecond
  <2> QED
    BY <2>3, <2>4, <2>5
<1> QED
  BY <1>1, <1>2, AlwaysComputed, AlwaysStopCounted, PTL DEF TimesRight

(* What rtMessageHeader_Encode and rtBase64_encode make is decoded to what it was made *)
(* from, for all bytes within the limit and any headers: the first header decoded      *)
(* after Init into whatever memory, and any later one into the same memory but for the *)
(* tail a longer topic leaves; and the base64 functions write as much as they          *)
(* allocate, for any text.                                                             *)
THEOREM RoundTripsAlways == CodecSpec => []RoundTrips
<1>1. ASSUME HeadersKept PROVE HeaderRoundTrip
  <2> SUFFICES ASSUME input.kind = "header", stage = "decoded", output.count > 0
               PROVE  HeaderRoundTrip
    BY DEF HeaderRoundTrip, Done
  <2> DEFINE l == input.headers
             n == output.count
             h == l[n]
             g == output.header
             u == TopicsOf(l)
             v == ReplyTopicsOf(l)
  <2>1. /\ input \in Inputs /\ n \in 0 .. Len(l)
        /\ Kept(g.topic, u, n) /\ Kept(g.reply_topic, v, n)
        /\ SameNumbers(g, h)
        /\ g = [sequence_number |-> g.sequence_number, flags |-> g.flags,
                control_data |-> g.control_data, payload_length |-> g.payload_length,
                topic |-> g.topic, reply_topic |-> g.reply_topic]
    BY <1>1 DEF HeadersKept
  <2>2. Len(l) \in Nat /\ n \in 1 .. Len(l) /\ n \in Nat \ {0}
    BY <2>1, HeaderLengths
  <2>3. \A i \in 1 .. n : /\ IsHeader(l[i]) /\ u[i] = l[i].topic /\ v[i] = l[i].reply_topic
                          /\ IsTopic(u[i]) /\ IsTopic(v[i])
    <3>1. \A i \in 1 .. n : i \in 1 .. Len(l)
      BY <2>2
    <3> QED
      BY <2>1, <3>1, HeaderLengths
  <2>4. n \in 1 .. n
    BY <2>2
  <2> HIDE DEF u, v, g, n, l
  <2>5. StartsWith(g.topic, h.topic) /\ StartsWith(g.reply_topic, h.reply_topic)
    BY <2>1, <2>2, <2>3, <2>4 DEF Kept
  <2>6. ASSUME \A i \in 1 .. n : StrLen(l[i].topic) <= StrLen(h.topic) PROVE g.topic = h.topic
    <3>1. \A i \in 1 .. n : StrLen(u[i]) <= StrLen(u[n])
      BY <2>3, <2>4, <2>6
    <3> QED
      BY <2>1, <2>2, <2>3, <2>4, <3>1, KeptWhole
  <2>7. ASSUME \A i \in 1 .. n : StrLen(l[i].reply_topic) <= StrLen(h.reply_topic)
        PROVE  g.reply_topic = h.reply_topic
    <3>1. \A i \in 1 .. n : StrLen(v[i]) <= StrLen(v[n])
      BY <2>3, <2>4, <2>7
    <3> QED
      BY <2>1, <2>2, <2>3, <2>4, <3>1, KeptWhole
  <2>8. ASSUME n = 1 PROVE g = h
    <3>1. \A i \in 1 .. n : i = n
      BY <2>8
    <3>2. StrLen(h.topic) \in Nat /\ StrLen(h.reply_topic) \in Nat
      BY <2>3, <2>4, BytesString
    <3>3. /\ \A i \in 1 .. n : StrLen(l[i].topic) <= StrLen(h.topic)
          /\ \A i \in 1 .. n : StrLen(l[i].reply_topic) <= StrLen(h.reply_topic)
      BY <3>1, <3>2
    <3>4. g.topic = h.topic /\ g.reply_topic = h.reply_topic
      BY <2>6, <2>7, <3>3
    <3>5. h = [sequence_number |-> h.sequence_number, flags |-> h.flags,
               control_data |-> h.control_data, payload_length |-> h.payload_length,
               topic |-> h.topic, reply_topic |-> h.reply_topic]
      BY <2>3, <2>4 DEF IsHeader
    <3> QED
      BY <2>1, <3>4, <3>5 DEF SameNumbers
  <2> QED
    BY <2>1, <2>5, <2>6, <2>7, <2>8 DEF HeaderRoundTrip, g, n, l
<1>2. ASSUME Computed, input.kind = "binary"
      PROVE  /\ input.bytes \in Seq(Byte)
             /\ EncodeBase64(input.bytes) # Failed => Len(input.bytes) <= Limit
  <2>1. input.bytes \in Seq(Byte)
    BY <1>2, InputKinds, CodecAssumption DEF Computed
  <2>2. Len(input.bytes) > Limit => EncodeBase64(input.bytes) = Failed
    BY DEF EncodeBase64
  <2> QED
    BY <2>1, <2>2, CodecAssumption
<1>3. ASSUME Computed, input.kind = "binary", stage = "decoded"
      PROVE  /\ output # Failed /\ output.bytes = input.bytes
             /\ Len(output.bytes) = output.out_size
  <2> DEFINE b == input.bytes
             t == EncodeBase64(b).text
  <2>1. b \in Seq(Byte) /\ Len(b) <= Limit /\ t # <<>> /\ output = DecodeBase64(t)
    BY <1>2, <1>3 DEF Computed
  <2>2. Len(t) = 4 * ((Len(b) + 2) \div 3)
    BY <2>1, TextOf
  <2>3. Len(b) > 0
    <3>1. Len(b) \in Nat /\ (Len(b) = 0 => b = <<>>)
      BY <2>1
    <3>2. EncodeBase64(<<>>) # Failed => EncodeBase64(<<>>).text = <<>>
      <4>1. EncodeBase64(<<>>) =
              IF 0 > Limit THEN Failed ELSE [text |-> <<>>, out_size |-> EncodedSize(0)]
        BY DEF EncodeBase64
      <4> QED
        BY <4>1
    <3> QED
      BY <1>3, <2>1, <3>1, <3>2 DEF Computed
  <2>4. Len(t) \in Nat /\ Len(t) > 0
    <3> HIDE DEF b, t
    <3> QED
      BY <2>1, <2>2, <2>3
  <2>5. DecodeBase64(t) # Failed /\ DecodeBase64(t).bytes = b
    BY <2>1, <2>3, Base64RoundTrip
  <2> HIDE DEF t
  <2>6. Len(DecodeBase64(t).bytes) = DecodeBase64(t).out_size
    BY <2>4, <2>5, DecodedFits
  <2> QED
    BY <2>1, <2>5, <2>6
<1>4. ASSUME Computed PROVE BinaryRoundTrip
  BY <1>3, <1>4 DEF BinaryRoundTrip, Done
<1>5. ASSUME Computed PROVE ConversionsFit
  <2>1. ASSUME input.kind = "binary", stage = "encoded", output # Failed
        PROVE  Len(output.text) + 1 <= output.out_size
    BY <1>2, <1>5, <2>1, TextOf DEF Computed
  <2>2. ASSUME input.kind = "text", stage = "decoded", output # Failed
        PROVE  Len(output.bytes) = output.out_size
    <3>1. input.text \in Seq(0 .. Other) /\ input.text # <<>>
      BY <1>5, <2>2, InputKinds, CodecAssumption DEF Computed
    <3>2. Len(input.text) \in Nat /\ Len(input.text) > 0
      BY <3>1
    <3>3. output = DecodeBase64(input.text)
      BY <1>5, <2>2 DEF Computed
    <3> QED
      BY <2>2, <3>2, <3>3, DecodedFits
  <2> QED
    BY <1>3, <1>5, <2>1, <2>2 DEF ConversionsFit
<1> QED
  BY <1>1, <1>4, <1>5, AlwaysComputed, AlwaysHeadersKept, PTL DEF RoundTrips
=============================================================================
