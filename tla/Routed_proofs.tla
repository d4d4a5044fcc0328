---------------------------- MODULE Routed_proofs ----------------------------
(***************************************************************************)
(* Proofs about the router daemon and its topic tree, for every set of     *)
(* clients, listener ids and expressions, and any number of routes.        *)
(***************************************************************************)
EXTENDS Routed, Integers, SequenceTheorems, FiniteSetTheorems, NaturalsInduction,
        WellFoundedInduction, TLAPS

-----------------------------------------------------------------------------
(* Recursion and sequences.                                                *)

\* A set of naturals has a least element.
LEMMA MinIn ==
  ASSUME NEW S, S \subseteq Nat, S # {}
  PROVE  Min(S) \in S /\ \A y \in S : Min(S) <= y
<1> DEFINE R == {ss \in Nat \X Nat : ss[1] < ss[2]}
<1>1. IsWellFoundedOn(R, Nat)
  BY NatLessThanWellFounded DEF OpToRel
<1>2. PICK x \in S : \A y \in S : ~(<<y, x>> \in R)
  <2> HIDE DEF R
  <2> QED
    BY <1>1, WFMin
<1>3. ASSUME NEW y \in S PROVE x <= y
  <2> SUFFICES ASSUME y < x PROVE FALSE
    OBVIOUS
  <2>1. <<y, x>> \in Nat \X Nat /\ <<y, x>>[1] < <<y, x>>[2]
    OBVIOUS
  <2>2. <<y, x>> \in R
    BY <2>1
  <2> QED
    BY <1>2, <2>2
<1> QED
  BY <1>3 DEF Min

\* Induction up to n, over a set.
LEMMA UpTo ==
  ASSUME NEW n \in Nat, NEW P, 0 \in P, \A i \in 1 .. n : i - 1 \in P => i \in P
  PROVE  \A i \in 0 .. n : i \in P
<1> DEFINE missing == (0 .. n) \ P
<1> SUFFICES ASSUME missing # {} PROVE FALSE
  OBVIOUS
<1>1. Min(missing) \in missing /\ \A y \in missing : Min(missing) <= y
  <2>1. missing \subseteq Nat
    OBVIOUS
  <2> HIDE DEF missing
  <2> QED
    BY <2>1, MinIn
<1>2. PICK i : i = Min(missing)
  OBVIOUS
<1>3. i \in 1 .. n /\ i - 1 \in 0 .. n /\ ~(i <= i - 1)
  BY <1>1, <1>2
<1>4. i - 1 \notin missing
  BY <1>1, <1>2, <1>3
<1> QED
  BY <1>1, <1>2, <1>3, <1>4

\* A function can be defined step by step.
Steps(n, S) == [1 .. n -> [S -> S]]
Follows(f, n, S, a, step) ==
  f \in [0 .. n -> S] /\ f[0] = a /\ \A i \in 1 .. n : f[i] = step[i][f[i - 1]]

LEMMA StepByStep ==
  ASSUME NEW S, NEW a \in S, NEW n \in Nat, NEW step \in Steps(n, S)
  PROVE  \E f : Follows(f, n, S, a, step)
<1> USE DEF Steps
<1> DEFINE Upto(m, f) == f[0] = a /\ \A i \in 1 .. m : f[i] = step[i][f[i - 1]]
           P == {m \in 0 .. n : \E f \in [0 .. m -> S] : Upto(m, f)}
<1>1. 0 \in P
  <2> DEFINE f == [i \in 0 .. 0 |-> a]
  <2>1. f \in [0 .. 0 -> S]
    OBVIOUS
  <2>2. f[0] = a /\ 1 .. 0 = {}
    OBVIOUS
  <2> HIDE DEF f
  <2> QED
    BY <2>1, <2>2
<1>2. ASSUME NEW m \in 1 .. n, m - 1 \in P PROVE m \in P
  <2>1. PICK f \in [0 .. m - 1 -> S] : Upto(m - 1, f)
    BY <1>2
  <2> DEFINE g == [i \in 0 .. m |-> IF i = m THEN step[m][f[m - 1]] ELSE f[i]]
  <2>2. f[m - 1] \in S /\ step[m] \in [S -> S]
    OBVIOUS
  <2>3. g \in [0 .. m -> S]
    BY <2>2
  <2>4. g[0] = a
    BY <2>1
  <2>5. ASSUME NEW i \in 1 .. m PROVE g[i] = step[i][g[i - 1]]
    <3>1. i \in 0 .. m /\ i - 1 \in 0 .. m /\ i - 1 # m
      OBVIOUS
    <3>2. g[i - 1] = f[i - 1]
      BY <3>1
    <3>3. CASE i = m
      BY <3>1, <3>2, <3>3
    <3>4. CASE i # m
      <4>1. i \in 1 .. m - 1 /\ g[i] = f[i]
        BY <3>1, <3>4
      <4> QED
        BY <4>1, <2>1, <3>2
    <3> QED
      BY <3>3, <3>4
  <2> HIDE DEF g
  <2>6. Upto(m, g) /\ m \in 0 .. n
    BY <2>4, <2>5
  <2> HIDE DEF Upto
  <2> QED
    BY <2>3, <2>6
<1>3. n \in P
  <2> HIDE DEF P
  <2>1. \A m \in 0 .. n : m \in P
    BY <1>1, <1>2, UpTo
  <2> QED
    BY <2>1
<1> QED
  BY <1>3 DEF Follows

\* Append adds one element.
LEMMA AppendedRange ==
  ASSUME NEW S, NEW s \in Seq(S), NEW x \in S
  PROVE  /\ Append(s, x) \in Seq(S)
         /\ Range(Append(s, x)) = Range(s) \cup {x}
         /\ IsInjective(s) /\ x \notin Range(s) => IsInjective(Append(s, x))
<1> DEFINE a == Append(s, x)
<1>1. /\ a \in Seq(S) /\ Len(s) \in Nat /\ Len(a) = Len(s) + 1
      /\ a[Len(s) + 1] = x /\ \A i \in 1 .. Len(s) : a[i] = s[i]
  BY AppendProperties, LenProperties
<1> HIDE DEF a
<1>2. DOMAIN a = 1 .. Len(s) \cup {Len(s) + 1} /\ DOMAIN s = 1 .. Len(s)
  <2>1. DOMAIN a = 1 .. Len(s) + 1 /\ 1 .. Len(s) + 1 = 1 .. Len(s) \cup {Len(s) + 1}
    BY <1>1, LenProperties
  <2> QED
    BY <2>1, LenProperties
<1>3. Range(a) = Range(s) \cup {x}
  BY <1>1, <1>2 DEF Range
<1>4. ASSUME IsInjective(s), x \notin Range(s) PROVE IsInjective(a)
  <2>1. \A i \in 1 .. Len(s) : s[i] # x
    BY <1>2, <1>4 DEF Range
  <2> QED
    BY <1>1, <1>2, <1>4, <2>1 DEF IsInjective
<1> QED
  BY <1>1, <1>3, <1>4 DEF a

\* AppendOnce adds it unless it is there.
LEMMA AppendedOnce ==
  ASSUME NEW S, NEW s \in Seq(S), NEW x \in S
  PROVE  AppendOnce(s, x) \in Seq(S) /\ Range(AppendOnce(s, x)) = Range(s) \cup {x}
<1>1. DOMAIN s = 1 .. Len(s)
  BY LenProperties
<1>2. Contains(s, x) <=> x \in Range(s)
  BY <1>1 DEF Contains, Range
<1> QED
  BY <1>2, AppendedRange DEF AppendOnce

\* The recursion of Keep.
Keeps(f, s, T) == f = [i \in 0 .. Len(s) |->
                         IF i = 0 THEN <<>>
                         ELSE IF s[i] \in T THEN Append(f[i-1], s[i]) ELSE f[i-1]]

\* The function that Keep chooses exists.
LEMMA KeptExists ==
  ASSUME NEW S, NEW s \in Seq(S), NEW T
  PROVE  \E f : Keeps(f, s, T)
<1> PICK n \in Nat : n = Len(s)
  BY LenProperties
<1>0. \A i \in 1 .. n : s[i] \in S
  BY ElementOfSeq
<1> DEFINE step == [i \in 1 .. n |->
                      [q \in Seq(S) |-> IF s[i] \in T THEN Append(q, s[i]) ELSE q]]
<1>1. step \in Steps(n, Seq(S))
  BY <1>0, AppendProperties DEF Steps
<1>2. <<>> \in Seq(S)
  BY EmptySeq
<1>3. PICK f : Follows(f, n, Seq(S), <<>>, step)
  <2> HIDE DEF step
  <2> QED
    BY <1>1, <1>2, StepByStep
<1>4. ASSUME NEW i \in 1 .. n
      PROVE  f[i] = IF s[i] \in T THEN Append(f[i-1], s[i]) ELSE f[i-1]
  <2>1. i - 1 \in 0 .. n
    OBVIOUS
  <2>2. f[i - 1] \in Seq(S)
    BY <1>3, <2>1 DEF Follows
  <2>3. f[i] = step[i][f[i - 1]]
    BY <1>3 DEF Follows
  <2> QED
    BY <2>2, <2>3
<1>5. f = [i \in 0 .. n |->
             IF i = 0 THEN <<>>
             ELSE IF s[i] \in T THEN Append(f[i-1], s[i]) ELSE f[i-1]]
  <2> HIDE DEF step
  <2>1. \A i \in 0 .. n : i = 0 \/ i \in 1 .. n
    OBVIOUS
  <2> QED
    BY <1>3, <1>4, <2>1 DEF Follows
<1> QED
  BY <1>5 DEF Keeps

\* Keep leaves the elements of T, and no element twice that was there once.
LEMMA Kept ==
  ASSUME NEW S, NEW s \in Seq(S), NEW T
  PROVE  /\ Keep(s, T) \in Seq(S)
         /\ Range(Keep(s, T)) = Range(s) \cap T
         /\ IsInjective(s) => IsInjective(Keep(s, T))
<1>1. Len(s) \in Nat /\ <<>> \in Seq(S) /\ \A i \in 1 .. Len(s) : s[i] \in S
  BY LenProperties, EmptySeq, ElementOfSeq
<1>2. \E f : Keeps(f, s, T)
  BY KeptExists
<1> DEFINE kept[i \in 0..Len(s)] ==
             IF i = 0 THEN <<>>
             ELSE IF s[i] \in T THEN Append(kept[i-1], s[i]) ELSE kept[i-1]
<1>3. Keep(s, T) = kept[Len(s)]
  BY DEF Keep
<1>4. kept = [i \in 0 .. Len(s) |->
                IF i = 0 THEN <<>>
                ELSE IF s[i] \in T THEN Append(kept[i-1], s[i]) ELSE kept[i-1]]
  BY <1>2 DEF Keeps
<1> HIDE DEF kept
<1>5. kept[0] = <<>>
  BY <1>1, <1>4
<1>6. ASSUME NEW i \in 1 .. Len(s)
      PROVE  kept[i] = IF s[i] \in T THEN Append(kept[i-1], s[i]) ELSE kept[i-1]
  <2>1. i \in 0 .. Len(s) /\ i # 0
    BY <1>1
  <2> QED
    BY <1>4, <2>1
<1> DEFINE Seen(i) == {s[j] : j \in 1 .. i}
           Good(i) == /\ kept[i] \in Seq(S)
                      /\ Range(kept[i]) = Seen(i) \cap T
                      /\ IsInjective(s) => IsInjective(kept[i])
           P == {i \in 0 .. Len(s) : Good(i)}
<1>7. 0 \in P
  <2>1. Seen(0) = {}
    OBVIOUS
  <2>2. Range(kept[0]) = {} /\ IsInjective(kept[0])
    BY <1>5 DEF Range, IsInjective
  <2> HIDE DEF Seen
  <2>3. Good(0)
    BY <1>1, <1>5, <2>1, <2>2
  <2> QED
    BY <1>1, <2>3
<1>8. ASSUME NEW i \in 1 .. Len(s), i - 1 \in P PROVE i \in P
  <2>1. Good(i - 1) /\ i \in 0 .. Len(s) /\ s[i] \in S
    BY <1>1, <1>8
  <2>2. Seen(i) = Seen(i - 1) \cup {s[i]}
    <3>1. 1 .. i = (1 .. i - 1) \cup {i}
      BY <1>1
    <3>2. \A x : x \in Seen(i) <=> x \in Seen(i - 1) \/ x = s[i]
      BY <3>1
    <3> QED
      BY <3>2
  <2>3. CASE s[i] \notin T
    <3> HIDE DEF Seen
    <3>1. kept[i] = kept[i - 1]
      BY <1>6, <2>3
    <3>2. Good(i)
      BY <2>1, <2>2, <2>3, <3>1
    <3> QED
      BY <2>1, <3>2
  <2>4. CASE s[i] \in T
    <3> DEFINE k == kept[i - 1]
    <3>1. k \in Seq(S) /\ kept[i] = Append(k, s[i]) /\ Len(k) \in Nat
      BY <1>6, <2>1, <2>4, LenProperties
    <3>2. Range(k) = Seen(i - 1) \cap T /\ (IsInjective(s) => IsInjective(k))
      BY <2>1
    <3> HIDE DEF k
    <3>3. /\ kept[i] \in Seq(S) /\ Len(kept[i]) = Len(k) + 1
          /\ kept[i][Len(k) + 1] = s[i] /\ \A j \in 1 .. Len(k) : kept[i][j] = k[j]
      BY <2>1, <3>1, AppendProperties
    <3>4. /\ DOMAIN kept[i] = 1 .. Len(k) + 1 /\ DOMAIN k = 1 .. Len(k)
          /\ 1 .. Len(k) + 1 = (1 .. Len(k)) \cup {Len(k) + 1}
      BY <3>1, <3>3, LenProperties
    <3>5. Range(kept[i]) = Range(k) \cup {s[i]}
      BY <3>3, <3>4 DEF Range
    <3>6. ASSUME IsInjective(s) PROVE IsInjective(kept[i])
      <4>1. s[i] \notin Range(k)
        <5>1. \A j \in 1 .. i - 1 : j \in DOMAIN s /\ i \in DOMAIN s /\ j # i
          BY <1>1, LenProperties
        <5>2. \A j \in 1 .. i - 1 : s[j] # s[i]
          BY <3>6, <5>1 DEF IsInjective
        <5> QED
          BY <3>2, <5>2
      <4>2. IsInjective(k) /\ \A j \in 1 .. Len(k) : k[j] # s[i]
        BY <3>2, <3>4, <3>6, <4>1 DEF Range
      <4> QED
        BY <3>3, <3>4, <4>2 DEF IsInjective
    <3> HIDE DEF Seen
    <3>7. Good(i)
      BY <2>2, <2>4, <3>2, <3>3, <3>5, <3>6
    <3> QED
      BY <2>1, <3>7
  <2> QED
    BY <2>3, <2>4
<1>9. Len(s) \in P
  <2> HIDE DEF P
  <2>1. \A i \in 0 .. Len(s) : i \in P
    BY <1>1, <1>7, <1>8, UpTo
  <2> QED
    BY <1>1, <2>1
<1>10. Seen(Len(s)) = Range(s)
  BY <1>1, LenProperties DEF Range
<1> QED
  BY <1>3, <1>9, <1>10

\* RemoveAt leaves the other elements, in their order.
LEMMA RemoveAtProperties ==
  ASSUME NEW S, NEW s \in Seq(S), NEW k \in 1 .. Len(s)
  PROVE  /\ RemoveAt(s, k) \in Seq(S)
         /\ DOMAIN RemoveAt(s, k) = 1 .. Len(s) - 1
         /\ \A i \in 1 .. Len(s) - 1 :
              RemoveAt(s, k)[i] = IF i < k THEN s[i] ELSE s[i + 1]
<1> DEFINE left == SubSeq(s, 1, k - 1)
           right == SubSeq(s, k + 1, Len(s))
<1>1. Len(s) \in Nat
  BY LenProperties
<1>2. left \in Seq(S) /\ Len(left) = k - 1 /\ \A i \in 1 .. k - 1 : left[i] = s[i]
  BY <1>1, SubSeqProperties
<1>3. right \in Seq(S) /\ Len(right) = Len(s) - k
      /\ \A i \in 1 .. Len(s) - k : right[i] = s[k + i]
  BY <1>1, SubSeqProperties
<1>4. RemoveAt(s, k) = left \o right
  BY DEF RemoveAt
<1> HIDE DEF left, right
<1>5. /\ left \o right \in Seq(S) /\ Len(left \o right) = Len(s) - 1
      /\ \A i \in 1 .. Len(s) - 1 :
           (left \o right)[i] = IF i <= k - 1 THEN left[i] ELSE right[i - (k - 1)]
  BY <1>1, <1>2, <1>3, ConcatProperties
<1>6. ASSUME NEW i \in 1 .. Len(s) - 1
      PROVE  (left \o right)[i] = IF i < k THEN s[i] ELSE s[i + 1]
  <2>1. CASE i < k
    <3>1. i \in 1 .. k - 1 /\ i <= k - 1
      BY <1>1, <2>1
    <3> QED
      BY <2>1, <3>1, <1>2, <1>5
  <2>2. CASE ~(i < k)
    <3>1. i - (k - 1) \in 1 .. Len(s) - k /\ k + (i - (k - 1)) = i + 1 /\ ~(i <= k - 1)
      BY <1>1, <2>2
    <3>2. (left \o right)[i] = right[i - (k - 1)]
      BY <3>1, <1>5
    <3> QED
      BY <2>2, <3>1, <3>2, <1>3
  <2> QED
    BY <2>1, <2>2
<1> QED
  BY <1>4, <1>5, <1>6, LenProperties

\* RemoveFirst takes one element away at most, and e if it was there once.
LEMMA FirstRemoved ==
  ASSUME NEW S, NEW s \in Seq(S), NEW e
  PROVE  /\ RemoveFirst(s, e) \in Seq(S)
         /\ Range(RemoveFirst(s, e)) \subseteq Range(s)
         /\ Range(s) \ {e} \subseteq Range(RemoveFirst(s, e))
         /\ IsInjective(s) => /\ IsInjective(RemoveFirst(s, e))
                              /\ e \notin Range(RemoveFirst(s, e))
<1> DEFINE I == {i \in 1 .. Len(s) : s[i] = e}
<1>1. Len(s) \in Nat /\ DOMAIN s = 1 .. Len(s)
  BY LenProperties
<1>2. CASE I = {}
  <2>1. RemoveFirst(s, e) = s /\ e \notin Range(s)
    BY <1>1, <1>2 DEF RemoveFirst, Range
  <2> QED
    BY <2>1
<1>3. CASE I # {}
  <2>1. PICK k : k = Min(I)
    OBVIOUS
  <2>2. k \in 1 .. Len(s) /\ s[k] = e
    <3>1. I \subseteq Nat
      BY <1>1
    <3>2. Min(I) \in I
      <4> HIDE DEF I
      <4> QED
        BY <1>3, <3>1, MinIn
    <3> QED
      BY <2>1, <3>2
  <2>3. RemoveFirst(s, e) = RemoveAt(s, k)
    BY <1>3, <2>1 DEF RemoveFirst, SelectInSeq
  <2> DEFINE r == RemoveAt(s, k)
  <2>4. /\ r \in Seq(S) /\ DOMAIN r = 1 .. Len(s) - 1
        /\ \A i \in 1 .. Len(s) - 1 : r[i] = IF i < k THEN s[i] ELSE s[i + 1]
    BY <2>2, RemoveAtProperties
  <2> HIDE DEF r, I
  <2>5. \A i \in 1 .. Len(s) - 1 : \E j \in 1 .. Len(s) : j # k /\ r[i] = s[j]
    <3> TAKE i \in 1 .. Len(s) - 1
    <3>1. CASE i < k
      BY <1>1, <2>4, <3>1
    <3>2. CASE ~(i < k)
      <4>1. i + 1 \in 1 .. Len(s) /\ i + 1 # k
        BY <1>1, <2>2, <3>2
      <4> QED
        BY <2>4, <3>2, <4>1
    <3> QED
      BY <3>1, <3>2
  <2>6. ASSUME NEW j \in 1 .. Len(s), j # k
        PROVE  \E i \in 1 .. Len(s) - 1 : r[i] = s[j]
    <3>1. CASE j < k
      BY <1>1, <2>2, <2>4, <3>1
    <3>2. CASE ~(j < k)
      <4>1. j - 1 \in 1 .. Len(s) - 1 /\ ~(j - 1 < k) /\ (j - 1) + 1 = j
        BY <1>1, <2>2, <2>6, <3>2
      <4> QED
        BY <2>4, <4>1
    <3> QED
      BY <3>1, <3>2
  <2>a. \A x : x \in Range(r) <=> \E i \in 1 .. Len(s) - 1 : r[i] = x
    BY <2>4 DEF Range
  <2>b. \A x : x \in Range(s) <=> \E i \in 1 .. Len(s) : s[i] = x
    BY <1>1 DEF Range
  <2>7. Range(r) \subseteq Range(s) /\ Range(s) \ {e} \subseteq Range(r)
    <3>1. ASSUME NEW x \in Range(r) PROVE x \in Range(s)
      BY <2>5, <2>a, <2>b
    <3>2. ASSUME NEW x \in Range(s), x # e PROVE x \in Range(r)
      BY <2>2, <2>6, <2>a, <2>b, <3>2
    <3> QED
      BY <3>1, <3>2
  <2>8. ASSUME IsInjective(s) PROVE e \notin Range(r)
    <3>1. \A j \in 1 .. Len(s) : j # k => s[j] # e
      BY <1>1, <2>2, <2>8 DEF IsInjective
    <3> QED
      BY <2>5, <2>a, <3>1
  <2>9. ASSUME IsInjective(s) PROVE IsInjective(r)
    <3> SUFFICES ASSUME NEW i \in 1 .. Len(s) - 1, NEW j \in 1 .. Len(s) - 1, r[i] = r[j]
                 PROVE  i = j
      BY <2>4 DEF IsInjective
    <3>1. \A m, n \in 1 .. Len(s) : s[m] = s[n] => m = n
      BY <1>1, <2>9 DEF IsInjective
    <3>2. /\ i \in 1 .. Len(s) /\ i + 1 \in 1 .. Len(s)
          /\ j \in 1 .. Len(s) /\ j + 1 \in 1 .. Len(s)
      BY <1>1
    <3>3. /\ (IF i < k THEN s[i] ELSE s[i + 1]) = IF j < k THEN s[j] ELSE s[j + 1]
      BY <2>4
    <3>4. (IF i < k THEN i ELSE i + 1) = IF j < k THEN j ELSE j + 1
      BY <3>1, <3>2, <3>3
    <3> QED
      BY <1>1, <2>2, <3>4
  <2> QED
    BY <2>3, <2>4, <2>7, <2>8, <2>9 DEF r
<1> QED
  BY <1>2, <1>3

-----------------------------------------------------------------------------
(* Paths.                                                                  *)

LEMMA Appended ==
  ASSUME NEW S, NEW p \in Seq(S), NEW x \in S
  PROVE  /\ Append(p, x) \in Seq(S) /\ Append(p, x) # <<>>
         /\ Len(Append(p, x)) = Len(p) + 1
         /\ Front(Append(p, x)) = p /\ Last(Append(p, x)) = x
         /\ \A i \in 1 .. Len(p) : Append(p, x)[i] = p[i]
<1> DEFINE q == Append(p, x)
<1>1. /\ q \in Seq(S) /\ q # <<>> /\ Len(q) = Len(p) + 1 /\ Len(p) \in Nat
      /\ q[Len(p) + 1] = x /\ \A i \in 1 .. Len(p) : q[i] = p[i]
  BY AppendProperties, LenProperties
<1> HIDE DEF q
<1>2. Last(q) = x
  BY <1>1 DEF Last
<1>3. Front(q) = p
  <2>1. Front(q) = SubSeq(q, 1, Len(p))
    BY <1>1 DEF Front
  <2>2. /\ SubSeq(q, 1, Len(p)) \in Seq(S) /\ Len(SubSeq(q, 1, Len(p))) = Len(p)
        /\ \A i \in 1 .. Len(p) : SubSeq(q, 1, Len(p))[i] = q[i]
    BY <1>1, SubSeqProperties
  <2> QED
    BY <1>1, <2>1, <2>2, SeqEqual
<1> QED
  BY <1>1, <1>2, <1>3 DEF q

\* A path that is not the root is its parent's, and one name.
LEMMA FrontAndLast ==
  ASSUME NEW S, NEW p \in Seq(S), p # <<>>
  PROVE  /\ Front(p) \in Seq(S) /\ Last(p) \in S /\ p = Append(Front(p), Last(p))
<1>1. Len(p) \in Nat /\ Len(p) > 0
  BY EmptySeq, LenProperties
<1>2. Last(p) \in S
  BY <1>1, ElementOfSeq DEF Last
<1>3. /\ Front(p) \in Seq(S) /\ Len(Front(p)) = Len(p) - 1
      /\ \A i \in 1 .. Len(p) - 1 : Front(p)[i] = p[i]
  <2>1. PICK n \in Nat : Len(p) = n + 1
    <3>1. Len(p) - 1 \in Nat /\ Len(p) = (Len(p) - 1) + 1
      BY <1>1
    <3> QED
      BY <3>1
  <2>2. \A i \in 1 .. n : p[i] \in S
    BY <1>1, <2>1, ElementOfSeq
  <2>3. /\ SubSeq(p, 1, n) \in Seq(S) /\ Len(SubSeq(p, 1, n)) = n
        /\ \A i \in 1 .. n : SubSeq(p, 1, n)[i] = p[i]
    BY <2>2, SubSeqProperties
  <2>4. Len(p) - 1 = n
    BY <2>1
  <2> QED
    BY <2>3, <2>4 DEF Front
<1>4. /\ Append(Front(p), Last(p)) \in Seq(S) /\ Len(Append(Front(p), Last(p))) = Len(p)
      /\ \A i \in 1 .. Len(p) : Append(Front(p), Last(p))[i] = p[i]
  BY <1>1, <1>2, <1>3, AppendProperties DEF Last
<1> QED
  BY <1>2, <1>3, <1>4, SeqEqual

\* A prefix is shorter and agrees with the sequence.
LEMMA Prefix ==
  ASSUME NEW S, NEW p \in Seq(S), NEW q \in Seq(S)
  PROVE  IsPrefix(p, q) <=> Len(p) <= Len(q) /\ \A i \in 1 .. Len(p) : p[i] = q[i]
<1>1. Len(p) \in Nat /\ Len(q) \in Nat
  BY LenProperties
<1>2. SubSeq(p, 1, Len(p)) = p
  BY <1>1, SubSeqFull
<1>3. ASSUME Len(p) <= Len(q)
      PROVE  SubSeq(q, 1, Len(p)) = p <=> \A i \in 1 .. Len(p) : p[i] = q[i]
  <2>1. /\ SubSeq(q, 1, Len(p)) \in Seq(S) /\ Len(SubSeq(q, 1, Len(p))) = Len(p)
        /\ \A i \in 1 .. Len(p) : SubSeq(q, 1, Len(p))[i] = q[i]
    BY <1>1, <1>3, SubSeqProperties
  <2> QED
    BY <1>1, <2>1, SeqEqual
<1> QED
  BY <1>2, <1>3 DEF IsPrefix

\* Being above a topic, or the topic itself, is an order with the root at its start.
LEMMA PrefixOrder ==
  ASSUME NEW S, NEW p \in Seq(S), NEW q \in Seq(S), NEW r \in Seq(S)
  PROVE  /\ IsPrefix(p, p) /\ IsPrefix(<<>>, p)
         /\ IsPrefix(p, q) /\ IsPrefix(q, r) => IsPrefix(p, r)
         /\ IsPrefix(p, <<>>) => p = <<>>
<1>1. Len(p) \in Nat /\ Len(q) \in Nat /\ Len(r) \in Nat /\ <<>> \in Seq(S)
      /\ Len(<<>>) = 0 /\ (Len(p) = 0 => p = <<>>)
  BY LenProperties, EmptySeq
<1>2. IsPrefix(p, p)
  BY <1>1, Prefix
<1>3. IsPrefix(<<>>, p)
  BY <1>1, SubSeqEmpty DEF IsPrefix
<1>4. IsPrefix(p, q) /\ IsPrefix(q, r) => IsPrefix(p, r)
  BY <1>1, Prefix
<1>5. IsPrefix(p, <<>>) => p = <<>>
  BY <1>1 DEF IsPrefix
<1> QED
  BY <1>2, <1>3, <1>4, <1>5

\* What is above Append(q, x) is above q, or the topic itself.
LEMMA PrefixOfAppended ==
  ASSUME NEW S, NEW p \in Seq(S), NEW q \in Seq(S), NEW x \in S
  PROVE  IsPrefix(p, Append(q, x)) <=> IsPrefix(p, q) \/ p = Append(q, x)
<1> DEFINE r == Append(q, x)
<1>1. /\ r \in Seq(S) /\ Len(r) = Len(q) + 1 /\ \A i \in 1 .. Len(q) : r[i] = q[i]
      /\ Len(p) \in Nat /\ Len(q) \in Nat
  BY Appended, LenProperties
<1> HIDE DEF r
<1>2. CASE Len(p) <= Len(q)
  <2>1. p # r /\ Len(p) <= Len(r)
    BY <1>1, <1>2
  <2>2. \A i \in 1 .. Len(p) : r[i] = q[i]
    BY <1>1, <1>2
  <2>3. IsPrefix(p, r) <=> \A i \in 1 .. Len(p) : p[i] = r[i]
    BY <1>1, <2>1, Prefix
  <2>4. IsPrefix(p, q) <=> \A i \in 1 .. Len(p) : p[i] = q[i]
    BY <1>1, <1>2, Prefix
  <2> QED
    BY <2>1, <2>2, <2>3, <2>4 DEF r
<1>3. CASE Len(p) > Len(q)
  <2>1. ~IsPrefix(p, q)
    BY <1>1, <1>3, Prefix
  <2>2. ASSUME IsPrefix(p, r) PROVE p = r
    <3>1. Len(p) = Len(r) /\ \A i \in 1 .. Len(p) : p[i] = r[i]
      BY <1>1, <1>3, <2>2, Prefix
    <3> QED
      BY <1>1, <3>1, SeqEqual
  <2>3. IsPrefix(r, r)
    BY <1>1, PrefixOrder
  <2> QED
    BY <2>1, <2>2, <2>3 DEF r
<1> QED
  BY <1>1, <1>2, <1>3

-----------------------------------------------------------------------------
(* What holds of every tree the operations make.                           *)

Path == Seq(Tokens)
Route == Clients \X RouteIds
Handle == Route \X (Nat \ {0})
Topic == [childList : Seq(Tokens), listed : BOOLEAN,
          routeList : Seq(Handle), routeList2 : Seq(Handle), isTable : BOOLEAN]
TreesOn(D, H) == [topic : [D -> Topic], topicList : [H -> Seq(Path)]]
Trees == UNION {TreesOn(D, H) : D \in SUBSET Path, H \in SUBSET Handle}

\* Lists as sets.
Paths(t) == DOMAIN t.topic
Handles(t) == DOMAIN t.topicList
Names(t, p) == Range(t.topic[p].childList)
At(t, p) == Range(t.topic[p].routeList)
Under(t, p) == Range(t.topic[p].routeList2)
Of(t, h) == Range(t.topicList[h])

Finite(t) == IsFiniteSet(Paths(t)) /\ IsFiniteSet(Handles(t))

\* What is above a topic is in the tree, and childList says what is below.
Closed(t) == <<>> \in Paths(t) /\ \A q \in Paths(t), p \in Path : IsPrefix(p, q) => p \in Paths(t)
Children(t) == \A p \in Paths(t), x \in Tokens : x \in Names(t, p) <=> Append(p, x) \in Paths(t)

\* A list that has routes was created, and no route is in it twice.
Listed(t) == \A p \in Paths(t) : At(t, p) # {} => t.topic[p].listed
NoTwice(t) == \A p \in Paths(t) : IsInjective(t.topic[p].routeList)

\* A route entry has one tree route, which knows the topics that list it, and the
\* topics list no other.
OneHandle(t) == \A g, h \in Handles(t) : g[1] = h[1] => g = h
Agree(t) == \A h \in Handles(t), p \in Path :
              p \in Of(t, h) <=> p # <<>> /\ p \in Paths(t) /\ h \in At(t, p)
Live(t) == \A p \in Paths(t) : p # <<>> => At(t, p) \subseteq Handles(t)

Covers(t) == \A p, q \in Paths(t) :
               p # <<>> /\ p # q /\ IsPrefix(p, q) => At(t, q) \subseteq Under(t, p)

TreeOK(t) ==
  /\ t \in Trees /\ Finite(t)
  /\ Closed(t) /\ Children(t)
  /\ Listed(t) /\ NoTwice(t)
  /\ OneHandle(t) /\ Agree(t) /\ Live(t)
  /\ Covers(t)

\* Route k is assigned to topic p.
Holds(t, p, k) == p \in Paths(t) /\ p # <<>> /\ \E h \in At(t, p) : h[1] = k

\* The topics a list of routes was created for.
Shut(t) == {p \in Paths(t) \ {<<>>} : t.topic[p].listed}

\* The tree as a record of two functions.
LEMMA TreesAre ==
  ASSUME NEW t
  PROVE  t \in Trees <=>
           /\ t = [topic |-> t.topic, topicList |-> t.topicList]
           /\ t.topic \in [Paths(t) -> Topic] /\ Paths(t) \subseteq Path
           /\ t.topicList \in [Handles(t) -> Seq(Path)] /\ Handles(t) \subseteq Handle
<1>1. ASSUME t \in Trees
      PROVE  /\ t = [topic |-> t.topic, topicList |-> t.topicList]
             /\ t.topic \in [Paths(t) -> Topic] /\ Paths(t) \subseteq Path
             /\ t.topicList \in [Handles(t) -> Seq(Path)] /\ Handles(t) \subseteq Handle
  <2>1. PICK D \in SUBSET Path, H \in SUBSET Handle : t \in TreesOn(D, H)
    BY <1>1 DEF Trees
  <2> QED
    BY <2>1 DEF TreesOn, Paths, Handles
<1>2. ASSUME /\ t = [topic |-> t.topic, topicList |-> t.topicList]
             /\ t.topic \in [Paths(t) -> Topic] /\ Paths(t) \subseteq Path
             /\ t.topicList \in [Handles(t) -> Seq(Path)] /\ Handles(t) \subseteq Handle
      PROVE  t \in Trees
  <2>1. t \in TreesOn(Paths(t), Handles(t))
    BY <1>2 DEF TreesOn
  <2> QED
    BY <1>2, <2>1 DEF Trees
<1> QED
  BY <1>1, <1>2

\* A topic and the lists in it.
LEMMA TopicIs ==
  ASSUME NEW t \in Trees, NEW p \in Paths(t)
  PROVE  /\ p \in Path /\ t.topic[p] \in Topic
         /\ t.topic[p].childList \in Seq(Tokens) /\ Names(t, p) \subseteq Tokens
         /\ t.topic[p].routeList \in Seq(Handle) /\ At(t, p) \subseteq Handle
         /\ t.topic[p].routeList2 \in Seq(Handle) /\ Under(t, p) \subseteq Handle
<1>1. p \in Path /\ t.topic[p] \in Topic
  BY TreesAre
<1>2. /\ t.topic[p].childList \in Seq(Tokens)
      /\ t.topic[p].routeList \in Seq(Handle) /\ t.topic[p].routeList2 \in Seq(Handle)
  BY <1>1 DEF Topic
<1> QED
  BY <1>1, <1>2, RangeOfSeq DEF Names, At, Under

\* A tree route and the topics it is assigned to.
LEMMA TopicListIs ==
  ASSUME NEW t \in Trees, NEW h \in Handles(t)
  PROVE  h \in Handle /\ t.topicList[h] \in Seq(Path) /\ Of(t, h) \subseteq Path
<1>1. h \in Handle /\ t.topicList[h] \in Seq(Path)
  BY TreesAre
<1> QED
  BY <1>1, RangeOfSeq DEF Of

\* A sequence without elements.
LEMMA NoElements ==
  ASSUME NEW S, NEW s \in Seq(S)
  PROVE  Range(s) = {} <=> s = <<>>
<1>1. DOMAIN s = 1 .. Len(s) /\ Len(s) \in Nat
  BY LenProperties
<1>2. CASE s = <<>>
  BY <1>2 DEF Range
<1>3. CASE s # <<>>
  <2>1. 1 \in DOMAIN s
    BY <1>1, <1>3, EmptySeq
  <2> QED
    BY <1>3, <2>1 DEF Range
<1> QED
  BY <1>2, <1>3

-----------------------------------------------------------------------------
(* Removing a route.                                                       *)

\* What it leaves of a tree.
WithoutRoute(t, h, r) ==
  /\ r \in Trees
  /\ Handles(r) = Handles(t) \ {h}
  /\ \A p \in Path : p \in Paths(r) <=>
       p = <<>> \/ (p \in Paths(t) /\ \E q \in Paths(t) : IsPrefix(p, q) /\ At(t, q) \ {h} # {})
  /\ \A p \in Paths(r) :
       /\ At(r, p) = At(t, p) \ {h}
       /\ Under(t, p) \ {h} \subseteq Under(r, p)
       /\ Names(r, p) = {x \in Names(t, p) : Append(p, x) \in Paths(r)}
       /\ IsInjective(r.topic[p].routeList)
       /\ r.topic[p].listed = t.topic[p].listed /\ r.topic[p].isTable = t.topic[p].isTable
  /\ \A g \in Handles(r) : Of(r, g) = Of(t, g)

\* RemoveRoute takes the route off every list and frees the topics without routes at or below.
LEMMA RemoveRouteLeaves ==
  ASSUME NEW t, TreeOK(t), NEW route, HasTreeRoute(t, route)
  PROVE  WithoutRoute(t, getTreeRoute(t, route), RemoveRoute(t, route))
<1> DEFINE h == getTreeRoute(t, route)
           left(p) == RemoveFirst(t.topic[p].routeList, h)
           kept == {<<>>} \cup UNION {{p \in DOMAIN t.topic : IsPrefix(p, q)} :
                                      q \in {q \in DOMAIN t.topic : left(q) # <<>>}}
           Left(p) == [t.topic[p] EXCEPT
                         !.childList  = Keep(@, {name \in Range(@) : Append(p, name) \in kept}),
                         !.routeList  = left(p),
                         !.routeList2 = RemoveFirst(@, h)]
           r == [topic |-> [p \in kept |-> Left(p)],
                 topicList |-> Restrict(t.topicList, DOMAIN t.topicList \ {h})]
<1>1. RemoveRoute(t, route) = r
  BY DEF RemoveRoute
<1> HIDE DEF h
<1>2. t \in Trees /\ <<>> \in Paths(t) /\ NoTwice(t)
  BY DEF TreeOK, Closed
<1>3. ASSUME NEW p \in Paths(t)
      PROVE  /\ left(p) \in Seq(Handle) /\ Range(left(p)) = At(t, p) \ {h}
             /\ IsInjective(left(p)) /\ (left(p) # <<>> <=> At(t, p) \ {h} # {})
  <2>1. t.topic[p].routeList \in Seq(Handle) /\ IsInjective(t.topic[p].routeList)
    BY <1>2, TopicIs DEF NoTwice
  <2>2. /\ left(p) \in Seq(Handle) /\ Range(left(p)) = At(t, p) \ {h}
        /\ IsInjective(left(p))
    <3>1. /\ left(p) \in Seq(Handle) /\ Range(left(p)) \subseteq At(t, p)
          /\ At(t, p) \ {h} \subseteq Range(left(p))
          /\ IsInjective(left(p)) /\ h \notin Range(left(p))
      BY <2>1, FirstRemoved DEF At
    <3> QED
      BY <3>1
  <2> QED
    BY <2>2, NoElements
<1>4. kept \subseteq Paths(t)
  BY <1>2 DEF Paths
<1>5. ASSUME NEW p \in Path
      PROVE  p \in kept <=>
               p = <<>> \/ (p \in Paths(t) /\ \E q \in Paths(t) : IsPrefix(p, q) /\ At(t, q) \ {h} # {})
  BY <1>3 DEF Paths
<1>6. ASSUME NEW p \in kept
      PROVE  /\ Left(p) \in Topic
             /\ Range(Left(p).childList) = {x \in Names(t, p) : Append(p, x) \in kept}
             /\ Left(p).routeList = left(p)
             /\ Under(t, p) \ {h} \subseteq Range(Left(p).routeList2)
             /\ Left(p).listed = t.topic[p].listed /\ Left(p).isTable = t.topic[p].isTable
  <2> HIDE DEF kept
  <2>0. p \in Paths(t)
    BY <1>4
  <2>1. /\ t.topic[p] \in Topic /\ t.topic[p].childList \in Seq(Tokens)
        /\ t.topic[p].routeList2 \in Seq(Handle)
    BY <1>2, <2>0, TopicIs
  <2> DEFINE names == Keep(t.topic[p].childList,
                           {x \in Range(t.topic[p].childList) : Append(p, x) \in kept})
             under == RemoveFirst(t.topic[p].routeList2, h)
  <2>2. names \in Seq(Tokens) /\ Range(names) = {x \in Names(t, p) : Append(p, x) \in kept}
    BY <2>1, Kept DEF Names
  <2>3. under \in Seq(Handle) /\ Under(t, p) \ {h} \subseteq Range(under)
    BY <2>1, FirstRemoved DEF Under
  <2>4. Left(p) = [t.topic[p] EXCEPT !.childList = names, !.routeList = left(p), !.routeList2 = under]
    OBVIOUS
  <2>5. left(p) \in Seq(Handle)
    BY <1>3, <2>0
  <2> HIDE DEF names, under, left, Left
  <2>6. /\ Left(p) \in Topic /\ Left(p).childList = names /\ Left(p).routeList = left(p)
        /\ Left(p).routeList2 = under /\ Left(p).listed = t.topic[p].listed
        /\ Left(p).isTable = t.topic[p].isTable
    BY <2>1, <2>2, <2>3, <2>4, <2>5 DEF Topic
  <2> QED
    BY <2>2, <2>3, <2>6
<1> HIDE DEF kept, left, Left
<1>7. /\ r.topic = [p \in kept |-> Left(p)] /\ Paths(r) = kept
      /\ Handles(r) = Handles(t) \ {h}
      /\ \A g \in Handles(r) : r.topicList[g] = t.topicList[g]
  BY DEF Paths, Handles, Restrict
<1>8. r \in Trees
  <2>1. r.topic \in [Paths(r) -> Topic]
    BY <1>6, <1>7
  <2>2. r.topicList \in [Handles(r) -> Seq(Path)] /\ Handles(r) \subseteq Handle
    <3>1. t.topicList \in [Handles(t) -> Seq(Path)] /\ Handles(t) \subseteq Handle
      BY <1>2, TreesAre
    <3> QED
      BY <1>7, <3>1 DEF Restrict, Handles
  <2>3. Paths(r) \subseteq Path
    BY <1>2, <1>4, <1>7, TreesAre
  <2> QED
    BY <2>1, <2>2, <2>3, TreesAre
<1>9. ASSUME NEW p \in Paths(r)
      PROVE  /\ At(r, p) = At(t, p) \ {h} /\ IsInjective(r.topic[p].routeList)
             /\ Under(t, p) \ {h} \subseteq Under(r, p)
             /\ Names(r, p) = {x \in Names(t, p) : Append(p, x) \in Paths(r)}
             /\ r.topic[p].listed = t.topic[p].listed /\ r.topic[p].isTable = t.topic[p].isTable
  <2>1. p \in kept /\ p \in Paths(t) /\ r.topic[p] = Left(p)
    BY <1>4, <1>7
  <2> HIDE DEF r
  <2> QED
    BY <1>3, <1>6, <1>7, <2>1 DEF At, Under, Names
<1>10. \A g \in Handles(r) : Of(r, g) = Of(t, g)
  BY <1>7 DEF Of
<1> QED
  <2> HIDE DEF r
  <2> QED
    BY <1>1, <1>5, <1>7, <1>8, <1>9, <1>10 DEF WithoutRoute, h

\* A route is removed with its topics, and nothing else.
LEMMA RemoveRouteOK ==
  ASSUME NEW t, TreeOK(t), NEW route
  PROVE  /\ TreeOK(RemoveRoute(t, route))
         /\ \A g : g \in Handles(RemoveRoute(t, route)) <=> g \in Handles(t) /\ g[1] # route
<1>1. CASE ~HasTreeRoute(t, route)
  BY <1>1 DEF RemoveRoute, HasTreeRoute, Handles
<1>2. CASE HasTreeRoute(t, route)
  <2> DEFINE h == getTreeRoute(t, route)
             r == RemoveRoute(t, route)
  <2>1. WithoutRoute(t, h, r)
    BY <1>2, RemoveRouteLeaves
  <2>2. h \in Handles(t) /\ h[1] = route
    BY <1>2 DEF HasTreeRoute, getTreeRoute, Handles
  <2> HIDE DEF h, r
  <2>3. /\ r \in Trees /\ t \in Trees /\ Handles(r) = Handles(t) \ {h}
        /\ Finite(t) /\ Closed(t) /\ Children(t) /\ Listed(t) /\ NoTwice(t)
        /\ OneHandle(t) /\ Agree(t) /\ Live(t) /\ Covers(t)
    BY <2>1 DEF TreeOK, WithoutRoute
  <2>4. /\ Paths(r) \subseteq Paths(t) /\ Paths(t) \subseteq Path /\ <<>> \in Path
        /\ <<>> \in Paths(r)
    <3>1. Paths(t) \subseteq Path /\ Paths(r) \subseteq Path /\ <<>> \in Paths(t)
      BY <2>3, TreesAre DEF Closed
    <3> QED
      BY <2>1, <3>1 DEF WithoutRoute
  <2>5. Finite(r)
    BY <2>3, <2>4, FS_Subset DEF Finite
  <2>6. Closed(r)
    <3>1. ASSUME NEW q \in Paths(r), NEW p \in Path, IsPrefix(p, q) PROVE p \in Paths(r)
      <4>1. CASE q = <<>>
        BY <3>1, <4>1, <2>4, PrefixOrder DEF Path
      <4>2. CASE q # <<>>
        <5>1. q \in Path /\ q \in Paths(t) /\ p \in Paths(t)
          BY <2>3, <2>4, <3>1 DEF Closed
        <5>2. PICK u \in Paths(t) : IsPrefix(q, u) /\ At(t, u) \ {h} # {}
          BY <2>1, <4>2, <5>1 DEF WithoutRoute
        <5>3. IsPrefix(p, u)
          BY <2>4, <3>1, <5>1, <5>2, PrefixOrder DEF Path
        <5> QED
          BY <2>1, <5>1, <5>2, <5>3 DEF WithoutRoute
      <4> QED
        BY <4>1, <4>2
    <3> QED
      BY <2>4, <3>1 DEF Closed
  <2>7. Children(r)
    <3>1. ASSUME NEW p \in Paths(r), NEW x \in Tokens
          PROVE  x \in Names(r, p) <=> Append(p, x) \in Paths(r)
      <4>1. Names(r, p) = {y \in Names(t, p) : Append(p, y) \in Paths(r)}
        BY <2>1 DEF WithoutRoute
      <4>2. x \in Names(t, p) <=> Append(p, x) \in Paths(t)
        BY <2>3, <2>4 DEF Children
      <4> QED
        BY <2>4, <4>1, <4>2
    <3> QED
      BY <3>1 DEF Children
  <2>8. Listed(r) /\ NoTwice(r)
    <3>1. ASSUME NEW p \in Paths(r)
          PROVE  /\ At(r, p) # {} => r.topic[p].listed
                 /\ IsInjective(r.topic[p].routeList)
      <4>1. /\ At(r, p) = At(t, p) \ {h} /\ r.topic[p].listed = t.topic[p].listed
            /\ IsInjective(r.topic[p].routeList) /\ p \in Paths(t)
        BY <2>1, <2>4 DEF WithoutRoute
      <4> QED
        BY <2>3, <4>1 DEF Listed
    <3> QED
      BY <3>1 DEF Listed, NoTwice
  <2>9. OneHandle(r)
    BY <2>3 DEF OneHandle
  <2>10. Agree(r)
    <3>1. ASSUME NEW g \in Handles(r), NEW p \in Path
          PROVE  p \in Of(r, g) <=> p # <<>> /\ p \in Paths(r) /\ g \in At(r, p)
      <4>1. Of(r, g) = Of(t, g) /\ g \in Handles(t) /\ g # h
        BY <2>1, <2>3 DEF WithoutRoute
      <4>2. p \in Of(t, g) <=> p # <<>> /\ p \in Paths(t) /\ g \in At(t, p)
        BY <2>3, <4>1 DEF Agree
      <4>3. ASSUME p \in Paths(t), g \in At(t, p) PROVE p \in Paths(r)
        <5>1. IsPrefix(p, p) /\ At(t, p) \ {h} # {}
          BY <4>1, <4>3, PrefixOrder DEF Path
        <5> QED
          BY <2>1, <4>3, <5>1 DEF WithoutRoute
      <4>4. ASSUME p \in Paths(r) PROVE At(r, p) = At(t, p) \ {h}
        BY <2>1, <4>4 DEF WithoutRoute
      <4> QED
        BY <2>4, <4>1, <4>2, <4>3, <4>4
    <3> QED
      BY <3>1 DEF Agree
  <2>11. Live(r)
    <3>1. ASSUME NEW p \in Paths(r), p # <<>> PROVE At(r, p) \subseteq Handles(r)
      <4>1. At(r, p) = At(t, p) \ {h} /\ At(t, p) \subseteq Handles(t)
        BY <2>1, <2>3, <2>4, <3>1 DEF WithoutRoute, Live
      <4> QED
        BY <2>3, <4>1
    <3> QED
      BY <3>1 DEF Live
  <2>12. Covers(r)
    <3>1. ASSUME NEW p \in Paths(r), NEW q \in Paths(r), p # <<>>, p # q, IsPrefix(p, q)
          PROVE  At(r, q) \subseteq Under(r, p)
      <4>1. At(t, q) \subseteq Under(t, p)
        BY <2>3, <2>4, <3>1 DEF Covers
      <4>2. At(r, q) = At(t, q) \ {h} /\ Under(t, p) \ {h} \subseteq Under(r, p)
        BY <2>1 DEF WithoutRoute
      <4> QED
        BY <4>1, <4>2
    <3> QED
      BY <3>1 DEF Covers
  <2>13. TreeOK(r)
    BY <2>3, <2>5, <2>6, <2>7, <2>8, <2>9, <2>10, <2>11, <2>12 DEF TreeOK
  <2>14. \A g : g \in Handles(r) <=> g \in Handles(t) /\ g[1] # route
    BY <2>2, <2>3 DEF OneHandle
  <2> QED
    BY <2>13, <2>14 DEF r
<1> QED
  BY <1>1, <1>2

-----------------------------------------------------------------------------
(* Looking a topic up.                                                     *)

\* A child that is found is a topic.
LEMMA ChildFound ==
  ASSUME NEW t, t \in Trees, Children(t), NEW p \in Paths(t), NEW token
  PROVE  \/ getChildByName(t, p, token) = NoTopic
         \/ /\ getChildByName(t, p, token) \in Paths(t)
            /\ \E x \in Tokens : getChildByName(t, p, token) = Append(p, x)
<1> DEFINE children == t.topic[p].childList
           hits == {i \in DOMAIN children : Matches(children[i], token)}
<1>1. getChildByName(t, p, token) = IF hits = {} THEN NoTopic ELSE Append(p, children[Min(hits)])
  BY DEF getChildByName
<1>2. DOMAIN children = 1 .. Len(children) /\ Len(children) \in Nat /\ Names(t, p) \subseteq Tokens
  BY TopicIs, LenProperties
<1>3. ASSUME hits # {}
      PROVE  /\ children[Min(hits)] \in Tokens
             /\ Append(p, children[Min(hits)]) \in Paths(t)
  <2>1. hits \subseteq Nat
    BY <1>2
  <2>2. Min(hits) \in hits
    <3> HIDE DEF hits
    <3> QED
      BY <1>3, <2>1, MinIn
  <2>3. children[Min(hits)] \in Names(t, p)
    BY <2>2 DEF Names, Range
  <2> QED
    BY <1>2, <2>3 DEF Children
<1> HIDE DEF hits, children
<1> QED
  BY <1>1, <1>3

\* The recursion of Walk.
Walks(f, t, e) == f = [i \in 0 .. Len(e) |->
                         IF i = 0 THEN <<>>
                         ELSE IF f[i-1] = NoTopic THEN NoTopic
                         ELSE getChildByName(t, f[i-1], e[i])]

\* The function that Walk chooses exists.
LEMMA WalkExists ==
  ASSUME NEW t, t \in Trees, Closed(t), Children(t), NEW e, Len(e) \in Nat
  PROVE  \E f : Walks(f, t, e)
<1> PICK n \in Nat : n = Len(e)
  OBVIOUS
<1> DEFINE S == Paths(t) \cup {NoTopic}
           step == [i \in 1 .. n |-> [p \in S |-> IF p = NoTopic THEN NoTopic
                                                 ELSE getChildByName(t, p, e[i])]]
<1>1. step \in Steps(n, S)
  <2>1. ASSUME NEW i \in 1 .. n, NEW p \in S
        PROVE  (IF p = NoTopic THEN NoTopic ELSE getChildByName(t, p, e[i])) \in S
    BY ChildFound
  <2> HIDE DEF S
  <2> QED
    BY <2>1 DEF Steps
<1>2. <<>> \in S
  BY DEF Closed
<1>3. PICK f : Follows(f, n, S, <<>>, step)
  <2> HIDE DEF step, S
  <2> QED
    BY <1>1, <1>2, StepByStep
<1>4. ASSUME NEW i \in 1 .. n
      PROVE  f[i] = IF f[i-1] = NoTopic THEN NoTopic ELSE getChildByName(t, f[i-1], e[i])
  <2>1. i - 1 \in 0 .. n
    OBVIOUS
  <2> HIDE DEF S
  <2>2. f[i - 1] \in S
    BY <1>3, <2>1 DEF Follows
  <2>3. f[i] = step[i][f[i - 1]]
    BY <1>3 DEF Follows
  <2> QED
    BY <2>2, <2>3
<1>5. f = [i \in 0 .. n |->
             IF i = 0 THEN <<>>
             ELSE IF f[i-1] = NoTopic THEN NoTopic ELSE getChildByName(t, f[i-1], e[i])]
  <2> HIDE DEF step, S
  <2>1. \A i \in 0 .. n : i = 0 \/ i \in 1 .. n
    OBVIOUS
  <2> QED
    BY <1>3, <1>4, <2>1 DEF Follows
<1> QED
  BY <1>5 DEF Walks

\* The topics a walk passes.
WalkOf(at, t, e) ==
  /\ at[0] = <<>>
  /\ \A i \in 1 .. Len(e) :
       at[i] = IF at[i-1] = NoTopic THEN NoTopic ELSE getChildByName(t, at[i-1], e[i])
  /\ Walk(t, e) = at[Len(e)]

\* The equations of Walk.
LEMMA WalkSteps ==
  ASSUME NEW t, t \in Trees, Closed(t), Children(t), NEW e, Len(e) \in Nat
  PROVE  \E at : WalkOf(at, t, e)
<1> DEFINE at[i \in 0..Len(e)] ==
             IF i = 0 THEN <<>>
             ELSE IF at[i-1] = NoTopic THEN NoTopic
             ELSE getChildByName(t, at[i-1], e[i])
<1>1. Walk(t, e) = at[Len(e)]
  BY DEF Walk
<1>2. Walks(at, t, e)
  BY WalkExists DEF Walks
<1> HIDE DEF at
<1>4. 0 \in 0 .. Len(e) /\ \A i \in 1 .. Len(e) : i \in 0 .. Len(e) /\ i # 0
  OBVIOUS
<1>5. at[0] = <<>>
  BY <1>2, <1>4 DEF Walks
<1>6. ASSUME NEW i \in 1 .. Len(e)
      PROVE  at[i] = IF at[i-1] = NoTopic THEN NoTopic ELSE getChildByName(t, at[i-1], e[i])
  BY <1>2, <1>4 DEF Walks
<1> QED
  BY <1>1, <1>5, <1>6 DEF WalkOf

\* A walk ends at a topic, or nowhere.
LEMMA WalkFinds ==
  ASSUME NEW t, t \in Trees, Closed(t), Children(t), NEW e \in Path
  PROVE  /\ Walk(t, e) = NoTopic \/ Walk(t, e) \in Paths(t)
         /\ e # <<>> => Walk(t, e) # <<>>
<1> PICK at : WalkOf(at, t, e)
  BY WalkSteps, LenProperties DEF Path
<1>1. Len(e) \in Nat /\ (e # <<>> => Len(e) # 0) /\ <<>> \in Path /\ NoTopic # <<>>
  BY LenProperties, EmptySeq, ExpressionAssumption DEF Path
<1>2. /\ at[0] = <<>> /\ Walk(t, e) = at[Len(e)]
      /\ \A i \in 1 .. Len(e) :
           at[i] = IF at[i-1] = NoTopic THEN NoTopic ELSE getChildByName(t, at[i-1], e[i])
  BY DEF WalkOf
<1> DEFINE P == {i \in 0 .. Len(e) : /\ at[i] = NoTopic \/ at[i] \in Paths(t)
                                     /\ i # 0 => at[i] # <<>>}
<1>3. 0 \in P
  BY <1>1, <1>2 DEF Closed
<1>4. ASSUME NEW i \in 1 .. Len(e), i - 1 \in P PROVE i \in P
  <2>1. i \in 0 .. Len(e) /\ (at[i-1] = NoTopic \/ at[i-1] \in Paths(t))
    BY <1>1, <1>4
  <2>2. CASE at[i-1] = NoTopic
    BY <1>1, <1>2, <2>1, <2>2
  <2>3. CASE at[i-1] # NoTopic
    <3>1. at[i] = getChildByName(t, at[i-1], e[i]) /\ at[i-1] \in Paths(t)
      BY <1>2, <2>1, <2>3
    <3>2. \/ at[i] = NoTopic
          \/ at[i] \in Paths(t) /\ \E x \in Tokens : at[i] = Append(at[i-1], x)
      BY <3>1, ChildFound
    <3>3. at[i-1] \in Path
      BY <3>1, TopicIs
    <3>4. at[i] # <<>>
      BY <1>1, <3>2, <3>3, Appended DEF Path
    <3> QED
      BY <2>1, <3>2, <3>4
  <2> QED
    BY <2>2, <2>3
<1>5. Len(e) \in P
  <2> HIDE DEF P
  <2>1. \A i \in 0 .. Len(e) : i \in P
    BY <1>1, <1>3, <1>4, UpTo
  <2> QED
    BY <1>1, <2>1
<1> QED
  BY <1>1, <1>2, <1>5

-----------------------------------------------------------------------------
(* Removing a topic.                                                       *)

\* What it leaves of a tree.
WithoutTopic(t, topic, r) ==
  /\ r \in Trees
  /\ Paths(r) = {p \in Paths(t) : ~IsPrefix(topic, p)}
  /\ Handles(r) \subseteq Handles(t)
  /\ \A h \in Handles(t) : h \in Handles(r) \/ Of(t, h) \cap Paths(r) = {}
  /\ \A p \in Paths(r) :
       /\ Names(r, p) = IF p = Front(topic) THEN Names(t, p) \ {Last(topic)} ELSE Names(t, p)
       /\ r.topic[p].routeList = t.topic[p].routeList
       /\ r.topic[p].routeList2 = t.topic[p].routeList2
       /\ r.topic[p].listed = t.topic[p].listed /\ r.topic[p].isTable = t.topic[p].isTable
  /\ \A h \in Handles(r) : Of(r, h) = Of(t, h) \cap Paths(r)

\* FreeTopic takes the topics away and lets the tree routes forget them.
LEMMA FreeTopicLeaves ==
  ASSUME NEW t, TreeOK(t), NEW topic \in Paths(t), topic # <<>>
  PROVE  WithoutTopic(t, topic, FreeTopic(t, topic))
<1> DEFINE gone == {p \in DOMAIN t.topic : IsPrefix(topic, p)}
           hit == UNION {Range(t.topic[p].routeList) : p \in gone}
           left(h) == Keep(t.topicList[h], DOMAIN t.topic \ gone)
           freed == {h \in hit \cap DOMAIN t.topicList : left(h) = <<>>}
           Left(p) == IF p = Front(topic)
                      THEN [t.topic[p] EXCEPT !.childList = Keep(@, Range(@) \ {Last(topic)})]
                      ELSE t.topic[p]
           r == [topic |-> [p \in DOMAIN t.topic \ gone |-> Left(p)],
                 topicList |-> [h \in DOMAIN t.topicList \ freed |->
                                  IF h \in hit THEN left(h) ELSE t.topicList[h]]]
<1>1. FreeTopic(t, topic) = r
  BY DEF FreeTopic
<1>2. t \in Trees /\ Agree(t) /\ topic \in Path
  BY TreesAre DEF TreeOK
<1>3. ASSUME NEW h \in Handles(t)
      PROVE  /\ left(h) \in Seq(Path) /\ Range(left(h)) = Of(t, h) \ gone
             /\ (left(h) = <<>> <=> Of(t, h) \ gone = {})
             /\ h \notin hit => Of(t, h) \cap gone = {}
             /\ Of(t, h) \subseteq Paths(t)
  <2>1. t.topicList[h] \in Seq(Path) /\ Of(t, h) \subseteq Path
    BY <1>2, TopicListIs
  <2>2. Of(t, h) \subseteq Paths(t)
    BY <1>2, <2>1 DEF Agree
  <2>3. left(h) \in Seq(Path) /\ Range(left(h)) = Of(t, h) \cap (DOMAIN t.topic \ gone)
    BY <2>1, Kept DEF Of
  <2>4. Range(left(h)) = Of(t, h) \ gone
    BY <2>2, <2>3 DEF Paths
  <2>5. ASSUME NEW p \in Of(t, h), p \in gone PROVE h \in hit
    <3>1. h \in At(t, p)
      BY <1>2, <2>1, <2>5 DEF Agree
    <3> QED
      BY <2>5, <3>1 DEF At
  <2> HIDE DEF hit, gone, left
  <2> QED
    BY <2>2, <2>3, <2>4, <2>5, NoElements
<1>4. ASSUME NEW p \in Paths(t)
      PROVE  /\ Left(p) \in Topic
             /\ Range(Left(p).childList) =
                  IF p = Front(topic) THEN Names(t, p) \ {Last(topic)} ELSE Names(t, p)
             /\ Left(p).routeList = t.topic[p].routeList
             /\ Left(p).routeList2 = t.topic[p].routeList2
             /\ Left(p).listed = t.topic[p].listed /\ Left(p).isTable = t.topic[p].isTable
  <2>1. t.topic[p] \in Topic /\ t.topic[p].childList \in Seq(Tokens)
    BY <1>2, TopicIs
  <2>2. CASE p # Front(topic)
    BY <2>1, <2>2 DEF Names
  <2>3. CASE p = Front(topic)
    <3> DEFINE names == Keep(t.topic[p].childList, Range(t.topic[p].childList) \ {Last(topic)})
    <3>1. names \in Seq(Tokens) /\ Range(names) = Names(t, p) \ {Last(topic)}
      BY <2>1, Kept DEF Names
    <3>2. Left(p) = [t.topic[p] EXCEPT !.childList = names]
      BY <2>3
    <3> HIDE DEF names, Left
    <3> QED
      BY <2>1, <2>3, <3>1, <3>2 DEF Topic
  <2> QED
    BY <2>2, <2>3
<1>5. Paths(t) \ gone = {p \in Paths(t) : ~IsPrefix(topic, p)}
  BY DEF Paths
<1>6. freed = {h \in Handles(t) : h \in hit /\ left(h) = <<>>}
  BY DEF Handles
<1> HIDE DEF Left, gone, hit, left, freed
<1>7. /\ r.topic = [p \in Paths(t) \ gone |-> Left(p)] /\ Paths(r) = Paths(t) \ gone
      /\ Handles(r) = Handles(t) \ freed
      /\ r.topicList = [h \in Handles(r) |-> IF h \in hit THEN left(h) ELSE t.topicList[h]]
  BY DEF Paths, Handles
<1>8. r \in Trees
  <2>1. Paths(t) \subseteq Path /\ Handles(t) \subseteq Handle
        /\ t.topicList \in [Handles(t) -> Seq(Path)]
    BY <1>2, TreesAre
  <2>2. r.topic \in [Paths(r) -> Topic] /\ Paths(r) \subseteq Path
    BY <1>4, <1>7, <2>1
  <2>3. r.topicList \in [Handles(r) -> Seq(Path)] /\ Handles(r) \subseteq Handle
    BY <1>3, <1>7, <2>1
  <2> QED
    BY <2>2, <2>3, TreesAre
<1> HIDE DEF r
<1>9. \A h \in Handles(t) : h \in Handles(r) \/ Of(t, h) \cap Paths(r) = {}
  BY <1>3, <1>6, <1>7
<1>10. ASSUME NEW p \in Paths(r)
       PROVE  /\ Names(r, p) = IF p = Front(topic) THEN Names(t, p) \ {Last(topic)} ELSE Names(t, p)
              /\ r.topic[p].routeList = t.topic[p].routeList
              /\ r.topic[p].routeList2 = t.topic[p].routeList2
              /\ r.topic[p].listed = t.topic[p].listed /\ r.topic[p].isTable = t.topic[p].isTable
  <2>1. p \in Paths(t) /\ r.topic[p] = Left(p)
    BY <1>7
  <2> QED
    BY <1>4, <2>1 DEF Names
<1>11. ASSUME NEW h \in Handles(r) PROVE Of(r, h) = Of(t, h) \cap Paths(r)
  <2>1. h \in Handles(t) /\ r.topicList[h] = IF h \in hit THEN left(h) ELSE t.topicList[h]
    BY <1>7
  <2>2. Of(t, h) \ gone = Of(t, h) \cap Paths(r)
    BY <1>3, <1>7, <2>1
  <2>3. CASE h \in hit
    BY <1>3, <2>1, <2>2, <2>3 DEF Of
  <2>4. CASE h \notin hit
    <3>1. Of(r, h) = Of(t, h) /\ Of(t, h) \cap gone = {}
      BY <1>3, <2>1, <2>4 DEF Of
    <3> QED
      BY <2>2, <3>1
  <2> QED
    BY <2>3, <2>4
<1> QED
  BY <1>1, <1>5, <1>7, <1>8, <1>9, <1>10, <1>11 DEF WithoutTopic

\* What is left is a consistent tree.
LEMMA FreeTopicOK ==
  ASSUME NEW t, TreeOK(t), NEW topic \in Paths(t), topic # <<>>
  PROVE  TreeOK(FreeTopic(t, topic)) /\ Handles(FreeTopic(t, topic)) \subseteq Handles(t)
<1> DEFINE r == FreeTopic(t, topic)
<1>1. WithoutTopic(t, topic, r)
  BY FreeTopicLeaves
<1> HIDE DEF r
<1>2. /\ r \in Trees /\ t \in Trees /\ Handles(r) \subseteq Handles(t)
      /\ Paths(r) = {p \in Paths(t) : ~IsPrefix(topic, p)}
      /\ Finite(t) /\ Closed(t) /\ Children(t) /\ Listed(t) /\ NoTwice(t)
      /\ OneHandle(t) /\ Agree(t) /\ Live(t) /\ Covers(t)
  BY <1>1 DEF TreeOK, WithoutTopic
<1>3. Paths(r) \subseteq Paths(t) /\ Paths(t) \subseteq Path /\ topic \in Path /\ <<>> \in Path
  BY <1>2, TreesAre DEF Closed
<1>4. \A p \in Paths(r) : At(r, p) = At(t, p) /\ Under(r, p) = Under(t, p)
  BY <1>1 DEF WithoutTopic, At, Under
<1>5. Finite(r)
  BY <1>2, <1>3, FS_Subset DEF Finite
<1>6. Closed(r)
  <2>1. ~IsPrefix(topic, <<>>)
    BY <1>3, PrefixOrder DEF Path
  <2>2. ASSUME NEW q \in Paths(r), NEW p \in Path, IsPrefix(p, q) PROVE p \in Paths(r)
    <3>1. p \in Paths(t) /\ q \in Path /\ ~IsPrefix(topic, q)
      BY <1>2, <1>3, <2>2 DEF Closed
    <3>2. ~IsPrefix(topic, p)
      BY <1>3, <2>2, <3>1, PrefixOrder DEF Path
    <3> QED
      BY <1>2, <3>1, <3>2
  <2> QED
    BY <1>2, <2>1, <2>2 DEF Closed
<1>7. Children(r)
  <2>1. ASSUME NEW p \in Paths(r), NEW x \in Tokens
        PROVE  x \in Names(r, p) <=> Append(p, x) \in Paths(r)
    <3>1. Names(r, p) = IF p = Front(topic) THEN Names(t, p) \ {Last(topic)} ELSE Names(t, p)
      BY <1>1 DEF WithoutTopic
    <3>2. x \in Names(t, p) <=> Append(p, x) \in Paths(t)
      BY <1>2, <1>3 DEF Children
    <3>3. p \in Path /\ ~IsPrefix(topic, p)
      BY <1>2, <1>3
    <3>4. IsPrefix(topic, Append(p, x)) <=> topic = Append(p, x)
      BY <1>3, <3>3, PrefixOfAppended DEF Path
    <3>5. topic = Append(p, x) <=> p = Front(topic) /\ x = Last(topic)
      <4>1. topic = Append(Front(topic), Last(topic))
        BY <1>3, FrontAndLast DEF Path
      <4>2. Front(Append(p, x)) = p /\ Last(Append(p, x)) = x
        BY <3>3, Appended DEF Path
      <4> QED
        BY <4>1, <4>2
    <3> QED
      BY <1>2, <3>1, <3>2, <3>4, <3>5
  <2> QED
    BY <2>1 DEF Children
<1>8. Listed(r) /\ NoTwice(r)
  BY <1>1, <1>2, <1>3, <1>4 DEF WithoutTopic, Listed, NoTwice
<1>9. OneHandle(r)
  BY <1>2 DEF OneHandle
<1>10. Agree(r)
  <2>1. ASSUME NEW h \in Handles(r), NEW p \in Path
        PROVE  p \in Of(r, h) <=> p # <<>> /\ p \in Paths(r) /\ h \in At(r, p)
    <3>1. Of(r, h) = Of(t, h) \cap Paths(r) /\ h \in Handles(t)
      BY <1>1, <1>2 DEF WithoutTopic
    <3>2. p \in Of(t, h) <=> p # <<>> /\ p \in Paths(t) /\ h \in At(t, p)
      BY <1>2, <3>1 DEF Agree
    <3> QED
      BY <1>3, <1>4, <3>1, <3>2
  <2> QED
    BY <2>1 DEF Agree
<1>11. Live(r)
  <2>1. ASSUME NEW p \in Paths(r), p # <<>>, NEW h \in At(r, p) PROVE h \in Handles(r)
    <3>1. h \in At(t, p) /\ h \in Handles(t) /\ p \in Path
      BY <1>2, <1>3, <1>4, <2>1 DEF Live
    <3>2. p \in Of(t, h)
      BY <1>2, <1>3, <2>1, <3>1 DEF Agree
    <3> QED
      BY <1>1, <3>1, <3>2 DEF WithoutTopic
  <2> QED
    BY <2>1 DEF Live
<1>12. Covers(r)
  BY <1>2, <1>3, <1>4 DEF Covers
<1> QED
  BY <1>2, <1>5, <1>6, <1>7, <1>8, <1>9, <1>10, <1>11, <1>12 DEF TreeOK, r

\* A topic is removed with everything below it, and no tree route comes of it.
LEMMA RemoveTopicOK ==
  ASSUME NEW t, TreeOK(t), NEW e \in Path
  PROVE  TreeOK(RemoveTopic(t, e)) /\ Handles(RemoveTopic(t, e)) \subseteq Handles(t)
<1> DEFINE parent == Walk(t, Front(e))
           topic == IF parent = NoTopic THEN NoTopic
                    ELSE getChildByName(t, parent, Last(e))
<1>1. RemoveTopic(t, e) = IF e = <<>> THEN t
                          ELSE IF topic = NoTopic THEN t
                          ELSE IF Last(topic) # Last(e) THEN t
                          ELSE FreeTopic(t, topic)
  BY DEF RemoveTopic
<1>2. t \in Trees /\ Closed(t) /\ Children(t)
  BY DEF TreeOK
<1>3. ASSUME e # <<>>, topic # NoTopic
      PROVE  topic \in Paths(t) /\ topic # <<>>
  <2>1. Front(e) \in Path
    BY <1>3, FrontAndLast DEF Path
  <2>2. parent \in Paths(t) /\ topic = getChildByName(t, parent, Last(e))
    BY <1>2, <1>3, <2>1, WalkFinds
  <2> HIDE DEF parent
  <2>3. topic \in Paths(t) /\ \E x \in Tokens : topic = Append(parent, x)
    <3>1. getChildByName(t, parent, Last(e)) # NoTopic
      BY <1>3, <2>2
    <3> QED
      BY <1>2, <2>2, <3>1, ChildFound
  <2>4. parent \in Path
    BY <1>2, <2>2, TreesAre
  <2> QED
    BY <2>3, <2>4, Appended DEF Path
<1> HIDE DEF topic
<1> QED
  BY <1>1, <1>3, FreeTopicOK

-----------------------------------------------------------------------------
(* Allocating a tree route.                                                *)

\* A list has finitely many elements.
LEMMA RangeFinite ==
  ASSUME NEW S, NEW s \in Seq(S)
  PROVE  IsFiniteSet(Range(s))
<1>1. Len(s) \in Nat /\ DOMAIN s = 1 .. Len(s)
  BY LenProperties
<1>2. IsFiniteSet(1 .. Len(s))
  BY <1>1, FS_Interval
<1>3. s \in [1 .. Len(s) -> S]
  BY LenProperties
<1>4. s \in Surjection(1 .. Len(s), Range(s))
  BY <1>1, <1>3 DEF Surjection, Range
<1> QED
  BY <1>2, <1>4, FS_Surjection

\* The tree refers to finitely many tree routes, so there is an address for another.
LEMMA ReferencedFinite ==
  ASSUME NEW t, t \in Trees, Finite(t)
  PROVE  IsFiniteSet(Referenced(t))
<1> DEFINE lists == {At(t, p) \cup Under(t, p) : p \in Paths(t)}
           f == [p \in Paths(t) |-> At(t, p) \cup Under(t, p)]
<1>1. \A p \in Paths(t) : IsFiniteSet(At(t, p) \cup Under(t, p))
  <2> TAKE p \in Paths(t)
  <2>1. IsFiniteSet(At(t, p)) /\ IsFiniteSet(Under(t, p))
    BY TopicIs, RangeFinite DEF At, Under
  <2> QED
    BY <2>1, FS_Union
<1>2. f \in Surjection(Paths(t), lists)
  BY DEF Surjection
<1>3. IsFiniteSet(lists)
  <2> HIDE DEF lists, f
  <2> QED
    BY <1>2, FS_Surjection DEF Finite
<1>4. IsFiniteSet(UNION lists)
  <2>1. \A T \in lists : IsFiniteSet(T)
    BY <1>1
  <2> HIDE DEF lists
  <2> QED
    BY <1>3, <2>1, FS_UNION
<1>5. Referenced(t) = Handles(t) \cup UNION lists
  BY DEF Referenced, Handles, Paths, At, Under
<1> HIDE DEF lists
<1> QED
  BY <1>4, <1>5, FS_Union DEF Finite

\* The address is one that nothing refers to.
LEMMA FreshTreeRoute ==
  ASSUME NEW t, t \in Trees, Finite(t), NEW route \in Route
  PROVE  /\ NewTreeRoute(t, route) \in Handle
         /\ NewTreeRoute(t, route)[1] = route
         /\ NewTreeRoute(t, route) \notin Referenced(t)
<1> DEFINE used == Referenced(t)
           free == {n \in 1 .. Cardinality(used) + 1 : <<route, n>> \notin used}
<1>1. IsFiniteSet(used) /\ Cardinality(used) \in Nat
  BY ReferencedFinite, FS_CardinalityType
<1>2. ASSUME free = {} PROVE FALSE
  <2> PICK m \in Nat : m = Cardinality(used) + 1
    BY <1>1
  <2> DEFINE f == [n \in 1 .. m |-> <<route, n>>]
  <2>1. \A n \in 1 .. m : <<route, n>> \in used
    BY <1>2
  <2>2. f \in [1 .. m -> used]
    BY <2>1
  <2>3. f \in Injection(1 .. m, used)
    BY <2>2 DEF Injection, IsInjective
  <2> HIDE DEF f, used
  <2>4. Cardinality(1 .. m) <= Cardinality(used)
    BY <1>1, <2>3, FS_Injection
  <2>5. Cardinality(1 .. m) = m
    BY FS_Interval
  <2> QED
    BY <1>1, <2>4, <2>5
<1>3. free \subseteq Nat /\ NewTreeRoute(t, route) = <<route, Min(free)>>
  BY <1>1 DEF NewTreeRoute
<1>4. Min(free) \in free
  <2> HIDE DEF free
  <2> QED
    BY <1>2, <1>3, MinIn
<1> HIDE DEF used
<1>5. Min(free) \in Nat \ {0} /\ <<route, Min(free)>> \notin used
  BY <1>1, <1>4
<1> HIDE DEF free
<1> QED
  BY <1>3, <1>5 DEF Handle, used

\* The tree with one more tree route, assigned to nothing yet.
Allocated(t, h) ==
  [t EXCEPT !.topicList = [x \in DOMAIN @ \cup {h} |-> IF x = h THEN <<>> ELSE @[x]]]

\* An allocated tree route changes nothing else.
LEMMA AllocatedOK ==
  ASSUME NEW t, TreeOK(t), NEW h \in Handle, h \notin Referenced(t),
         \A g \in Handles(t) : g[1] # h[1]
  PROVE  /\ TreeOK(Allocated(t, h))
         /\ Handles(Allocated(t, h)) = Handles(t) \cup {h}
         /\ Paths(Allocated(t, h)) = Paths(t)
         /\ \A p \in Paths(t) : Allocated(t, h).topic[p] = t.topic[p]
<1> DEFINE r == Allocated(t, h)
<1>1. /\ t \in Trees /\ Finite(t) /\ Closed(t) /\ Children(t) /\ Listed(t) /\ NoTwice(t)
      /\ OneHandle(t) /\ Agree(t) /\ Live(t) /\ Covers(t)
  BY DEF TreeOK
<1>2. /\ t = [topic |-> t.topic, topicList |-> t.topicList]
      /\ t.topic \in [Paths(t) -> Topic] /\ Paths(t) \subseteq Path
      /\ t.topicList \in [Handles(t) -> Seq(Path)] /\ Handles(t) \subseteq Handle
  BY <1>1, TreesAre
<1> DEFINE list == [x \in Handles(t) \cup {h} |-> IF x = h THEN <<>> ELSE t.topicList[x]]
<1>3. r = [topic |-> t.topic, topicList |-> list]
  BY <1>2 DEF Allocated, Handles
<1>4. /\ r.topic = t.topic /\ Paths(r) = Paths(t) /\ Handles(r) = Handles(t) \cup {h}
      /\ r.topicList = list
  BY <1>3 DEF Paths, Handles
<1>5. list \in [Handles(t) \cup {h} -> Seq(Path)]
  BY <1>2, EmptySeq
<1>6. r \in Trees
  <2> HIDE DEF list
  <2>1. r = [topic |-> r.topic, topicList |-> r.topicList]
    BY <1>3, <1>4
  <2> HIDE DEF r
  <2> QED
    BY <1>2, <1>4, <1>5, <2>1, TreesAre
<1>7. /\ h \notin Handles(t)
      /\ \A p \in Paths(t) : h \notin At(t, p)
  BY DEF Referenced, Handles, Paths, At
<1>8. Of(r, h) = {} /\ \A g \in Handles(t) : Of(r, g) = Of(t, g)
  <2>1. \A g \in Handles(t) : list[g] = t.topicList[g]
    BY <1>7
  <2>2. list[h] = <<>>
    OBVIOUS
  <2> HIDE DEF list, r
  <2> QED
    BY <1>4, <2>1, <2>2 DEF Of, Range
<1> HIDE DEF r, list
<1>9. \A p \in Paths(t) : /\ At(r, p) = At(t, p) /\ Under(r, p) = Under(t, p)
                          /\ Names(r, p) = Names(t, p)
  BY <1>4 DEF At, Under, Names
<1>10. Finite(r)
  BY <1>1, <1>4, FS_AddElement DEF Finite
<1>11. Closed(r) /\ Children(r) /\ Listed(r) /\ NoTwice(r) /\ Covers(r)
  <2>1. Closed(r) /\ Children(r)
    BY <1>1, <1>4, <1>9 DEF Closed, Children
  <2>2. Listed(r) /\ NoTwice(r)
    BY <1>1, <1>4, <1>9 DEF Listed, NoTwice
  <2>3. Covers(r)
    BY <1>1, <1>4, <1>9 DEF Covers
  <2> QED
    BY <2>1, <2>2, <2>3
<1>12. OneHandle(r)
  BY <1>1, <1>4 DEF OneHandle
<1>13. Live(r)
  BY <1>1, <1>4, <1>9 DEF Live
<1>14. Agree(r)
  BY <1>1, <1>4, <1>7, <1>8, <1>9 DEF Agree
<1> QED
  BY <1>4, <1>6, <1>10, <1>11, <1>12, <1>13, <1>14 DEF TreeOK, r

-----------------------------------------------------------------------------
(* The branch of an insertion.                                             *)

\* Each topic of a branch is a child of the one before.
Above(b, i) == IF i = 1 THEN <<>> ELSE b[i - 1]
Grows(b, n) == /\ b \in [1 .. n -> Path]
               /\ \A i \in 1 .. n : \E x \in Tokens : b[i] = Append(Above(b, i), x)

\* The recursion of Branch.
Next1(t, p, token) ==
  LET child == IF p \in DOMAIN t.topic THEN getChildByName(t, p, token) ELSE NoTopic
  IN  IF child = NoTopic THEN Append(p, token) ELSE child

Branches(f, t, e) ==
  f = [i \in 0 .. Len(e) |->
         IF i = 0 THEN <<>>
         ELSE LET child == IF f[i-1] \in DOMAIN t.topic
                           THEN getChildByName(t, f[i-1], e[i]) ELSE NoTopic
              IN  IF child = NoTopic THEN Append(f[i-1], e[i]) ELSE child]

\* The walk of an insertion goes down one level at a time.
LEMMA StepDown ==
  ASSUME NEW t, t \in Trees, Children(t), NEW p \in Path, NEW token \in Tokens
  PROVE  Next1(t, p, token) \in Path /\ \E x \in Tokens : Next1(t, p, token) = Append(p, x)
<1>1. Append(p, token) \in Path
  BY Appended DEF Path
<1>2. CASE p \notin Paths(t)
  BY <1>1, <1>2 DEF Next1, Paths
<1>3. CASE p \in Paths(t)
  <2>1. CASE getChildByName(t, p, token) = NoTopic
    BY <1>1, <1>3, <2>1 DEF Next1, Paths
  <2>2. CASE getChildByName(t, p, token) # NoTopic
    <3>1. /\ getChildByName(t, p, token) \in Paths(t)
          /\ \E x \in Tokens : getChildByName(t, p, token) = Append(p, x)
      BY <1>3, <2>2, ChildFound
    <3>2. Next1(t, p, token) = getChildByName(t, p, token)
      BY <1>3, <2>2 DEF Next1, Paths
    <3> QED
      BY <3>1, <3>2, TreesAre
  <2> QED
    BY <2>1, <2>2
<1> QED
  BY <1>2, <1>3

\* The function that Branch chooses exists.
LEMMA BranchExists ==
  ASSUME NEW t, t \in Trees, Children(t), NEW e \in Path
  PROVE  \E f : Branches(f, t, e)
<1> PICK n \in Nat : n = Len(e)
  BY LenProperties DEF Path
<1>0. \A i \in 1 .. n : e[i] \in Tokens
  BY ElementOfSeq DEF Path
<1> DEFINE step == [i \in 1 .. n |-> [p \in Path |-> Next1(t, p, e[i])]]
<1>1. step \in Steps(n, Path)
  BY <1>0, StepDown DEF Steps
<1>2. <<>> \in Path
  BY EmptySeq DEF Path
<1>3. PICK f : Follows(f, n, Path, <<>>, step)
  <2> HIDE DEF step
  <2> QED
    BY <1>1, <1>2, StepByStep
<1>4. ASSUME NEW i \in 1 .. n PROVE f[i] = Next1(t, f[i - 1], e[i])
  <2>1. i - 1 \in 0 .. n
    OBVIOUS
  <2>2. f[i - 1] \in Path
    BY <1>3, <2>1 DEF Follows
  <2>3. f[i] = step[i][f[i - 1]]
    BY <1>3 DEF Follows
  <2> QED
    BY <2>2, <2>3
<1>5. f = [i \in 0 .. n |-> IF i = 0 THEN <<>> ELSE Next1(t, f[i - 1], e[i])]
  <2> HIDE DEF step
  <2>1. \A i \in 0 .. n : i = 0 \/ i \in 1 .. n
    OBVIOUS
  <2> QED
    BY <1>3, <1>4, <2>1 DEF Follows
<1> QED
  BY <1>5 DEF Branches, Next1

\* The topics a branch passes.
BranchOf(at, t, e) ==
  /\ at[0] = <<>>
  /\ \A i \in 1 .. Len(e) : at[i] = Next1(t, at[i - 1], e[i])
  /\ \A i \in 0 .. Len(e) : at[i] \in Path
  /\ Branch(t, e) = [i \in 1 .. Len(e) |-> at[i]]

\* The equations of Branch.
LEMMA BranchSteps ==
  ASSUME NEW t, t \in Trees, Children(t), NEW e \in Path
  PROVE  \E at : BranchOf(at, t, e)
<1> DEFINE at[i \in 0..Len(e)] ==
             IF i = 0 THEN <<>>
             ELSE LET child == IF at[i-1] \in DOMAIN t.topic
                               THEN getChildByName(t, at[i-1], e[i]) ELSE NoTopic
                  IN  IF child = NoTopic THEN Append(at[i-1], e[i]) ELSE child
           P == {i \in 0 .. Len(e) : at[i] \in Path}
<1>1. Branch(t, e) = [i \in 1 .. Len(e) |-> at[i]]
  BY DEF Branch
<1>2. Branches(at, t, e)
  BY BranchExists DEF Branches
<1> HIDE DEF at
<1>3. Len(e) \in Nat /\ <<>> \in Path /\ \A i \in 1 .. Len(e) : e[i] \in Tokens
  BY LenProperties, EmptySeq, ElementOfSeq DEF Path
<1>4. at[0] = <<>> /\ \A i \in 1 .. Len(e) : at[i] = Next1(t, at[i - 1], e[i])
  <2>1. at = [i \in 0 .. Len(e) |-> IF i = 0 THEN <<>> ELSE Next1(t, at[i - 1], e[i])]
    BY <1>2 DEF Branches, Next1
  <2>2. 0 \in 0 .. Len(e) /\ \A i \in 1 .. Len(e) : i \in 0 .. Len(e) /\ i # 0
    BY <1>3
  <2>3. at[0] = <<>>
    BY <2>1, <2>2
  <2>4. \A i \in 1 .. Len(e) : at[i] = Next1(t, at[i - 1], e[i])
    BY <2>1, <2>2
  <2> QED
    BY <2>3, <2>4
<1>5. 0 \in P
  BY <1>3, <1>4
<1>6. ASSUME NEW i \in 1 .. Len(e), i - 1 \in P PROVE i \in P
  <2>1. at[i - 1] \in Path /\ i \in 0 .. Len(e)
    BY <1>3, <1>6
  <2> QED
    BY <1>3, <1>4, <2>1, StepDown
<1>7. \A i \in 0 .. Len(e) : i \in P
  <2> HIDE DEF P
  <2> QED
    BY <1>3, <1>5, <1>6, UpTo
<1>8. \A i \in 0 .. Len(e) : at[i] \in Path
  BY <1>7
<1> QED
  BY <1>1, <1>4, <1>8 DEF BranchOf

\* The topics of the branch follow each other downwards.
LEMMA BranchGrows ==
  ASSUME NEW t, t \in Trees, Children(t), NEW e \in Path
  PROVE  Grows(Branch(t, e), Len(e))
<1> PICK at : BranchOf(at, t, e)
  BY BranchSteps
<1> DEFINE b == [i \in 1 .. Len(e) |-> at[i]]
<1>1. /\ Branch(t, e) = b /\ at[0] = <<>> /\ \A i \in 0 .. Len(e) : at[i] \in Path
      /\ \A i \in 1 .. Len(e) : at[i] = Next1(t, at[i - 1], e[i])
  BY DEF BranchOf
<1>3. Len(e) \in Nat /\ \A i \in 1 .. Len(e) : e[i] \in Tokens
  BY LenProperties, ElementOfSeq DEF Path
<1>8. ASSUME NEW i \in 1 .. Len(e)
      PROVE  b[i] \in Path /\ \E x \in Tokens : b[i] = Append(Above(b, i), x)
  <2>1. i \in 0 .. Len(e) /\ i - 1 \in 0 .. Len(e) /\ b[i] = at[i]
    BY <1>3
  <2>2. at[i] \in Path /\ at[i - 1] \in Path
    BY <1>1, <2>1
  <2>3. \E x \in Tokens : at[i] = Append(at[i - 1], x)
    <3>1. at[i] = Next1(t, at[i - 1], e[i]) /\ e[i] \in Tokens
      BY <1>1, <1>3
    <3>2. \E x \in Tokens : Next1(t, at[i - 1], e[i]) = Append(at[i - 1], x)
      BY <2>2, <3>1, StepDown
    <3> QED
      BY <3>1, <3>2
  <2>4. at[i - 1] = Above(b, i)
    <3>1. CASE i = 1
      BY <3>1, <1>1 DEF Above
    <3>2. CASE i # 1
      <4>1. i - 1 \in 1 .. Len(e)
        BY <1>3, <3>2
      <4> QED
        BY <3>2, <4>1 DEF Above
    <3> QED
      BY <3>1, <3>2
  <2> QED
    BY <2>1, <2>2, <2>3, <2>4
<1> QED
  BY <1>1, <1>8 DEF Grows

\* What is above a topic of the branch is in the branch, and there is one topic at each level.
LEMMA BranchIs ==
  ASSUME NEW n \in Nat, NEW b, Grows(b, n)
  PROVE  /\ b \in Seq(Path) /\ Len(b) = n /\ Range(b) \subseteq Path /\ <<>> \notin Range(b)
         /\ \A q \in Range(b), p \in Path : IsPrefix(p, q) => p = <<>> \/ p \in Range(b)
         /\ \A q, r \in Range(b) : Front(q) = Front(r) => q = r
<1>1. b \in Seq(Path) /\ Len(b) = n /\ DOMAIN b = 1 .. n
  BY IsASeq, LenProperties DEF Grows
<1>2. \A i \in 1 .. n : b[i] \in Path /\ b[i] \in Range(b)
  BY <1>1 DEF Grows, Range
<1>3. \A q \in Range(b) : \E i \in 1 .. n : q = b[i]
  BY <1>1 DEF Range
<1>4. <<>> \in Path /\ Len(<<>>) = 0
  BY EmptySeq DEF Path
<1>5. ASSUME NEW i \in 1 .. n
      PROVE  /\ Above(b, i) \in Path /\ b[i] # <<>> /\ Front(b[i]) = Above(b, i)
             /\ Len(b[i]) = Len(Above(b, i)) + 1
             /\ \A p \in Path : IsPrefix(p, b[i]) => IsPrefix(p, Above(b, i)) \/ p = b[i]
  <2>1. Above(b, i) \in Path
    <3>1. CASE i = 1
      BY <1>4, <3>1 DEF Above
    <3>2. CASE i # 1
      <4>1. i - 1 \in 1 .. n
        BY <3>2
      <4> QED
        BY <1>2, <3>2, <4>1 DEF Above
    <3> QED
      BY <3>1, <3>2
  <2>2. PICK x \in Tokens : b[i] = Append(Above(b, i), x)
    BY DEF Grows
  <2> QED
    BY <2>1, <2>2, Appended, PrefixOfAppended DEF Path
<1> DEFINE Good(i) == /\ Len(b[i]) = i
                      /\ \A p \in Path : IsPrefix(p, b[i]) => p = <<>> \/ p \in Range(b)
           P == {i \in 0 .. n : i = 0 \/ Good(i)}
<1>6. ASSUME NEW i \in 1 .. n, i - 1 \in P PROVE i \in P
  <2>1. CASE i = 1
    <3>1. Above(b, i) = <<>>
      BY <2>1 DEF Above
    <3>2. Len(b[i]) = i
      <4>1. Len(b[i]) = Len(Above(b, i)) + 1
        BY <1>5
      <4>2. Len(Above(b, i)) = 0
        BY <1>4, <3>1
      <4> QED
        BY <2>1, <4>1, <4>2
    <3>3. ASSUME NEW p \in Path, IsPrefix(p, b[i]) PROVE p = <<>> \/ p \in Range(b)
      <4>1. IsPrefix(p, <<>>) \/ p = b[i]
        BY <1>5, <3>1, <3>3
      <4> QED
        BY <1>2, <1>4, <4>1, PrefixOrder DEF Path
    <3>4. Good(i) /\ i \in 0 .. n
      BY <3>2, <3>3
    <3> QED
      BY <3>4
  <2>2. CASE i # 1
    <3>1. Above(b, i) = b[i - 1] /\ i - 1 # 0
      BY <2>2 DEF Above
    <3>2. Good(i - 1)
      BY <1>6, <3>1
    <3>3. Len(b[i]) = i
      BY <1>5, <3>1, <3>2
    <3>4. ASSUME NEW p \in Path, IsPrefix(p, b[i]) PROVE p = <<>> \/ p \in Range(b)
      <4>1. IsPrefix(p, b[i - 1]) \/ p = b[i]
        BY <1>5, <3>1, <3>4
      <4> QED
        BY <1>2, <3>2, <4>1
    <3>5. Good(i) /\ i \in 0 .. n
      BY <3>3, <3>4
    <3> QED
      BY <3>5
  <2> QED
    BY <2>1, <2>2
<1>7. \A i \in 1 .. n : Good(i)
  <2>1. 0 \in P
    OBVIOUS
  <2>2. \A i \in 0 .. n : i \in P
    <3> HIDE DEF P
    <3> QED
      BY <1>6, <2>1, UpTo
  <2>3. \A i \in 1 .. n : i \in 0 .. n /\ i # 0
    OBVIOUS
  <2> HIDE DEF Good
  <2> QED
    BY <2>2, <2>3
<1>8. ASSUME NEW q \in Range(b), NEW r \in Range(b), Front(q) = Front(r) PROVE q = r
  <2>1. PICK i \in 1 .. n : q = b[i]
    BY <1>3
  <2>2. PICK j \in 1 .. n : r = b[j]
    BY <1>3
  <2>3. Len(b[i]) = i /\ Len(b[j]) = j
    BY <1>7
  <2>4. Len(b[i]) = Len(b[j])
    BY <1>5, <1>8, <2>1, <2>2
  <2> QED
    BY <2>1, <2>2, <2>3, <2>4
<1>9. Range(b) \subseteq Path /\ <<>> \notin Range(b)
  BY <1>2, <1>3, <1>5
<1>10. \A q \in Range(b), p \in Path : IsPrefix(p, q) => p = <<>> \/ p \in Range(b)
  BY <1>3, <1>7
<1> QED
  BY <1>1, <1>8, <1>9, <1>10

-----------------------------------------------------------------------------
(* Creating the topics of a branch.                                        *)

\* What it adds to a tree.
WithTopics(t, b, r) ==
  /\ r \in Trees
  /\ Paths(r) = Paths(t) \cup Range(b)
  /\ r.topicList = t.topicList
  /\ \A p \in Paths(r) :
       /\ Names(r, p) = (IF p \in Paths(t) THEN Names(t, p) ELSE {})
                        \cup {Last(q) : q \in {q \in Range(b) \ Paths(t) : Front(q) = p}}
       /\ r.topic[p].routeList = IF p \in Paths(t) THEN t.topic[p].routeList ELSE <<>>
       /\ r.topic[p].routeList2 = IF p \in Paths(t) THEN t.topic[p].routeList2 ELSE <<>>
       /\ r.topic[p].listed = IF p \in Paths(t) THEN t.topic[p].listed ELSE FALSE
       /\ r.topic[p].isTable =>
            \/ p \in Paths(t) /\ t.topic[p].isTable
            \/ \E q \in Range(b) \ Paths(t) : Front(q) = p /\ Last(q) = Row

\* createTreeTopic: lists without elements.
LEMMA NewTopicIs ==
  /\ NewTopic \in Topic /\ NewTopic.childList = <<>> /\ Range(NewTopic.childList) = {}
  /\ NewTopic.routeList = <<>> /\ NewTopic.routeList2 = <<>> /\ NewTopic.listed = FALSE
  /\ NewTopic.isTable = FALSE
<1>1. <<>> \in Seq(Tokens) /\ <<>> \in Seq(Handle)
  BY EmptySeq
<1>2. Range(<<>>) = {}
  BY DEF Range
<1> QED
  BY <1>1, <1>2 DEF NewTopic, Topic

\* CreateTopics adds the missing topics, and each of them to its parent's children.
LEMMA CreateTopicsAdds ==
  ASSUME NEW t, t \in Trees, NEW n \in Nat, NEW b, Grows(b, n)
  PROVE  WithTopics(t, b, CreateTopics(t, b))
<1> DEFINE made == Range(b) \ DOMAIN t.topic
           old(p) == IF p \in made THEN NewTopic ELSE t.topic[p]
           new(p) == {q \in made : Front(q) = p}
           Grown(p) == IF new(p) = {} THEN old(p)
                       ELSE LET name == Last(CHOOSE q \in new(p) : TRUE)
                            IN  [old(p) EXCEPT !.childList = Append(@, name),
                                               !.isTable = @ \/ name = Row]
           r == [t EXCEPT !.topic = [p \in DOMAIN t.topic \cup made |-> Grown(p)]]
<1>1. CreateTopics(t, b) = r
  BY DEF CreateTopics
<1>2. /\ Range(b) \subseteq Path /\ <<>> \notin Range(b)
      /\ \A q, u \in Range(b) : Front(q) = Front(u) => q = u
  BY BranchIs
<1>3. made = Range(b) \ Paths(t)
  BY DEF Paths
<1>4. ASSUME NEW p \in Paths(t) \cup made
      PROVE  /\ old(p) \in Topic /\ old(p).childList \in Seq(Tokens)
             /\ old(p).childList = IF p \in Paths(t) THEN t.topic[p].childList ELSE <<>>
             /\ old(p).routeList = IF p \in Paths(t) THEN t.topic[p].routeList ELSE <<>>
             /\ old(p).routeList2 = IF p \in Paths(t) THEN t.topic[p].routeList2 ELSE <<>>
             /\ old(p).listed = IF p \in Paths(t) THEN t.topic[p].listed ELSE FALSE
             /\ old(p).isTable = IF p \in Paths(t) THEN t.topic[p].isTable ELSE FALSE
  <2> HIDE DEF made
  <2>1. CASE p \in Paths(t)
    <3>1. old(p) = t.topic[p]
      BY <1>3, <2>1
    <3>2. t.topic[p] \in Topic /\ t.topic[p].childList \in Seq(Tokens)
      BY <2>1, TopicIs
    <3> HIDE DEF old
    <3> QED
      BY <2>1, <3>1, <3>2
  <2>2. CASE p \notin Paths(t)
    <3>1. old(p) = NewTopic
      BY <2>2
    <3> HIDE DEF old
    <3> QED
      BY <2>2, <3>1, NewTopicIs, EmptySeq
  <2> QED
    BY <2>1, <2>2
<1>5. ASSUME NEW p \in Paths(t) \cup made
      PROVE  /\ Grown(p) \in Topic
             /\ Range(Grown(p).childList) = (IF p \in Paths(t) THEN Names(t, p) ELSE {})
                                            \cup {Last(q) : q \in new(p)}
             /\ Grown(p).routeList = old(p).routeList
             /\ Grown(p).routeList2 = old(p).routeList2
             /\ Grown(p).listed = old(p).listed
             /\ Grown(p).isTable => old(p).isTable \/ \E q \in new(p) : Last(q) = Row
  <2>0. Range(old(p).childList) = IF p \in Paths(t) THEN Names(t, p) ELSE {}
    <3>1. Range(<<>>) = {}
      BY DEF Range
    <3> HIDE DEF old
    <3> QED
      BY <1>4, <3>1 DEF Names
  <2>1. CASE new(p) = {}
    <3>1. Grown(p) = old(p)
      BY <2>1
    <3>2. {Last(q) : q \in new(p)} = {}
      BY <2>1
    <3> HIDE DEF Grown, old, new
    <3> QED
      BY <1>4, <2>0, <3>1, <3>2
  <2>2. CASE new(p) # {}
    <3> DEFINE child == CHOOSE q \in new(p) : TRUE
    <3>1. child \in new(p)
      BY <2>2
    <3> HIDE DEF child
    <3>2. new(p) = {child}
      <4>1. \A q \in new(p) : q = child
        BY <1>2, <3>1
      <4> HIDE DEF new
      <4> QED
        BY <3>1, <4>1
    <3>3. Last(child) \in Tokens
      <4>1. child \in Path /\ child # <<>>
        BY <1>2, <3>1
      <4> QED
        BY <4>1, FrontAndLast DEF Path
    <3>4. Grown(p) = [old(p) EXCEPT !.childList = Append(@, Last(child)),
                                    !.isTable = @ \/ Last(child) = Row]
      BY <2>2 DEF child
    <3> DEFINE names == Append(old(p).childList, Last(child))
    <3>5. names \in Seq(Tokens) /\ Range(names) = Range(old(p).childList) \cup {Last(child)}
      <4>1. old(p).childList \in Seq(Tokens)
        BY <1>4
      <4> HIDE DEF old
      <4> QED
        BY <3>3, <4>1, AppendedRange
    <3>6. {Last(q) : q \in new(p)} = {Last(child)}
      BY <3>2
    <3>7. Grown(p) = [old(p) EXCEPT !.childList = names, !.isTable = @ \/ Last(child) = Row]
      BY <3>4
    <3>8. old(p) \in Topic
      BY <1>4
    <3> HIDE DEF names, old, new, Grown
    <3>9. /\ Grown(p) \in Topic /\ Grown(p).childList = names
          /\ Grown(p).routeList = old(p).routeList
          /\ Grown(p).routeList2 = old(p).routeList2
          /\ Grown(p).listed = old(p).listed
          /\ Grown(p).isTable = (old(p).isTable \/ Last(child) = Row)
      BY <3>5, <3>7, <3>8 DEF Topic
    <3>10. child \in new(p)
      BY <3>2
    <3> QED
      BY <2>0, <3>5, <3>6, <3>9, <3>10
  <2> QED
    BY <2>1, <2>2
<1>6. t = [topic |-> t.topic, topicList |-> t.topicList] /\ Paths(t) \subseteq Path
      /\ t.topicList \in [Handles(t) -> Seq(Path)] /\ Handles(t) \subseteq Handle
  BY TreesAre
<1> HIDE DEF Grown, made, old
<1>7. r = [topic |-> [p \in Paths(t) \cup made |-> Grown(p)], topicList |-> t.topicList]
  BY <1>6 DEF Paths
<1>8. /\ r.topic = [p \in Paths(t) \cup made |-> Grown(p)]
      /\ Paths(r) = Paths(t) \cup made /\ r.topicList = t.topicList
      /\ Handles(r) = Handles(t)
      /\ r = [topic |-> r.topic, topicList |-> r.topicList]
  BY <1>7 DEF Paths, Handles
<1> HIDE DEF r
<1>9. r.topic \in [Paths(r) -> Topic]
  BY <1>5, <1>8
<1>10. Paths(r) \subseteq Path
  BY <1>2, <1>3, <1>6, <1>8
<1>11. r \in Trees
  BY <1>6, <1>8, <1>9, <1>10, TreesAre
<1>12. ASSUME NEW p \in Paths(r)
       PROVE  /\ Names(r, p) = (IF p \in Paths(t) THEN Names(t, p) ELSE {})
                               \cup {Last(q) : q \in {q \in Range(b) \ Paths(t) : Front(q) = p}}
              /\ r.topic[p].routeList = IF p \in Paths(t) THEN t.topic[p].routeList ELSE <<>>
              /\ r.topic[p].routeList2 = IF p \in Paths(t) THEN t.topic[p].routeList2 ELSE <<>>
              /\ r.topic[p].listed = IF p \in Paths(t) THEN t.topic[p].listed ELSE FALSE
              /\ r.topic[p].isTable =>
                   \/ p \in Paths(t) /\ t.topic[p].isTable
                   \/ \E q \in Range(b) \ Paths(t) : Front(q) = p /\ Last(q) = Row
  <2>1. p \in Paths(t) \cup made /\ r.topic[p] = Grown(p)
    BY <1>8
  <2>2. new(p) = {q \in Range(b) \ Paths(t) : Front(q) = p}
    BY <1>3
  <2> HIDE DEF new
  <2> QED
    BY <1>4, <1>5, <2>1, <2>2 DEF Names
<1>13. Paths(r) = Paths(t) \cup Range(b)
  BY <1>3, <1>8
<1> QED
  BY <1>1, <1>8, <1>11, <1>12, <1>13 DEF WithTopics

\* A tree with new topics is consistent: no route is assigned below them yet.
LEMMA CreateTopicsOK ==
  ASSUME NEW t, TreeOK(t), NEW n \in Nat, NEW b, Grows(b, n)
  PROVE  TreeOK(CreateTopics(t, b))
<1> DEFINE r == CreateTopics(t, b)
<1>1. /\ t \in Trees /\ Finite(t) /\ Closed(t) /\ Children(t) /\ Listed(t) /\ NoTwice(t)
      /\ OneHandle(t) /\ Agree(t) /\ Live(t) /\ Covers(t)
  BY DEF TreeOK
<1>2. WithTopics(t, b, r)
  BY <1>1, CreateTopicsAdds
<1> HIDE DEF r
<1>3. /\ r \in Trees /\ Paths(r) = Paths(t) \cup Range(b) /\ Handles(r) = Handles(t)
      /\ \A h \in Handles(r) : Of(r, h) = Of(t, h)
  BY <1>2 DEF WithTopics, Handles, Of
<1>4. /\ b \in Seq(Path) /\ Range(b) \subseteq Path /\ <<>> \notin Range(b)
      /\ \A q \in Range(b), p \in Path : IsPrefix(p, q) => p = <<>> \/ p \in Range(b)
  BY BranchIs
<1>5. Paths(t) \subseteq Path /\ <<>> \in Path /\ <<>> \in Paths(t)
  BY <1>1, TreesAre DEF Closed
<1>6. ASSUME NEW p \in Paths(r)
      PROVE  /\ p \in Paths(t) => /\ At(r, p) = At(t, p) /\ Under(r, p) = Under(t, p)
                                  /\ IsInjective(r.topic[p].routeList)
                                  /\ (At(t, p) # {} => r.topic[p].listed)
             /\ p \notin Paths(t) => At(r, p) = {} /\ IsInjective(r.topic[p].routeList)
  <2>1. Range(<<>>) = {} /\ IsInjective(<<>>)
    BY DEF Range, IsInjective
  <2>2. /\ r.topic[p].routeList = IF p \in Paths(t) THEN t.topic[p].routeList ELSE <<>>
        /\ r.topic[p].routeList2 = IF p \in Paths(t) THEN t.topic[p].routeList2 ELSE <<>>
        /\ r.topic[p].listed = IF p \in Paths(t) THEN t.topic[p].listed ELSE FALSE
    BY <1>2 DEF WithTopics
  <2>3. p \in Paths(t) => /\ IsInjective(t.topic[p].routeList)
                          /\ (At(t, p) # {} => t.topic[p].listed)
    BY <1>1 DEF NoTwice, Listed
  <2> QED
    BY <2>1, <2>2, <2>3 DEF At, Under
<1>7. Finite(r)
  <2>1. IsFiniteSet(Range(b))
    BY <1>4, RangeFinite
  <2> QED
    BY <1>1, <1>3, <2>1, FS_Union DEF Finite
<1>8. Closed(r)
  <2>1. ASSUME NEW q \in Paths(r), NEW p \in Path, IsPrefix(p, q) PROVE p \in Paths(r)
    BY <1>1, <1>3, <1>4, <1>5, <2>1 DEF Closed
  <2> QED
    BY <1>3, <1>5, <2>1 DEF Closed
<1>9. Children(r)
  <2>1. ASSUME NEW p \in Paths(r), NEW x \in Tokens
        PROVE  x \in Names(r, p) <=> Append(p, x) \in Paths(r)
    <3> DEFINE new == {q \in Range(b) \ Paths(t) : Front(q) = p}
    <3>1. Names(r, p) = (IF p \in Paths(t) THEN Names(t, p) ELSE {}) \cup {Last(q) : q \in new}
      BY <1>2 DEF WithTopics
    <3>2. p \in Path /\ Append(p, x) \in Path
          /\ Front(Append(p, x)) = p /\ Last(Append(p, x)) = x
      <4>1. p \in Path
        BY <1>3, <1>4, <1>5
      <4> QED
        BY <4>1, Appended DEF Path
    <3>3. Append(p, x) \in Paths(t) => p \in Paths(t)
      <4>1. IsPrefix(p, Append(p, x))
        BY <3>2, PrefixOfAppended, PrefixOrder DEF Path
      <4> QED
        BY <1>1, <3>2, <4>1 DEF Closed
    <3>4. p \in Paths(t) => (x \in Names(t, p) <=> Append(p, x) \in Paths(t))
      BY <1>1 DEF Children
    <3>5. (\E q \in new : x = Last(q)) <=> Append(p, x) \in Range(b) \ Paths(t)
      <4>1. ASSUME NEW q \in new, x = Last(q) PROVE q = Append(p, x)
        <5>1. q \in Path /\ q # <<>> /\ Front(q) = p
          BY <1>4, <4>1
        <5> QED
          BY <4>1, <5>1, FrontAndLast DEF Path
      <4> QED
        BY <3>2, <4>1
    <3> HIDE DEF new
    <3>6. x \in Names(r, p) <=> (p \in Paths(t) /\ x \in Names(t, p)) \/ \E q \in new : x = Last(q)
      BY <3>1
    <3> QED
      BY <1>3, <3>3, <3>4, <3>5, <3>6
  <2> QED
    BY <2>1 DEF Children
<1>10. Listed(r) /\ NoTwice(r)
  BY <1>6 DEF Listed, NoTwice
<1>11. OneHandle(r)
  BY <1>1, <1>3 DEF OneHandle
<1>12. Agree(r)
  <2>1. ASSUME NEW h \in Handles(r), NEW p \in Path
        PROVE  p \in Of(r, h) <=> p # <<>> /\ p \in Paths(r) /\ h \in At(r, p)
    <3>1. p \in Of(t, h) <=> p # <<>> /\ p \in Paths(t) /\ h \in At(t, p)
      BY <1>1, <1>3 DEF Agree
    <3>2. Of(r, h) = Of(t, h)
      BY <1>3
    <3>3. p \in Paths(r) => (p \in Paths(t) /\ At(r, p) = At(t, p)) \/ (p \notin Paths(t) /\ At(r, p) = {})
      BY <1>6
    <3>4. p \in Paths(t) => p \in Paths(r)
      BY <1>3
    <3> QED
      BY <3>1, <3>2, <3>3, <3>4
  <2> QED
    BY <2>1 DEF Agree
<1>13. Live(r)
  BY <1>1, <1>3, <1>6 DEF Live
<1>14. Covers(r)
  <2>1. ASSUME NEW p \in Paths(r), NEW q \in Paths(r), p # <<>>, p # q, IsPrefix(p, q)
        PROVE  At(r, q) \subseteq Under(r, p)
    <3>1. CASE q \notin Paths(t)
      BY <1>6, <3>1
    <3>2. CASE q \in Paths(t)
      <4>1. p \in Paths(t)
        BY <1>1, <1>3, <1>4, <1>5, <2>1, <3>2 DEF Closed
      <4>2. At(t, q) \subseteq Under(t, p)
        BY <1>1, <2>1, <3>2, <4>1 DEF Covers
      <4> QED
        BY <1>6, <3>2, <4>1, <4>2
    <3> QED
      BY <3>1, <3>2
  <2> QED
    BY <2>1 DEF Covers
<1> QED
  BY <1>3, <1>7, <1>8, <1>9, <1>10, <1>11, <1>12, <1>13, <1>14 DEF TreeOK, r

-----------------------------------------------------------------------------
(* Assigning a route to a topic.                                           *)

\* What it adds to a tree.
WithRoute(t, target, h, r) ==
  /\ r \in Trees
  /\ Paths(r) = Paths(t) /\ Handles(r) = Handles(t)
  /\ \A p \in Paths(t) :
       /\ Names(r, p) = Names(t, p)
       /\ At(r, p) = IF p = target THEN At(t, p) \cup {h} ELSE At(t, p)
       /\ Under(r, p) = IF p # <<>> /\ IsStrictPrefix(p, target) THEN Under(t, p) \cup {h}
                        ELSE Under(t, p)
       /\ IsInjective(r.topic[p].routeList)
       /\ (p # target => r.topic[p].listed = t.topic[p].listed)
       /\ (p = target => r.topic[p].listed)
       /\ r.topic[p].isTable = t.topic[p].isTable
  /\ \A g \in Handles(t) : Of(r, g) = IF g = h THEN Of(t, g) \cup {target} ELSE Of(t, g)

Assigned(t, target, h) == Backpropagate(Assign(t, target, h), target, h)

\* The route joins routeList of the topic and routeList2 of those above.
LEMMA AssignAdds ==
  ASSUME NEW t, t \in Trees, NoTwice(t), NEW target \in Paths(t), NEW h \in Handles(t),
         h \notin At(t, target)
  PROVE  WithRoute(t, target, h, Assigned(t, target, h))
<1> DEFINE s == Assign(t, target, h)
           own(p) == s.topic[p]
           Back(p) == IF p # <<>> /\ IsStrictPrefix(p, target)
                      THEN [s.topic[p] EXCEPT !.routeList2 = AppendOnce(@, h)] ELSE s.topic[p]
           r == [s EXCEPT !.topic = [p \in DOMAIN s.topic |-> Back(p)]]
<1>1. Assigned(t, target, h) = r
  BY DEF Assigned, Backpropagate
<1>2. /\ t.topic \in [Paths(t) -> Topic] /\ Paths(t) \subseteq Path
      /\ t.topicList \in [Handles(t) -> Seq(Path)] /\ Handles(t) \subseteq Handle
  BY TreesAre
<1>3. /\ s = [topic |-> s.topic, topicList |-> s.topicList]
      /\ DOMAIN s.topic = Paths(t) /\ DOMAIN s.topicList = Handles(t)
      /\ \A g \in Handles(t) : s.topicList[g] = IF g = h THEN AppendOnce(t.topicList[g], target)
                                               ELSE t.topicList[g]
      /\ \A p \in Paths(t) : own(p) = IF p = target
                                      THEN [t.topic[p] EXCEPT !.listed = TRUE,
                                                              !.routeList = Append(@, h)]
                                      ELSE t.topic[p]
  BY <1>2 DEF Assign, Paths, Handles
<1> HIDE DEF s
<1>4. ASSUME NEW p \in Paths(t)
      PROVE  /\ own(p) \in Topic /\ own(p).routeList2 \in Seq(Handle)
             /\ own(p).childList = t.topic[p].childList
             /\ own(p).routeList2 = t.topic[p].routeList2
             /\ Range(own(p).routeList) = IF p = target THEN At(t, p) \cup {h} ELSE At(t, p)
             /\ IsInjective(own(p).routeList)
             /\ own(p).listed = (p = target \/ t.topic[p].listed)
             /\ own(p).isTable = t.topic[p].isTable
  <2>1. /\ t.topic[p] \in Topic /\ t.topic[p].routeList \in Seq(Handle)
        /\ t.topic[p].routeList2 \in Seq(Handle) /\ h \in Handle
        /\ IsInjective(t.topic[p].routeList)
    BY <1>2, TopicIs DEF NoTwice
  <2>2. CASE p # target
    <3>1. own(p) = t.topic[p] /\ t.topic[p].listed \in BOOLEAN
      BY <1>3, <2>1, <2>2 DEF Topic
    <3> HIDE DEF own
    <3> QED
      BY <2>1, <2>2, <3>1 DEF At
  <2>3. CASE p = target
    <3> DEFINE list == Append(t.topic[p].routeList, h)
    <3>1. own(p) = [t.topic[p] EXCEPT !.listed = TRUE, !.routeList = list]
      BY <1>3, <2>3
    <3>2. list \in Seq(Handle) /\ Range(list) = At(t, p) \cup {h} /\ IsInjective(list)
      BY <2>1, <2>3, AppendedRange DEF At
    <3> HIDE DEF own, list
    <3>3. /\ own(p) \in Topic /\ own(p).childList = t.topic[p].childList
          /\ own(p).routeList = list /\ own(p).routeList2 = t.topic[p].routeList2
          /\ own(p).listed = TRUE /\ own(p).isTable = t.topic[p].isTable
      BY <2>1, <3>1, <3>2 DEF Topic
    <3> QED
      BY <2>1, <2>3, <3>2, <3>3
  <2> QED
    BY <2>2, <2>3
<1>5. ASSUME NEW p \in Paths(t)
      PROVE  /\ Back(p) \in Topic
             /\ Back(p).childList = own(p).childList /\ Back(p).routeList = own(p).routeList
             /\ Back(p).listed = own(p).listed /\ Back(p).isTable = own(p).isTable
             /\ Range(Back(p).routeList2) =
                  IF p # <<>> /\ IsStrictPrefix(p, target) THEN Under(t, p) \cup {h} ELSE Under(t, p)
  <2>1. h \in Handle /\ own(p) \in Topic /\ own(p).routeList2 \in Seq(Handle)
        /\ Range(own(p).routeList2) = Under(t, p)
    BY <1>2, <1>4 DEF Under
  <2>2. CASE p # <<>> /\ IsStrictPrefix(p, target)
    <3> DEFINE list == AppendOnce(own(p).routeList2, h)
    <3>1. Back(p) = [own(p) EXCEPT !.routeList2 = list]
      BY <2>2
    <3>2. list \in Seq(Handle) /\ Range(list) = Under(t, p) \cup {h}
      <4> HIDE DEF own
      <4> QED
        BY <2>1, AppendedOnce
    <3> HIDE DEF own, list, Back
    <3>3. /\ Back(p) \in Topic /\ Back(p).childList = own(p).childList
          /\ Back(p).routeList = own(p).routeList /\ Back(p).routeList2 = list
          /\ Back(p).listed = own(p).listed /\ Back(p).isTable = own(p).isTable
      BY <2>1, <3>1, <3>2 DEF Topic
    <3> QED
      BY <2>2, <3>2, <3>3
  <2>3. CASE ~(p # <<>> /\ IsStrictPrefix(p, target))
    <3>1. Back(p) = own(p)
      BY <2>3
    <3> HIDE DEF own, Back
    <3> QED
      BY <2>1, <2>3, <3>1
  <2> QED
    BY <2>2, <2>3
<1> HIDE DEF own, Back
<1>6. r = [topic |-> [p \in Paths(t) |-> Back(p)], topicList |-> s.topicList]
  <2> PICK u, l : s = [topic |-> u, topicList |-> l]
    BY <1>3
  <2>1. [s EXCEPT !.topic = [p \in Paths(t) |-> Back(p)]]
          = [topic |-> [p \in Paths(t) |-> Back(p)], topicList |-> s.topicList]
    OBVIOUS
  <2> QED
    BY <1>3, <2>1
<1>7. /\ r.topic = [p \in Paths(t) |-> Back(p)] /\ r.topicList = s.topicList
      /\ Paths(r) = Paths(t) /\ Handles(r) = Handles(t)
      /\ r = [topic |-> r.topic, topicList |-> r.topicList]
  BY <1>3, <1>6 DEF Paths, Handles
<1> HIDE DEF r
<1>8. ASSUME NEW g \in Handles(t)
      PROVE  /\ s.topicList[g] \in Seq(Path)
             /\ Range(s.topicList[g]) = IF g = h THEN Of(t, g) \cup {target} ELSE Of(t, g)
  <2>1. t.topicList[g] \in Seq(Path) /\ target \in Path
    BY <1>2
  <2>2. /\ AppendOnce(t.topicList[g], target) \in Seq(Path)
        /\ Range(AppendOnce(t.topicList[g], target)) = Of(t, g) \cup {target}
    BY <2>1, AppendedOnce DEF Of
  <2> QED
    BY <1>3, <2>1, <2>2 DEF Of
<1>9. r \in Trees
  <2>1. r.topic \in [Paths(r) -> Topic]
    BY <1>5, <1>7
  <2>2. s.topicList = [g \in Handles(t) |-> s.topicList[g]]
    <3>1. DOMAIN t.topicList = Handles(t) /\ s.topicList = [t.topicList EXCEPT ![h] = AppendOnce(@, target)]
      BY DEF Handles, s, Assign
    <3> QED
      BY <1>2, <1>3, <3>1
  <2>3. r.topicList \in [Handles(r) -> Seq(Path)]
    BY <1>7, <1>8, <2>2
  <2> QED
    BY <1>2, <1>7, <2>1, <2>3, TreesAre
<1>10. ASSUME NEW p \in Paths(t)
       PROVE  /\ Names(r, p) = Names(t, p)
              /\ At(r, p) = IF p = target THEN At(t, p) \cup {h} ELSE At(t, p)
              /\ Under(r, p) = IF p # <<>> /\ IsStrictPrefix(p, target) THEN Under(t, p) \cup {h}
                               ELSE Under(t, p)
              /\ IsInjective(r.topic[p].routeList)
              /\ (p # target => r.topic[p].listed = t.topic[p].listed)
              /\ (p = target => r.topic[p].listed)
              /\ r.topic[p].isTable = t.topic[p].isTable
  <2>1. r.topic[p] = Back(p)
    BY <1>7
  <2>2. t.topic[p].listed \in BOOLEAN
    BY TopicIs DEF Topic
  <2> QED
    BY <1>4, <1>5, <2>1, <2>2 DEF Names, At, Under
<1> QED
  BY <1>1, <1>7, <1>8, <1>9, <1>10 DEF WithRoute, Of

\* With both, the tree is consistent again.
LEMMA AssignOK ==
  ASSUME NEW t, TreeOK(t), NEW target \in Paths(t), target # <<>>, NEW h \in Handles(t),
         h \notin At(t, target)
  PROVE  TreeOK(Assigned(t, target, h)) /\ Handles(Assigned(t, target, h)) = Handles(t)
<1> DEFINE r == Assigned(t, target, h)
<1>1. /\ t \in Trees /\ Finite(t) /\ Closed(t) /\ Children(t) /\ Listed(t) /\ NoTwice(t)
      /\ OneHandle(t) /\ Agree(t) /\ Live(t) /\ Covers(t)
  BY DEF TreeOK
<1>2. WithRoute(t, target, h, r)
  BY <1>1, AssignAdds
<1> HIDE DEF r
<1>3. r \in Trees /\ Paths(r) = Paths(t) /\ Handles(r) = Handles(t)
  BY <1>2 DEF WithRoute
<1>4. \A p \in Paths(t) :
        /\ At(r, p) = IF p = target THEN At(t, p) \cup {h} ELSE At(t, p)
        /\ Under(t, p) \subseteq Under(r, p)
        /\ (p # <<>> /\ p # target /\ IsPrefix(p, target) => h \in Under(r, p))
  BY <1>2 DEF WithRoute, IsStrictPrefix
<1>5. Finite(r) /\ OneHandle(r)
  BY <1>1, <1>3 DEF Finite, OneHandle
<1>6. Closed(r) /\ Children(r)
  <2>1. \A p \in Paths(t) : Names(r, p) = Names(t, p)
    BY <1>2 DEF WithRoute
  <2> QED
    BY <1>1, <1>3, <2>1 DEF Closed, Children
<1>7. Listed(r) /\ NoTwice(r)
  <2>1. ASSUME NEW p \in Paths(t)
        PROVE  IsInjective(r.topic[p].routeList) /\ (At(r, p) # {} => r.topic[p].listed)
    <3>1. /\ IsInjective(r.topic[p].routeList)
          /\ (p # target => r.topic[p].listed = t.topic[p].listed)
          /\ (p = target => r.topic[p].listed)
      BY <1>2 DEF WithRoute
    <3>2. At(t, p) # {} => t.topic[p].listed
      BY <1>1 DEF Listed
    <3> QED
      BY <1>4, <3>1, <3>2
  <2> QED
    BY <1>3, <2>1 DEF Listed, NoTwice
<1>8. Agree(r)
  <2>1. ASSUME NEW g \in Handles(t), NEW p \in Path
        PROVE  p \in Of(r, g) <=> p # <<>> /\ p \in Paths(t) /\ g \in At(r, p)
    <3>1. Of(r, g) = IF g = h THEN Of(t, g) \cup {target} ELSE Of(t, g)
      BY <1>2 DEF WithRoute
    <3>2. p \in Of(t, g) <=> p # <<>> /\ p \in Paths(t) /\ g \in At(t, p)
      BY <1>1 DEF Agree
    <3> QED
      BY <1>4, <3>1, <3>2
  <2> QED
    BY <1>3, <2>1 DEF Agree
<1>9. Live(r)
  BY <1>1, <1>3, <1>4 DEF Live
<1>10. Covers(r)
  <2>1. ASSUME NEW p \in Paths(t), NEW q \in Paths(t), p # <<>>, p # q, IsPrefix(p, q)
        PROVE  At(r, q) \subseteq Under(r, p)
    <3>1. At(t, q) \subseteq Under(t, p)
      BY <1>1, <2>1 DEF Covers
    <3> QED
      BY <1>4, <2>1, <3>1
  <2> QED
    BY <1>3, <2>1 DEF Covers
<1> QED
  BY <1>3, <1>5, <1>6, <1>7, <1>8, <1>9, <1>10 DEF TreeOK, r

-----------------------------------------------------------------------------
(* Adding a route.                                                         *)

\* The same topics with the same lists.
SameTopics(t, r) == Paths(r) = Paths(t) /\ \A p \in Paths(t) : r.topic[p] = t.topic[p]

\* The topics of a branch, and a route of the last of them.
WithBranch(t, b, route, r) ==
  /\ Last(b) \in Range(b) /\ Last(b) # <<>>
  /\ Paths(r) = Paths(t) \cup Range(b)
  /\ \A p, k : Holds(r, p, k) <=> Holds(t, p, k) \/ (p = Last(b) /\ k = route)
  /\ Shut(r) = Shut(t) \cup {Last(b)}
  /\ \A p \in Paths(r) : r.topic[p].isTable =>
       \/ p \in Paths(t) /\ t.topic[p].isTable
       \/ \E q \in Range(b) \ Paths(t) : Front(q) = p /\ Last(q) = Row

\* The route is new to the tree, or its new topic must not be a duplicate.
LEMMA AddTopicRouteOK ==
  ASSUME NEW t, TreeOK(t), NEW e \in Path, NEW route \in Route, NEW errOnDup \in BOOLEAN,
         HasTreeRoute(t, route) => errOnDup /\ e # Advisory
  PROVE  /\ TreeOK(AddTopicRoute(t, e, route, errOnDup).tree)
         /\ \A g \in Handles(AddTopicRoute(t, e, route, errOnDup).tree) :
              g \in Handles(t) \/ g[1] = route
         /\ IF e = <<>> \/ Refused(t, e, Last(Branch(t, e)), errOnDup)
            THEN SameTopics(t, AddTopicRoute(t, e, route, errOnDup).tree)
            ELSE WithBranch(t, Branch(t, e), route, AddTopicRoute(t, e, route, errOnDup).tree)
<1> DEFINE known == HasTreeRoute(t, route)
           h == IF known THEN getTreeRoute(t, route) ELSE NewTreeRoute(t, route)
           t1 == IF known THEN t ELSE Allocated(t, h)
           branch == Branch(t, e)
           target == Last(branch)
           made == CreateTopics(t1, branch)
           result == AddTopicRoute(t, e, route, errOnDup).tree
<1>1. result = IF e = <<>> THEN t
               ELSE IF Refused(t, e, target, errOnDup) THEN t1
               ELSE Assigned(made, target, h)
  BY DEF AddTopicRoute, Allocated, Assigned
<1>2. t \in Trees /\ Finite(t) /\ Children(t)
  BY DEF TreeOK
<1>3. /\ TreeOK(t1) /\ h \in Handles(t1) /\ h[1] = route
      /\ Paths(t1) = Paths(t) /\ \A p \in Paths(t) : t1.topic[p] = t.topic[p]
      /\ \A g \in Handles(t1) : g \in Handles(t) \/ g = h
      /\ ~known => \A p \in Paths(t) : h \notin At(t, p)
  <2>1. CASE known
    <3>1. h \in Handles(t) /\ h[1] = route
      BY <2>1 DEF HasTreeRoute, getTreeRoute, Handles
    <3> HIDE DEF h
    <3> QED
      BY <2>1, <3>1
  <2>2. CASE ~known
    <3>1. h \in Handle /\ h[1] = route /\ h \notin Referenced(t)
      <4>1. h = NewTreeRoute(t, route)
        BY <2>2
      <4> HIDE DEF h
      <4> QED
        BY <1>2, <4>1, FreshTreeRoute
    <3>2. \A g \in Handles(t) : g[1] # h[1]
      <4> HIDE DEF h
      <4> QED
        BY <2>2, <3>1 DEF HasTreeRoute, Handles
    <3>3. t1 = Allocated(t, h)
      BY <2>2
    <3> HIDE DEF h, t1
    <3>4. /\ TreeOK(t1) /\ Handles(t1) = Handles(t) \cup {h} /\ Paths(t1) = Paths(t)
          /\ \A p \in Paths(t) : t1.topic[p] = t.topic[p]
      BY <3>1, <3>2, <3>3, AllocatedOK
    <3>5. \A p \in Paths(t) : h \notin At(t, p)
      BY <3>1 DEF Referenced, Paths, At
    <3> QED
      BY <3>1, <3>4, <3>5
  <2> QED
    BY <2>1, <2>2
<1> HIDE DEF h, t1
<1>4. CASE e = <<>>
  BY <1>1, <1>4 DEF SameTopics
<1>5. CASE e # <<>> /\ Refused(t, e, target, errOnDup)
  BY <1>1, <1>3, <1>5 DEF SameTopics
<1>6. CASE e # <<>> /\ ~Refused(t, e, target, errOnDup)
  <2>1. Len(e) \in Nat /\ Len(e) # 0
    BY <1>6, EmptySeq, LenProperties DEF Path
  <2>2. Grows(branch, Len(e))
    BY <1>2, BranchGrows
  <2> HIDE DEF branch
  <2>3. /\ branch \in Seq(Path) /\ Len(branch) = Len(e) /\ Range(branch) \subseteq Path
        /\ <<>> \notin Range(branch)
    BY <2>1, <2>2, BranchIs
  <2>4. target \in Range(branch) /\ target # <<>>
    <3>1. Len(e) \in DOMAIN branch /\ target = branch[Len(e)]
      BY <2>1, <2>3, LenProperties DEF Last
    <3>2. target \in Range(branch)
      BY <3>1 DEF Range
    <3> QED
      BY <2>3, <3>2
  <2>5. TreeOK(made)
    BY <1>3, <2>1, <2>2, CreateTopicsOK
  <2>6. WithTopics(t1, branch, made)
    BY <1>3, <2>1, <2>2, CreateTopicsAdds DEF TreeOK
  <2> HIDE DEF made, target
  <2>7. target \in Paths(made) /\ Handles(made) = Handles(t1)
        /\ made.topic[target].routeList =
             IF target \in Paths(t) THEN t1.topic[target].routeList ELSE <<>>
    BY <1>3, <2>4, <2>6 DEF WithTopics, Handles
  <2>8. At(made, target) = IF target \in Paths(t) THEN At(t, target) ELSE {}
    BY <1>3, <2>7 DEF At, Range
  <2>9. h \notin At(made, target)
    <3>1. CASE ~known
      BY <1>3, <2>8, <3>1
    <3>2. CASE known
      <4>1. target \in Paths(t) => ~t.topic[target].listed
        BY <1>6, <3>2 DEF Refused, Paths
      <4>2. target \in Paths(t) => At(t, target) = {}
        BY <4>1 DEF TreeOK, Listed
      <4> QED
        BY <2>8, <4>2
    <3> QED
      BY <3>1, <3>2
  <2>10. TreeOK(Assigned(made, target, h)) /\ Handles(Assigned(made, target, h)) = Handles(made)
    BY <1>3, <2>4, <2>5, <2>7, <2>9, AssignOK
  <2>11. WithRoute(made, target, h, Assigned(made, target, h))
    BY <1>3, <2>5, <2>7, <2>9, AssignAdds DEF TreeOK
  <2>12. result = Assigned(made, target, h)
    BY <1>1, <1>6
  <2> HIDE DEF result
  <2>13. WithBranch(t, branch, route, result)
    <3>1. Paths(made) = Paths(t) \cup Range(branch) /\ Paths(result) = Paths(made)
      BY <1>3, <2>6, <2>11, <2>12 DEF WithTopics, WithRoute
    <3>2. ASSUME NEW p \in Paths(made)
          PROVE  At(result, p) = (IF p \in Paths(t) THEN At(t, p) ELSE {})
                                 \cup (IF p = target THEN {h} ELSE {})
      <4>1. made.topic[p].routeList = IF p \in Paths(t) THEN t1.topic[p].routeList ELSE <<>>
        BY <1>3, <2>6 DEF WithTopics
      <4>2. At(made, p) = IF p \in Paths(t) THEN At(t, p) ELSE {}
        BY <1>3, <4>1 DEF At, Range
      <4>3. At(result, p) = IF p = target THEN At(made, p) \cup {h} ELSE At(made, p)
        BY <2>11, <2>12 DEF WithRoute
      <4> QED
        BY <4>2, <4>3
    <3>3. \A p, k : Holds(result, p, k) <=> Holds(t, p, k) \/ (p = target /\ k = route)
      BY <1>3, <2>4, <3>1, <3>2 DEF Holds
    <3>4. ASSUME NEW p \in Paths(result), result.topic[p].isTable
          PROVE  \/ p \in Paths(t) /\ t.topic[p].isTable
                 \/ \E q \in Range(branch) \ Paths(t) : Front(q) = p /\ Last(q) = Row
      <4>1. made.topic[p].isTable
        BY <2>11, <2>12, <3>1, <3>4 DEF WithRoute
      <4>2. \/ p \in Paths(t1) /\ t1.topic[p].isTable
            \/ \E q \in Range(branch) \ Paths(t1) : Front(q) = p /\ Last(q) = Row
        BY <2>6, <3>1, <4>1 DEF WithTopics
      <4> QED
        BY <1>3, <4>2
    <3>5. ASSUME NEW p \in Paths(result)
          PROVE  result.topic[p].listed <=> p = target \/ (p \in Paths(t) /\ t.topic[p].listed)
      <4>1. made.topic[p].listed = IF p \in Paths(t) THEN t1.topic[p].listed ELSE FALSE
        BY <1>3, <2>6, <3>1 DEF WithTopics
      <4>2. /\ (p # target => result.topic[p].listed = made.topic[p].listed)
            /\ (p = target => result.topic[p].listed)
        BY <2>11, <2>12, <3>1 DEF WithRoute
      <4> QED
        BY <1>3, <4>1, <4>2
    <3>6. Shut(result) = Shut(t) \cup {target}
      BY <2>4, <3>1, <3>5 DEF Shut
    <3> QED
      BY <2>4, <3>1, <3>3, <3>4, <3>6 DEF WithBranch, target
  <2> QED
    BY <1>1, <1>3, <1>6, <2>7, <2>10, <2>12, <2>13 DEF target, branch, result
<1> QED
  BY <1>4, <1>5, <1>6

-----------------------------------------------------------------------------
(* Removing the routes of a client.                                        *)

\* The recursion of ClearClientRoutes.
Clears(f, t, c, s) ==
  f = [i \in 0 .. Len(s) |->
         IF i = 0 THEN t
         ELSE IF s[i].client = c THEN RemoveRoute(f[i-1], Key(s[i])) ELSE f[i-1]]

\* The function that ClearClientRoutes chooses exists.
LEMMA ClearExists ==
  ASSUME NEW t, TreeOK(t), NEW c, NEW s, Len(s) \in Nat
  PROVE  \E f : Clears(f, t, c, s)
<1> PICK n \in Nat : n = Len(s)
  OBVIOUS
<1> DEFINE S == {u \in Trees : TreeOK(u)}
           Clear(u, i) == IF s[i].client = c THEN RemoveRoute(u, Key(s[i])) ELSE u
           step == [i \in 1 .. n |-> [u \in S |-> Clear(u, i)]]
<1>0. \A u, i : u \in S => Clear(u, i) \in S
  <2> TAKE u, i
  <2> HAVE u \in S
  <2>1. TreeOK(RemoveRoute(u, Key(s[i])))
    BY RemoveRouteOK
  <2> QED
    BY <2>1 DEF TreeOK
<1>1. step \in Steps(n, S)
  <2> HIDE DEF S, Clear
  <2> QED
    BY <1>0 DEF Steps
<1>2. t \in S
  BY DEF TreeOK
<1>3. PICK f : Follows(f, n, S, t, step)
  <2> HIDE DEF step, S
  <2> QED
    BY <1>1, <1>2, StepByStep
<1>4. ASSUME NEW i \in 1 .. n PROVE f[i] = Clear(f[i - 1], i)
  <2>1. i - 1 \in 0 .. n
    OBVIOUS
  <2> HIDE DEF S, Clear
  <2>2. f[i - 1] \in S
    BY <1>3, <2>1 DEF Follows
  <2>3. f[i] = step[i][f[i - 1]]
    BY <1>3 DEF Follows
  <2> QED
    BY <2>2, <2>3
<1>5. f = [i \in 0 .. n |-> IF i = 0 THEN t ELSE Clear(f[i - 1], i)]
  <2> HIDE DEF step, S, Clear
  <2>1. \A i \in 0 .. n : i = 0 \/ i \in 1 .. n
    OBVIOUS
  <2> QED
    BY <1>3, <1>4, <2>1 DEF Follows
<1> QED
  BY <1>5 DEF Clears

\* The trees it passes.
ClearOf(after, t, c) ==
  /\ after[0] = t
  /\ \A i \in 1 .. Len(routes) :
       after[i] = IF routes[i].client = c THEN RemoveRoute(after[i-1], Key(routes[i]))
                  ELSE after[i-1]
  /\ ClearClientRoutes(t, c) = after[Len(routes)]

\* The equations of ClearClientRoutes.
LEMMA ClearSteps ==
  ASSUME NEW t, TreeOK(t), NEW c, Len(routes) \in Nat
  PROVE  \E after : ClearOf(after, t, c)
<1> DEFINE after[i \in 0..Len(routes)] ==
             IF i = 0 THEN t
             ELSE IF routes[i].client = c THEN RemoveRoute(after[i-1], Key(routes[i]))
             ELSE after[i-1]
<1>1. ClearClientRoutes(t, c) = after[Len(routes)]
  BY DEF ClearClientRoutes
<1>2. Clears(after, t, c, routes)
  <2>1. \E f : Clears(f, t, c, routes)
    BY ClearExists
  <2> QED
    BY <2>1 DEF Clears
<1> HIDE DEF after
<1>3. 0 \in 0 .. Len(routes) /\ \A i \in 1 .. Len(routes) : i \in 0 .. Len(routes) /\ i # 0
  OBVIOUS
<1>4. after[0] = t
  BY <1>2, <1>3 DEF Clears
<1>5. ASSUME NEW i \in 1 .. Len(routes)
      PROVE  after[i] = IF routes[i].client = c THEN RemoveRoute(after[i-1], Key(routes[i]))
                        ELSE after[i-1]
  BY <1>2, <1>3 DEF Clears
<1> QED
  BY <1>1, <1>4, <1>5 DEF ClearOf

\* No tree route of the client is left, and all that is left was there.
LEMMA ClearClientRoutesOK ==
  ASSUME NEW t, TreeOK(t), NEW c, Len(routes) \in Nat
  PROVE  /\ TreeOK(ClearClientRoutes(t, c))
         /\ \A g \in Handles(ClearClientRoutes(t, c)) :
              /\ g \in Handles(t)
              /\ \A i \in 1 .. Len(routes) : routes[i].client = c => g[1] # Key(routes[i])
<1> PICK after : ClearOf(after, t, c)
  BY ClearSteps
<1>3. /\ after[0] = t /\ ClearClientRoutes(t, c) = after[Len(routes)]
      /\ \A i \in 1 .. Len(routes) :
           after[i] = IF routes[i].client = c THEN RemoveRoute(after[i-1], Key(routes[i]))
                      ELSE after[i-1]
  BY DEF ClearOf
<1> DEFINE Mine(i) == {Key(routes[j]) : j \in {j \in 1 .. i : routes[j].client = c}}
           Good(i) == /\ TreeOK(after[i])
                      /\ \A g \in Handles(after[i]) : g \in Handles(t) /\ g[1] \notin Mine(i)
           P == {i \in 0 .. Len(routes) : Good(i)}
<1>4. 0 \in P
  <2>1. Mine(0) = {}
    OBVIOUS
  <2> HIDE DEF Mine
  <2> QED
    BY <1>3, <2>1
<1>5. ASSUME NEW i \in 1 .. Len(routes), i - 1 \in P PROVE i \in P
  <2>1. Good(i - 1) /\ i \in 0 .. Len(routes)
    BY <1>5
  <2>2. Mine(i) = Mine(i - 1) \cup IF routes[i].client = c THEN {Key(routes[i])} ELSE {}
    <3>1. 1 .. i = 1 .. i - 1 \cup {i}
      OBVIOUS
    <3>2. \A x : x \in Mine(i) <=> x \in Mine(i - 1) \/ (routes[i].client = c /\ x = Key(routes[i]))
      BY <3>1
    <3> HIDE DEF Mine
    <3> QED
      BY <3>2
  <2>3. CASE routes[i].client # c
    <3>1. after[i] = after[i - 1]
      BY <1>3, <2>3
    <3> HIDE DEF Mine
    <3>2. Good(i)
      BY <2>1, <2>2, <2>3, <3>1
    <3> QED
      BY <2>1, <3>2
  <2>4. CASE routes[i].client = c
    <3>1. after[i] = RemoveRoute(after[i - 1], Key(routes[i]))
      BY <1>3, <2>4
    <3> HIDE DEF Mine
    <3>2. /\ TreeOK(after[i])
          /\ \A g : g \in Handles(after[i]) <=> g \in Handles(after[i - 1]) /\ g[1] # Key(routes[i])
      BY <2>1, <3>1, RemoveRouteOK
    <3>3. Good(i)
      BY <2>1, <2>2, <2>4, <3>2
    <3> QED
      BY <2>1, <3>3
  <2> QED
    BY <2>3, <2>4
<1>6. Len(routes) \in P
  <2> HIDE DEF P
  <2>1. \A i \in 0 .. Len(routes) : i \in P
    BY <1>4, <1>5, UpTo
  <2> QED
    BY <2>1
<1>7. Good(Len(routes))
  BY <1>6
<1> QED
  BY <1>3, <1>7

-----------------------------------------------------------------------------
(* The router.                                                             *)

\* No client registers an alias of the advisory topic: the tree takes that one more
\* than once, and then lists one route twice at one topic.
NoAdvisoryAlias == \A w \in Workloads : Advisory \notin w.aliases

Entry == [client : Clients, id : RouteIds, expression : Expressions]

OneEntry == \A r1, r2 \in Range(routes) : Key(r1) = Key(r2) => r1 = r2

\* The tree's routes are entries of the vector, and those are of connected clients.
Owned ==
  /\ \A h \in Handles(tree) : h[1] \in Keys
  /\ \A k \in Keys : k[1] \in clients

RouterInv ==
  /\ clients \subseteq Clients /\ inboxes \subseteq clients
  /\ routes \in Seq(Entry) /\ uses \in Workloads
  /\ OneEntry /\ Owned
  /\ TreeOK(tree)

\* What the clients use are paths.
LEMMA ExpressionsArePaths ==
  ASSUME RouterInv
  PROVE  /\ Expressions \subseteq Path
         /\ uses.ids \subseteq RouteIds
         /\ uses.listeners \subseteq Expressions /\ uses.aliases \subseteq Expressions
         /\ \A c \in Clients : /\ InboxOf[c] \in Expressions
                               /\ Removable(c) \subseteq Expressions
<1>1. uses \in Workloads /\ Range(routes) \subseteq Entry
  BY RangeOfSeq DEF RouterInv
<1>2. Expressions \subseteq Path
  BY ExpressionAssumption DEF Path
<1>3. uses.ids \subseteq RouteIds
  BY <1>1, InboxAssumption
<1>4. uses.listeners \subseteq Expressions /\ uses.aliases \subseteq Expressions
  BY <1>1 DEF Expressions
<1>5. ASSUME NEW c \in Clients
      PROVE  InboxOf[c] \in Expressions /\ Removable(c) \subseteq Expressions
  <2>1. InboxOf[c] \in Inboxes
    BY InboxAssumption DEF Inboxes, Range
  <2>2. \A r \in Range(routes) : r.expression \in Expressions
    BY <1>1 DEF Entry
  <2>3. InboxOf[c] \in Expressions
    <3>1. \A y : y \in Inboxes => y \in Expressions
      BY DEF Expressions
    <3> QED
      BY <2>1, <3>1
  <2>4. Removable(c) \subseteq Expressions
    BY <1>4, <2>2 DEF Removable
  <2> QED
    BY <2>3, <2>4
<1> QED
  BY <1>2, <1>3, <1>4, <1>5

\* rtRoutingTree_Create
LEMMA EmptyTreeOK == TreeOK(EmptyTree) /\ Handles(EmptyTree) = {}
<1> DEFINE t == EmptyTree
<1>1. /\ t = [topic |-> t.topic, topicList |-> t.topicList]
      /\ Paths(t) = {<<>>} /\ Handles(t) = {} /\ t.topic = [p \in {<<>>} |-> NewTopic]
      /\ t.topicList = [h \in {} |-> <<>>]
  BY DEF EmptyTree, Paths, Handles
<1> HIDE DEF t
<1>2. <<>> \in Path /\ t.topic[<<>>] = NewTopic
  BY <1>1, EmptySeq DEF Path
<1>3. t \in Trees
  BY <1>1, <1>2, NewTopicIs, TreesAre
<1>4. At(t, <<>>) = {} /\ Names(t, <<>>) = {}
  BY <1>2, NewTopicIs DEF At, Names, Range
<1>5. Finite(t)
  <2>1. IsFiniteSet({}) /\ IsFiniteSet({<<>>})
    BY FS_EmptySet, FS_Singleton
  <2> QED
    BY <1>1, <2>1 DEF Finite
<1>6. Closed(t)
  BY <1>1, PrefixOrder DEF Closed, Path
<1>7. Children(t)
  BY <1>1, <1>2, <1>4, Appended DEF Children, Path
<1>8. Listed(t) /\ NoTwice(t)
  <2>1. IsInjective(<<>>)
    BY DEF IsInjective
  <2> QED
    BY <1>1, <1>2, <1>4, <2>1, NewTopicIs DEF Listed, NoTwice
<1>9. OneHandle(t) /\ Agree(t) /\ Live(t) /\ Covers(t)
  BY <1>1 DEF OneHandle, Agree, Live, Covers
<1> QED
  BY <1>1, <1>3, <1>5, <1>6, <1>7, <1>8, <1>9 DEF TreeOK, t

\* Init establishes the invariant.
LEMMA RouterInit == Init => RouterInv
<1> SUFFICES ASSUME Init PROVE RouterInv
  OBVIOUS
<1>1. Range(routes) = {} /\ Keys = {} /\ routes \in Seq(Entry)
  BY EmptySeq DEF Init, Keys, Range
<1> QED
  BY <1>1, EmptyTreeOK DEF Init, RouterInv, OneEntry, Owned

\* Each handler preserves it.
LEMMA AcceptKeeps ==
  ASSUME RouterInv, NEW c \in Clients, Accept(c), UNCHANGED uses
  PROVE  RouterInv'
BY DEF RouterInv, Accept, OneEntry, Owned, Keys, TreeOK

\* Steps that change nothing but what was sent.
LEMMA SendingKeeps ==
  ASSUME RouterInv, UNCHANGED <<clients, inboxes, routes, tree, uses>>
  PROVE  RouterInv'
BY DEF RouterInv, OneEntry, Owned, Keys

LEMMA DisconnectKeeps ==
  ASSUME RouterInv, NEW c \in Clients, Disconnect(c), UNCHANGED uses
  PROVE  RouterInv'
<1>1. /\ routes \in Seq(Entry) /\ OneEntry /\ Owned /\ TreeOK(tree) /\ uses \in Workloads
      /\ clients \subseteq Clients /\ inboxes \subseteq clients
  BY DEF RouterInv
<1>2. /\ clients' = clients \ {c} /\ inboxes' = inboxes \ {c}
      /\ routes' = Keep(routes, {r \in Range(routes) : r.client # c})
      /\ tree' = ClearClientRoutes(tree, c) /\ uses' = uses
  BY DEF Disconnect
<1>3. routes' \in Seq(Entry) /\ Range(routes') = {r \in Range(routes) : r.client # c}
  BY <1>1, <1>2, Kept
<1>4. Len(routes) \in Nat /\ DOMAIN routes = 1 .. Len(routes)
  BY <1>1, LenProperties
<1>5. /\ TreeOK(tree')
      /\ \A g \in Handles(tree') :
           /\ g \in Handles(tree)
           /\ \A i \in 1 .. Len(routes) : routes[i].client = c => g[1] # Key(routes[i])
  BY <1>1, <1>2, <1>4, ClearClientRoutesOK
<1>6. ASSUME NEW g \in Handles(tree') PROVE \E r \in Range(routes') : g[1] = Key(r)
  <2>1. PICK r \in Range(routes) : g[1] = Key(r)
    BY <1>1, <1>5, <1>6 DEF Owned, Keys
  <2>2. r.client # c
    <3>1. PICK i \in 1 .. Len(routes) : r = routes[i]
      BY <1>4 DEF Range
    <3> QED
      BY <1>5, <1>6, <2>1, <3>1
  <2> QED
    BY <1>3, <2>1, <2>2
<1>7. ASSUME NEW r \in Range(routes') PROVE Key(r)[1] \in clients'
  <2>1. r \in Range(routes) /\ r.client # c
    BY <1>3
  <2>2. Key(r)[1] = r.client
    BY DEF Key
  <2>3. Key(r)[1] \in clients
    BY <1>1, <2>1 DEF Owned, Keys
  <2> QED
    BY <1>2, <2>1, <2>2, <2>3
<1>8. OneEntry'
  BY <1>1, <1>3 DEF OneEntry
<1>9. Owned'
  BY <1>6, <1>7 DEF Owned, Keys
<1> QED
  BY <1>1, <1>2, <1>3, <1>5, <1>8, <1>9 DEF RouterInv

LEMMA AddRouteKeeps ==
  ASSUME RouterInv, NEW c \in Clients, NEW x \in Expressions, NEW id \in RouteIds,
         AddRoute(c, x, id, FALSE), UNCHANGED uses
  PROVE  RouterInv'
<1> DEFINE entry == [client |-> c, id |-> id, expression |-> x]
           added == AddTopicRoute(tree, x, <<c, id>>, FALSE)
<1>1. /\ routes \in Seq(Entry) /\ OneEntry /\ Owned /\ TreeOK(tree) /\ uses \in Workloads
      /\ clients \subseteq Clients /\ inboxes \subseteq clients
  BY DEF RouterInv
<1>2. /\ c \in clients /\ <<c, id>> \notin Keys /\ clients' = clients
      /\ routes' = Append(routes, entry) /\ tree' = added.tree /\ uses' = uses
      /\ inboxes' \subseteq inboxes \cup {c}
  BY DEF AddRoute
<1>3. entry \in Entry /\ Key(entry) = <<c, id>>
  BY DEF Entry, Key
<1> HIDE DEF entry, added
<1>4. routes' \in Seq(Entry) /\ Range(routes') = Range(routes) \cup {entry}
  BY <1>1, <1>2, <1>3, AppendedRange
<1>5. ~HasTreeRoute(tree, <<c, id>>)
  BY <1>1, <1>2 DEF HasTreeRoute, Owned, Handles
<1>6. x \in Path /\ <<c, id>> \in Route
  BY ExpressionsArePaths DEF Route
<1>7. /\ TreeOK(tree')
      /\ \A g \in Handles(tree') : g \in Handles(tree) \/ g[1] = <<c, id>>
  BY <1>1, <1>2, <1>5, <1>6, AddTopicRouteOK DEF added
<1>8. Keys' = Keys \cup {<<c, id>>}
  BY <1>3, <1>4 DEF Keys
<1>9. OneEntry'
  BY <1>1, <1>2, <1>3, <1>4 DEF OneEntry, Keys
<1>10. Owned'
  BY <1>1, <1>2, <1>7, <1>8 DEF Owned
<1> QED
  BY <1>1, <1>2, <1>4, <1>7, <1>9, <1>10 DEF RouterInv

LEMMA AddAliasKeeps ==
  ASSUME RouterInv, NEW c \in Clients, NEW x \in Expressions, x # Advisory,
         NEW id \in RouteIds, AddAlias(c, x, id, TRUE), UNCHANGED uses
  PROVE  RouterInv'
<1> DEFINE added == AddTopicRoute(tree, x, <<c, id>>, TRUE)
<1>1. /\ OneEntry /\ Owned /\ TreeOK(tree)
  BY DEF RouterInv
<1>2. /\ <<c, id>> \in Keys /\ UNCHANGED <<clients, inboxes, routes, uses>>
      /\ tree' = added.tree
  BY DEF AddAlias
<1>3. x \in Path /\ <<c, id>> \in Route
  BY ExpressionsArePaths DEF Route
<1>4. /\ TreeOK(tree')
      /\ \A g \in Handles(tree') : g \in Handles(tree) \/ g[1] = <<c, id>>
  BY <1>1, <1>2, <1>3, AddTopicRouteOK
<1>5. Keys' = Keys
  BY <1>2 DEF Keys
<1>6. Owned' /\ OneEntry'
  BY <1>1, <1>2, <1>4, <1>5 DEF Owned, OneEntry
<1> QED
  BY <1>2, <1>4, <1>6 DEF RouterInv

LEMMA UnsubscribeKeeps ==
  ASSUME RouterInv, NEW c \in Clients, NEW x \in Expressions,
         Unsubscribe(c, x, FALSE), UNCHANGED uses
  PROVE  RouterInv'
<1>1. /\ routes \in Seq(Entry) /\ OneEntry /\ Owned /\ TreeOK(tree) /\ uses \in Workloads
      /\ clients \subseteq Clients /\ inboxes \subseteq clients
  BY DEF RouterInv
<1>2. UNCHANGED <<clients, inboxes, uses>>
  BY DEF Unsubscribe
<1>3. CASE OwnRoutes(c, x) # <<>>
  <2> PICK r : r = Head(OwnRoutes(c, x))
    OBVIOUS
  <2>1. ClearRoute(r)
    BY <1>3 DEF Unsubscribe
  <2>2. r \in Range(routes)
    <3>1. /\ OwnRoutes(c, x) \in Seq(Entry)
          /\ Range(OwnRoutes(c, x)) \subseteq Range(routes)
      BY <1>1, Kept DEF OwnRoutes
    <3>2. 1 \in DOMAIN OwnRoutes(c, x) /\ r = OwnRoutes(c, x)[1]
      BY <1>3, <3>1, EmptySeq, LenProperties
    <3> QED
      BY <3>1, <3>2 DEF Range
  <2>3. routes' \in Seq(Entry) /\ Range(routes') = Range(routes) \ {r}
    BY <1>1, <2>1, Kept DEF ClearRoute
  <2>4. /\ TreeOK(tree')
        /\ \A g : g \in Handles(tree') <=> g \in Handles(tree) /\ g[1] # Key(r)
    BY <1>1, <2>1, RemoveRouteOK DEF ClearRoute
  <2>5. OneEntry'
    BY <1>1, <2>3 DEF OneEntry
  <2>6. Keys' = Keys \ {Key(r)}
    BY <1>1, <2>2, <2>3 DEF Keys, OneEntry
  <2>7. Owned'
    BY <1>1, <1>2, <2>4, <2>6 DEF Owned
  <2> QED
    BY <1>1, <1>2, <2>3, <2>4, <2>5, <2>7 DEF RouterInv
<1>4. CASE OwnRoutes(c, x) = <<>>
  <2>1. tree' = RemoveTopic(tree, x) /\ routes' = routes
    BY <1>4 DEF Unsubscribe
  <2>2. x \in Path
    BY ExpressionsArePaths
  <2>3. TreeOK(tree') /\ Handles(tree') \subseteq Handles(tree)
    BY <1>1, <2>1, <2>2, RemoveTopicOK
  <2>4. OneEntry' /\ Owned'
    BY <1>1, <1>2, <2>1, <2>3 DEF OneEntry, Owned, Keys
  <2> QED
    BY <1>1, <1>2, <2>1, <2>3, <2>4 DEF RouterInv
<1> QED
  BY <1>3, <1>4

\* What one client makes the router do.
StepOf(c) ==
  \/ Accept(c)
  \/ Disconnect(c)
  \/ BadSubscribe(c)
  \/ \E id \in uses.ids, x \in uses.listeners \cup {InboxOf[c]} : AddRoute(c, x, id, FALSE)
  \/ \E id \in uses.ids, x \in uses.aliases : AddAlias(c, x, id, TRUE)
  \/ \E x \in Removable(c) : Unsubscribe(c, x, FALSE)
  \/ \E x \in uses.topics, partial, request \in BOOLEAN : Dispatch(c, x, partial, request)
  \/ \E x \in uses.topics : Discover(c, x)

LEMMA StepIs ==
  ASSUME Next
  PROVE  \E c \in Clients : StepOf(c)
BY DEF Next, Step, StepOf

\* Every step keeps the invariant.
LEMMA RouterStep ==
  ASSUME NoAdvisoryAlias, RouterInv, [Next]_vars
  PROVE  RouterInv'
<1>1. CASE UNCHANGED vars
  BY <1>1, SendingKeeps DEF vars
<1>2. CASE Next
  <2>0. UNCHANGED uses /\ uses \in Workloads
    BY <1>2 DEF Next, RouterInv
  <2> PICK c \in Clients : StepOf(c)
    BY <1>2, StepIs
  <2>1. CASE Accept(c)
    BY <2>0, <2>1, AcceptKeeps
  <2>2. CASE Disconnect(c)
    BY <2>0, <2>2, DisconnectKeeps
  <2>3. CASE BadSubscribe(c)
    BY <2>0, <2>3, SendingKeeps DEF BadSubscribe
  <2>4. CASE \E id \in uses.ids, x \in uses.listeners \cup {InboxOf[c]} : AddRoute(c, x, id, FALSE)
    <3> PICK id \in uses.ids, x \in uses.listeners \cup {InboxOf[c]} : AddRoute(c, x, id, FALSE)
      BY <2>4
    <3>1. id \in RouteIds /\ x \in Expressions
      BY ExpressionsArePaths
    <3> QED
      BY <2>0, <3>1, AddRouteKeeps
  <2>5. CASE \E id \in uses.ids, x \in uses.aliases : AddAlias(c, x, id, TRUE)
    <3> PICK id \in uses.ids, x \in uses.aliases : AddAlias(c, x, id, TRUE)
      BY <2>5
    <3>1. id \in RouteIds /\ x \in Expressions /\ x # Advisory
      BY <2>0, ExpressionsArePaths DEF NoAdvisoryAlias
    <3> QED
      BY <2>0, <3>1, AddAliasKeeps
  <2>6. CASE \E x \in Removable(c) : Unsubscribe(c, x, FALSE)
    <3> PICK x \in Removable(c) : Unsubscribe(c, x, FALSE)
      BY <2>6
    <3>1. x \in Expressions
      BY ExpressionsArePaths
    <3> QED
      BY <2>0, <3>1, UnsubscribeKeeps
  <2>7. CASE \E x \in uses.topics, partial, request \in BOOLEAN : Dispatch(c, x, partial, request)
    BY <2>0, <2>7, SendingKeeps DEF Dispatch
  <2>8. CASE \E x \in uses.topics : Discover(c, x)
    BY <2>0, <2>8, SendingKeeps DEF Discover
  <2> QED
    BY <2>1, <2>2, <2>3, <2>4, <2>5, <2>6, <2>7, <2>8 DEF StepOf
<1> QED
  BY <1>1, <1>2

\* The invariant holds in every reachable state.
LEMMA RouterInvariant ==
  ASSUME NoAdvisoryAlias
  PROVE  Spec => []RouterInv
<1>1. RouterInv /\ [Next]_vars => RouterInv'
  BY RouterStep
<1> QED
  BY <1>1, RouterInit, PTL DEF Spec

-----------------------------------------------------------------------------
(* What the router handled says what it did.                               *)

\* The events, each with what it did.
Did(c) ==
  \/ Accept(c) /\ handled' = <<"accept", c>>
  \/ Disconnect(c) /\ handled' = <<"disconnect", c>>
  \/ BadSubscribe(c) /\ handled' = <<"invalid", c>>
  \/ \E id \in uses.ids, x \in uses.listeners \cup {InboxOf[c]} :
       AddRoute(c, x, id, FALSE) /\ handled' = <<"listener", c, x, id>>
  \/ \E id \in uses.ids, x \in uses.aliases :
       AddAlias(c, x, id, TRUE) /\ handled' = <<"alias", c, x, id>>
  \/ \E x \in Removable(c) : Unsubscribe(c, x, FALSE) /\ handled' = <<"unsubscribe", c, x>>
  \/ \E x \in uses.topics, partial \in BOOLEAN, request \in BOOLEAN :
       Dispatch(c, x, partial, request) /\ handled' = <<"dispatch", c, x, partial, request>>
  \/ \E x \in uses.topics : Discover(c, x) /\ handled' = <<"discover", c, x>>

\* Only an event of that kind and with those contents is recorded so.
LEMMA HandledIs ==
  ASSUME Next
  PROVE  /\ \A c : handled' = <<"accept", c>> => Accept(c)
         /\ \A c : handled' = <<"disconnect", c>> => Disconnect(c)
         /\ \A c : handled' = <<"invalid", c>> => BadSubscribe(c)
         /\ \A c, x, id : handled' = <<"listener", c, x, id>> =>
              id \in uses.ids /\ x \in uses.listeners \cup {InboxOf[c]} /\ AddRoute(c, x, id, FALSE)
         /\ \A c, x, id : handled' = <<"alias", c, x, id>> =>
              id \in uses.ids /\ x \in uses.aliases /\ AddAlias(c, x, id, TRUE)
         /\ \A c, x : handled' = <<"unsubscribe", c, x>> => x \in Removable(c) /\ Unsubscribe(c, x, FALSE)
         /\ \A c, x, partial, request : handled' = <<"dispatch", c, x, partial, request>> =>
              x \in uses.topics /\ Dispatch(c, x, partial, request)
         /\ \A c, x : handled' = <<"discover", c, x>> => x \in uses.topics /\ Discover(c, x)
<1> PICK d \in Clients : Did(d)
  BY DEF Next, Step, Did
<1> DEFINE Kind == handled'[1]
<1>0. /\ \A c : handled' = <<"accept", c>> => Kind = "accept" /\ handled'[2] = c
      /\ \A c : handled' = <<"disconnect", c>> => Kind = "disconnect" /\ handled'[2] = c
      /\ \A c : handled' = <<"invalid", c>> => Kind = "invalid" /\ handled'[2] = c
      /\ \A c, x, id : handled' = <<"listener", c, x, id>> =>
           Kind = "listener" /\ handled'[2] = c /\ handled'[3] = x /\ handled'[4] = id
      /\ \A c, x, id : handled' = <<"alias", c, x, id>> =>
           Kind = "alias" /\ handled'[2] = c /\ handled'[3] = x /\ handled'[4] = id
      /\ \A c, x : handled' = <<"unsubscribe", c, x>> =>
           Kind = "unsubscribe" /\ handled'[2] = c /\ handled'[3] = x
      /\ \A c, x, partial, request : handled' = <<"dispatch", c, x, partial, request>> =>
           /\ Kind = "dispatch" /\ handled'[2] = c /\ handled'[3] = x
           /\ handled'[4] = partial /\ handled'[5] = request
      /\ \A c, x : handled' = <<"discover", c, x>> =>
           Kind = "discover" /\ handled'[2] = c /\ handled'[3] = x
  OBVIOUS
<1> HIDE DEF Kind
<1>1. CASE Accept(d) /\ handled' = <<"accept", d>>
  BY <1>0, <1>1
<1>2. CASE Disconnect(d) /\ handled' = <<"disconnect", d>>
  BY <1>0, <1>2
<1>3. CASE BadSubscribe(d) /\ handled' = <<"invalid", d>>
  BY <1>0, <1>3
<1>4. CASE \E id \in uses.ids, x \in uses.listeners \cup {InboxOf[d]} :
             AddRoute(d, x, id, FALSE) /\ handled' = <<"listener", d, x, id>>
  <2>1. PICK id \in uses.ids, x \in uses.listeners \cup {InboxOf[d]} :
          AddRoute(d, x, id, FALSE) /\ handled' = <<"listener", d, x, id>>
    BY <1>4
  <2>2. Kind = "listener" /\ handled'[2] = d /\ handled'[3] = x /\ handled'[4] = id
    BY <1>0, <2>1
  <2> QED
    BY <1>0, <2>1, <2>2
<1>5. CASE \E id \in uses.ids, x \in uses.aliases :
             AddAlias(d, x, id, TRUE) /\ handled' = <<"alias", d, x, id>>
  <2>1. PICK id \in uses.ids, x \in uses.aliases :
          AddAlias(d, x, id, TRUE) /\ handled' = <<"alias", d, x, id>>
    BY <1>5
  <2>2. Kind = "alias" /\ handled'[2] = d /\ handled'[3] = x /\ handled'[4] = id
    BY <1>0, <2>1
  <2> QED
    BY <1>0, <2>1, <2>2
<1>6. CASE \E x \in Removable(d) : Unsubscribe(d, x, FALSE) /\ handled' = <<"unsubscribe", d, x>>
  <2>1. PICK x \in Removable(d) : Unsubscribe(d, x, FALSE) /\ handled' = <<"unsubscribe", d, x>>
    BY <1>6
  <2>2. Kind = "unsubscribe" /\ handled'[2] = d /\ handled'[3] = x
    BY <1>0, <2>1
  <2> QED
    BY <1>0, <2>1, <2>2
<1>7. CASE \E x \in uses.topics, partial \in BOOLEAN, request \in BOOLEAN :
             Dispatch(d, x, partial, request) /\ handled' = <<"dispatch", d, x, partial, request>>
  BY <1>0, <1>7
<1>8. CASE \E x \in uses.topics : Discover(d, x) /\ handled' = <<"discover", d, x>>
  BY <1>0, <1>8
<1> QED
  BY <1>1, <1>2, <1>3, <1>4, <1>5, <1>6, <1>7, <1>8 DEF Did

-----------------------------------------------------------------------------
(* The properties.                                                         *)

\* A consistent tree has the shape that the runs check.
LEMMA TreeOKTypes ==
  ASSUME NEW t, TreeOK(t)
  PROVE  TreeTypeOK(t, Clients \X RouteIds)
<1>1. t \in Trees /\ Closed(t) /\ Children(t) /\ Listed(t) /\ <<>> \in Path
  BY EmptySeq DEF TreeOK, Path
<1>2. ASSUME NEW p \in Paths(t)
      PROVE  Names(t, p) = {Last(q) : q \in {q \in AllTopics(t) : Front(q) = p}}
  <2>1. p \in Path /\ Names(t, p) \subseteq Tokens
    BY <1>1, TopicIs
  <2>2. ASSUME NEW x \in Names(t, p)
        PROVE  \E q \in AllTopics(t) : Front(q) = p /\ x = Last(q)
    <3>1. Append(p, x) \in Paths(t)
      BY <1>1, <2>1 DEF Children
    <3> QED
      BY <2>1, <3>1, Appended DEF AllTopics, Paths, Path
  <2>3. ASSUME NEW q \in AllTopics(t), Front(q) = p PROVE Last(q) \in Names(t, p)
    <3>1. q \in Paths(t) /\ q # <<>> /\ q \in Path
      BY <1>1, TopicIs DEF AllTopics, Paths
    <3>2. Last(q) \in Tokens /\ q = Append(p, Last(q))
      BY <2>3, <3>1, FrontAndLast DEF Path
    <3> QED
      BY <1>1, <3>1, <3>2 DEF Children
  <2> QED
    BY <2>2, <2>3
<1>3. ASSUME NEW p \in Paths(t), p # <<>> PROVE Front(p) \in Paths(t)
  <2>1. p \in Path
    BY <1>1, TopicIs
  <2>2. Front(p) \in Path /\ Last(p) \in Tokens /\ p = Append(Front(p), Last(p))
    BY <1>3, <2>1, FrontAndLast DEF Path
  <2>3. IsPrefix(Front(p), p)
    <3>1. IsPrefix(Front(p), Front(p))
      BY <2>2, PrefixOrder DEF Path
    <3> QED
      BY <2>2, <3>1, PrefixOfAppended DEF Path
  <2> QED
    BY <1>1, <2>2, <2>3 DEF Closed
<1>4. ASSUME NEW p \in Paths(t), t.topic[p].routeList # <<>> PROVE t.topic[p].listed
  <2>1. At(t, p) # {}
    BY <1>1, <1>4, TopicIs, NoElements DEF At
  <2> QED
    BY <1>1, <2>1 DEF Listed
<1>5. \A h \in Handles(t) : h[1] \in Clients \X RouteIds
  BY <1>1, TreesAre DEF Handle, Route
<1> QED
  BY <1>1, <1>2, <1>3, <1>4, <1>5 DEF TreeTypeOK, Paths, Handles, Names, Closed

\* Its lists describe one relation, and cache it completely.
LEMMA TreeOKLists ==
  ASSUME NEW t, TreeOK(t)
  PROVE  RouteListsLive(t) /\ ListsAgree(t) /\ PartialCovers(t)
<1>1. t \in Trees /\ Agree(t) /\ Live(t) /\ Covers(t)
  BY DEF TreeOK
<1>2. ASSUME NEW p \in Paths(t), NEW h
      PROVE  Contains(t.topic[p].routeList, h) <=> h \in At(t, p)
  <2>1. DOMAIN t.topic[p].routeList = 1 .. Len(t.topic[p].routeList)
    BY <1>1, TopicIs, LenProperties
  <2> QED
    BY <2>1 DEF Contains, At, Range
<1>3. RouteListsLive(t)
  BY <1>1 DEF RouteListsLive, Live, AllTopics, Paths, At, Handles
<1>4. ListsAgree(t)
  <2>1. ASSUME NEW h \in Handles(t)
        PROVE  Of(t, h) = {p \in AllTopics(t) : Contains(t.topic[p].routeList, h)}
    <3>1. Of(t, h) \subseteq Path /\ AllTopics(t) \subseteq Path
      BY <1>1, TopicListIs, TreesAre DEF AllTopics, Paths
    <3>2. \A p \in Path : p \in Of(t, h) <=> p # <<>> /\ p \in Paths(t) /\ h \in At(t, p)
      BY <1>1 DEF Agree
    <3>3. \A p : p \in AllTopics(t) <=> p # <<>> /\ p \in Paths(t)
      BY DEF AllTopics, Paths
    <3> QED
      BY <1>2, <3>1, <3>2, <3>3
  <2> QED
    BY <2>1 DEF ListsAgree, Of, Handles
<1>5. PartialCovers(t)
  BY <1>1 DEF PartialCovers, Covers, AllTopics, Paths, At, Under, IsStrictPrefix
<1> QED
  BY <1>3, <1>4, <1>5

\* Whatever the clients register, remove and leave behind when they go, the
\* daemon's tables and its tree are of their types, no topic lists a freed tree
\* route or one of a client that is gone, and topics and tree routes list each
\* other (rtRouted_OnMessageSubscribe, rtRouted_ClearClientRoutes and the
\* functions of rtRoutingTree.c they call).
THEOREM TreeAlwaysConsistent ==
  ASSUME NoAdvisoryAlias
  PROVE  Spec => []TreeConsistent
<1>1. RouterInv => TreeConsistent
  <2> SUFFICES ASSUME RouterInv PROVE TreeConsistent
    OBVIOUS
  <2>1. TypeOK
    BY TreeOKTypes DEF RouterInv, TypeOK, Entry
  <2>2. NoStaleRoute
    BY TreeOKLists DEF RouterInv, Owned, NoStaleRoute, Handles
  <2>3. TopicListsAgree
    BY TreeOKLists DEF RouterInv, TopicListsAgree
  <2> QED
    BY <2>1, <2>2, <2>3 DEF TreeConsistent
<1> QED
  BY <1>1, RouterInvariant, PTL

\* routeList2 misses no route that is assigned below its topic, in whatever order
\* routes and topics came and went (optimizeTopicsBackpropagate,
\* removeRouteFromTopicTree, freeTreeTopic).
THEOREM PartialQueriesComplete ==
  ASSUME NoAdvisoryAlias
  PROVE  Spec => []PartialQueryComplete
<1>1. RouterInv => PartialQueryComplete
  BY TreeOKLists DEF RouterInv, PartialQueryComplete
<1> QED
  BY <1>1, RouterInvariant, PTL

-----------------------------------------------------------------------------
(* Lookups that no row template answers.                                   *)

\* Below p no row template answers to the token.
Alone(t, p, token) == token \in RowTokens => Append(p, Row) \notin Paths(t)

\* A lookup of the expression meets no row template that answers to one of its tokens.
Exact(t, e) == \A p \in Path, x \in Tokens : IsPrefix(Append(p, x), e) => Alone(t, p, x)

\* The beginnings of an expression.
Seg(e, i) == SubSeq(e, 1, i)

LEMMA Segments ==
  ASSUME NEW e \in Path
  PROVE  /\ Len(e) \in Nat /\ \A i \in 1 .. Len(e) : e[i] \in Tokens /\ e[i] \in Range(e)
         /\ Seg(e, 0) = <<>> /\ Seg(e, Len(e)) = e
         /\ \A i \in 0 .. Len(e) : Seg(e, i) \in Path /\ IsPrefix(Seg(e, i), e)
         /\ \A i \in 1 .. Len(e) : Seg(e, i) = Append(Seg(e, i - 1), e[i])
<1>1. Len(e) \in Nat /\ DOMAIN e = 1 .. Len(e) /\ \A i \in 1 .. Len(e) : e[i] \in Tokens
  BY LenProperties, ElementOfSeq DEF Path
<1>2. \A i \in 1 .. Len(e) : e[i] \in Range(e)
  BY <1>1 DEF Range
<1>3. ASSUME NEW i \in 0 .. Len(e)
      PROVE  /\ Seg(e, i) \in Path /\ Len(Seg(e, i)) = i
             /\ \A j \in 1 .. i : Seg(e, i)[j] = e[j]
  <2>1. i \in Nat /\ \A j \in 1 .. i : e[j] \in Tokens
    BY <1>1
  <2> QED
    BY <2>1, SubSeqProperties DEF Seg, Path
<1>4. Seg(e, Len(e)) = e
  BY <1>1, <1>3, SeqEqual DEF Path
<1>5. ASSUME NEW i \in 0 .. Len(e) PROVE IsPrefix(Seg(e, i), e)
  BY <1>1, <1>3, Prefix DEF Path
<1>6. ASSUME NEW i \in 1 .. Len(e) PROVE Seg(e, i) = Append(Seg(e, i - 1), e[i])
  <2> PICK k \in Nat : i = k + 1
    <3>1. i - 1 \in Nat /\ i = (i - 1) + 1
      BY <1>1
    <3> QED
      BY <3>1
  <2>1. k \in 0 .. Len(e) /\ k + 1 \in 0 .. Len(e) /\ i - 1 = k
    BY <1>1
  <2> DEFINE s == Seg(e, k)
             u == Seg(e, k + 1)
  <2>2. s \in Path /\ Len(s) = k /\ \A j \in 1 .. k : s[j] = e[j]
    BY <1>3, <2>1
  <2>3. u \in Path /\ Len(u) = k + 1 /\ \A j \in 1 .. k + 1 : u[j] = e[j]
    BY <1>3, <2>1
  <2> HIDE DEF s, u
  <2>4. e[i] \in Tokens
    BY <1>1
  <2>5. /\ Append(s, e[i]) \in Path /\ Len(Append(s, e[i])) = k + 1
        /\ \A j \in 1 .. k : Append(s, e[i])[j] = s[j]
        /\ Append(s, e[i])[k + 1] = e[i]
    BY <2>2, <2>4, AppendProperties DEF Path
  <2>6. \A j \in 1 .. k + 1 : u[j] = Append(s, e[i])[j]
    <3>1. \A j \in 1 .. k + 1 : j \in 1 .. k \/ j = i
      OBVIOUS
    <3> QED
      BY <2>2, <2>3, <2>5, <3>1
  <2>7. u = Append(s, e[i])
    BY <2>3, <2>5, <2>6, SeqEqual DEF Path
  <2> QED
    BY <2>1, <2>7 DEF s, u
<1>7. Seg(e, 0) = <<>>
  <2>1. Seg(e, 0) \in Path /\ Len(Seg(e, 0)) = 0
    BY <1>1, <1>3
  <2> QED
    BY <2>1, EmptySeq DEF Path
<1> QED
  BY <1>1, <1>2, <1>3, <1>4, <1>5, <1>6, <1>7

\* What getChildByName returns.
LEMMA ChildIs ==
  ASSUME NEW t, t \in Trees, Children(t), NEW p \in Paths(t), NEW token \in Tokens
  PROVE  /\ \/ getChildByName(t, p, token) = NoTopic
            \/ getChildByName(t, p, token) = Append(p, token)
            \/ Row \in Tokens /\ getChildByName(t, p, token) = Append(p, Row)
         /\ Alone(t, p, token) =>
              getChildByName(t, p, token) = IF Append(p, token) \in Paths(t) THEN Append(p, token)
                                            ELSE NoTopic
<1> DEFINE children == t.topic[p].childList
           hits == {i \in DOMAIN children : Matches(children[i], token)}
<1>1. getChildByName(t, p, token) = IF hits = {} THEN NoTopic ELSE Append(p, children[Min(hits)])
  BY DEF getChildByName
<1>2. DOMAIN children = 1 .. Len(children) /\ Len(children) \in Nat /\ Names(t, p) \subseteq Tokens
  BY TopicIs, LenProperties
<1>3. CASE hits # {}
  <2>1. hits \subseteq Nat
    BY <1>2
  <2>2. Min(hits) \in hits
    <3> HIDE DEF hits
    <3> QED
      BY <1>3, <2>1, MinIn
  <2> PICK name : name = children[Min(hits)]
    OBVIOUS
  <2>3. name \in Names(t, p) /\ Matches(name, token)
    BY <2>2 DEF Names, Range
  <2>4. getChildByName(t, p, token) = Append(p, name)
    BY <1>1, <1>3
  <2>5. name \in Tokens /\ Append(p, name) \in Paths(t)
    BY <1>2, <2>3 DEF Children
  <2> HIDE DEF hits, children
  <2>6. name = token \/ name = Row
    BY <2>3 DEF Matches
  <2>7. Alone(t, p, token) => name = token
    BY <2>3, <2>5 DEF Matches, Alone
  <2> QED
    BY <2>4, <2>5, <2>6, <2>7
<1>4. CASE hits = {}
  <2>1. token \notin Names(t, p)
    BY <1>4 DEF Names, Range, Matches
  <2>2. Append(p, token) \notin Paths(t)
    BY <2>1 DEF Children
  <2> QED
    BY <1>1, <1>4, <2>2
<1> QED
  BY <1>3, <1>4

\* The prefixes of a topic, and what Append adds to its tokens.
LEMMA PathRange ==
  ASSUME NEW p \in Path
  PROVE  /\ \A x \in Tokens : Range(Append(p, x)) = Range(p) \cup {x}
         /\ \A q \in Path : IsPrefix(p, q) => Range(p) \subseteq Range(q)
<1>1. \A x \in Tokens : Range(Append(p, x)) = Range(p) \cup {x}
  BY AppendedRange DEF Path
<1>2. ASSUME NEW q \in Path, IsPrefix(p, q) PROVE Range(p) \subseteq Range(q)
  <2>1. Len(p) <= Len(q) /\ \A i \in 1 .. Len(p) : p[i] = q[i]
    BY <1>2, Prefix DEF Path
  <2>2. /\ DOMAIN p = 1 .. Len(p) /\ DOMAIN q = 1 .. Len(q)
        /\ Len(p) \in Nat /\ Len(q) \in Nat
    BY LenProperties DEF Path
  <2>3. 1 .. Len(p) \subseteq 1 .. Len(q)
    BY <2>1, <2>2
  <2> QED
    BY <2>1, <2>2, <2>3 DEF Range
<1> QED
  BY <1>1, <1>2

\* Each step of an exact lookup is exact, and so is a lookup of what is above.
LEMMA ExactSteps ==
  ASSUME NEW t, NEW e \in Path, Exact(t, e)
  PROVE  /\ \A i \in 1 .. Len(e) : Alone(t, Seg(e, i - 1), e[i])
         /\ \A p \in Path : IsPrefix(p, e) => Exact(t, p)
<1>1. ASSUME NEW i \in 1 .. Len(e) PROVE Alone(t, Seg(e, i - 1), e[i])
  <2>1. i \in 0 .. Len(e) /\ i - 1 \in 0 .. Len(e)
    BY Segments
  <2>2. /\ Seg(e, i) = Append(Seg(e, i - 1), e[i]) /\ e[i] \in Tokens
        /\ Seg(e, i - 1) \in Path /\ IsPrefix(Seg(e, i), e)
    BY <2>1, Segments
  <2> QED
    BY <2>2 DEF Exact
<1>2. ASSUME NEW p \in Path, IsPrefix(p, e) PROVE Exact(t, p)
  <2>1. ASSUME NEW q \in Path, NEW x \in Tokens, IsPrefix(Append(q, x), p)
        PROVE  Alone(t, q, x)
    <3>1. Append(q, x) \in Path
      BY Appended DEF Path
    <3>2. IsPrefix(Append(q, x), e)
      BY <1>2, <2>1, <3>1, PrefixOrder DEF Path
    <3> QED
      BY <3>2 DEF Exact
  <2> QED
    BY <2>1 DEF Exact
<1> QED
  BY <1>1, <1>2

\* A walk that meets no row template ends at the topic of its expression.
LEMMA WalkIs ==
  ASSUME NEW t, t \in Trees, Closed(t), Children(t), NEW e \in Path
  PROVE  /\ Walk(t, e) # NoTopic /\ Row \notin Range(Walk(t, e)) => Walk(t, e) = e
         /\ Exact(t, e) =>
              Walk(t, e) = IF e \in Paths(t) THEN e ELSE NoTopic
<1> PICK at : WalkOf(at, t, e)
  BY WalkSteps, LenProperties DEF Path
<1>1. /\ at[0] = <<>> /\ Walk(t, e) = at[Len(e)]
      /\ \A i \in 1 .. Len(e) :
           at[i] = IF at[i-1] = NoTopic THEN NoTopic ELSE getChildByName(t, at[i-1], e[i])
  BY DEF WalkOf
<1>2. /\ Len(e) \in Nat /\ \A i \in 1 .. Len(e) : e[i] \in Tokens
      /\ Seg(e, 0) = <<>> /\ Seg(e, Len(e)) = e
      /\ \A i \in 0 .. Len(e) : Seg(e, i) \in Path
      /\ \A i \in 1 .. Len(e) : Seg(e, i) = Append(Seg(e, i - 1), e[i])
  BY Segments
<1>3. <<>> \in Paths(t) /\ NoTopic \notin Path /\ Paths(t) \subseteq Path
  BY ExpressionAssumption, TreesAre DEF Closed, Path
<1> DEFINE Found(i) == at[i] = NoTopic \/ (at[i] \in Paths(t) /\ (Row \in Range(at[i]) \/ at[i] = Seg(e, i)))
           P == {i \in 0 .. Len(e) : Found(i)}
<1>4. 0 \in P
  BY <1>1, <1>2, <1>3
<1>5. ASSUME NEW i \in 1 .. Len(e), i - 1 \in P PROVE i \in P
  <2>1. i \in 0 .. Len(e) /\ Found(i - 1) /\ e[i] \in Tokens
    BY <1>2, <1>5
  <2>2. CASE at[i-1] = NoTopic
    BY <1>1, <2>1, <2>2
  <2>3. CASE at[i-1] # NoTopic
    <3>1. at[i] = getChildByName(t, at[i-1], e[i]) /\ at[i-1] \in Paths(t) /\ at[i-1] \in Path
      BY <1>1, <1>3, <2>1, <2>3
    <3>2. at[i] = NoTopic \/ at[i] \in Paths(t)
      BY <3>1, ChildFound
    <3>3. \/ at[i] = NoTopic \/ at[i] = Append(at[i-1], e[i])
          \/ Row \in Tokens /\ at[i] = Append(at[i-1], Row)
      BY <2>1, <3>1, ChildIs
    <3>4. \A x \in Tokens : Range(Append(at[i-1], x)) = Range(at[i-1]) \cup {x}
      BY <3>1, PathRange
    <3>5. at[i] = NoTopic \/ Row \in Range(at[i]) \/ at[i] = Seg(e, i)
      <4>1. Row \in Range(at[i-1]) \/ at[i-1] = Seg(e, i - 1)
        BY <2>1, <2>3
      <4> QED
        BY <1>2, <2>1, <3>3, <3>4, <4>1
    <3>6. Found(i)
      BY <3>2, <3>5
    <3> QED
      BY <2>1, <3>6
  <2> QED
    BY <2>2, <2>3
<1>6. Found(Len(e))
  <2> HIDE DEF P, Found
  <2>1. \A i \in 0 .. Len(e) : i \in P
    BY <1>2, <1>4, <1>5, UpTo
  <2> QED
    BY <1>2, <2>1 DEF P
<1>7. ASSUME Exact(t, e)
      PROVE  Walk(t, e) = IF e \in Paths(t) THEN e ELSE NoTopic
  <2> DEFINE Here(i) == at[i] = IF Seg(e, i) \in Paths(t) THEN Seg(e, i) ELSE NoTopic
             Q == {i \in 0 .. Len(e) : Here(i)}
  <2>1. 0 \in Q
    BY <1>1, <1>2, <1>3
  <2>2. ASSUME NEW i \in 1 .. Len(e), i - 1 \in Q PROVE i \in Q
    <3>1. /\ i \in 0 .. Len(e) /\ i - 1 \in 0 .. Len(e) /\ Here(i - 1) /\ e[i] \in Tokens
          /\ Alone(t, Seg(e, i - 1), e[i]) /\ Seg(e, i) = Append(Seg(e, i - 1), e[i])
          /\ Seg(e, i - 1) \in Path /\ Seg(e, i) \in Path
      BY <1>2, <1>7, <2>2, ExactSteps
    <3>2. CASE Seg(e, i - 1) \notin Paths(t)
      <4>1. at[i] = NoTopic
        BY <1>1, <3>1, <3>2
      <4>2. Seg(e, i) \notin Paths(t)
        <5>1. IsPrefix(Seg(e, i - 1), Seg(e, i))
          BY <3>1, PrefixOfAppended, PrefixOrder DEF Path
        <5> QED
          BY <3>1, <3>2, <5>1 DEF Closed
      <4>3. Here(i)
        BY <4>1, <4>2
      <4> QED
        BY <3>1, <4>3
    <3>3. CASE Seg(e, i - 1) \in Paths(t)
      <4>1. at[i - 1] = Seg(e, i - 1) /\ at[i - 1] # NoTopic
        BY <1>3, <3>1, <3>3
      <4>2. at[i] = getChildByName(t, Seg(e, i - 1), e[i])
        BY <1>1, <4>1
      <4>3. Here(i)
        BY <3>1, <3>3, <4>2, ChildIs
      <4> QED
        BY <3>1, <4>3
    <3> QED
      BY <3>2, <3>3
  <2>3. Here(Len(e))
    <3> HIDE DEF Q, Here
    <3>1. \A i \in 0 .. Len(e) : i \in Q
      BY <1>2, <2>1, <2>2, UpTo
    <3> QED
      BY <1>2, <3>1 DEF Q
  <2> QED
    BY <1>1, <1>2, <2>3
<1> QED
  BY <1>1, <1>2, <1>6, <1>7

\* The tokens of a topic come from expressions whose first token its first name answers to.
From(p, X) == \A x \in Range(p) : \E y \in X : y # <<>> /\ x \in Range(y) /\ Matches(p[1], y[1])

\* The branch of an expression that meets no row template is the expression's beginnings.
LEMMA BranchFollows ==
  ASSUME NEW t, t \in Trees, Children(t), NEW e \in Path
  PROVE  /\ \A i \in 1 .. Len(e) :
              Row \notin Range(Above(Branch(t, e), i)) /\ Branch(t, e)[i] \notin Paths(t)
              => Branch(t, e)[i] = Seg(e, i)
         /\ Exact(t, e) => \A i \in 1 .. Len(e) : Branch(t, e)[i] = Seg(e, i)
         /\ \A X : (\A p \in Paths(t) : From(p, X)) /\ e \in X =>
              \A i \in 1 .. Len(e) : From(Branch(t, e)[i], X)
<1> DEFINE b == Branch(t, e)
<1> PICK at : BranchOf(at, t, e)
  BY BranchSteps
<1>1. /\ b = [i \in 1 .. Len(e) |-> at[i]] /\ at[0] = <<>>
      /\ \A i \in 0 .. Len(e) : at[i] \in Path
      /\ \A i \in 1 .. Len(e) : at[i] = Next1(t, at[i - 1], e[i])
  BY DEF BranchOf
<1>2. /\ Len(e) \in Nat /\ \A i \in 1 .. Len(e) : e[i] \in Tokens /\ e[i] \in Range(e)
      /\ Seg(e, 0) = <<>>
      /\ \A i \in 1 .. Len(e) : Seg(e, i) = Append(Seg(e, i - 1), e[i])
  BY Segments
<1> HIDE DEF b
<1>3. ASSUME NEW i \in 1 .. Len(e)
      PROVE  /\ i \in 0 .. Len(e) /\ i - 1 \in 0 .. Len(e) /\ b[i] = at[i]
             /\ at[i - 1] \in Path /\ at[i] \in Path /\ e[i] \in Tokens /\ e[i] \in Range(e)
             /\ at[i] \in Paths(t) \/ at[i] = Append(at[i - 1], e[i])
             /\ at[i] = Append(at[i - 1], e[i]) \/ (Row \in Tokens /\ at[i] = Append(at[i - 1], Row))
             /\ Alone(t, at[i - 1], e[i]) => at[i] = Append(at[i - 1], e[i])
             /\ Above(b, i) = at[i - 1]
             /\ \A x \in Tokens : Range(Append(at[i - 1], x)) = Range(at[i - 1]) \cup {x}
  <2>1. /\ i \in 0 .. Len(e) /\ i - 1 \in 0 .. Len(e) /\ b[i] = at[i] /\ e[i] \in Tokens
        /\ e[i] \in Range(e)
    BY <1>1, <1>2
  <2>2. at[i - 1] \in Path /\ at[i] \in Path /\ at[i] = Next1(t, at[i - 1], e[i])
    BY <1>1, <2>1
  <2>3. /\ at[i - 1] \notin Paths(t) \/ getChildByName(t, at[i - 1], e[i]) = NoTopic
           => at[i] = Append(at[i - 1], e[i])
        /\ at[i - 1] \in Paths(t) /\ getChildByName(t, at[i - 1], e[i]) # NoTopic
           => at[i] = getChildByName(t, at[i - 1], e[i])
    BY <2>2 DEF Next1, Paths
  <2>4. ASSUME at[i - 1] \in Paths(t), getChildByName(t, at[i - 1], e[i]) # NoTopic
        PROVE  /\ at[i] \in Paths(t)
               /\ at[i] = Append(at[i - 1], e[i]) \/ (Row \in Tokens /\ at[i] = Append(at[i - 1], Row))
               /\ Alone(t, at[i - 1], e[i]) => at[i] = Append(at[i - 1], e[i])
    <3>1. at[i] = getChildByName(t, at[i - 1], e[i])
      BY <2>3, <2>4
    <3>2. at[i] \in Paths(t)
      BY <2>4, <3>1, ChildFound
    <3>3. at[i] = Append(at[i - 1], e[i]) \/ (Row \in Tokens /\ at[i] = Append(at[i - 1], Row))
      BY <2>1, <2>4, <3>1, ChildIs
    <3>4. Alone(t, at[i - 1], e[i]) => at[i] = Append(at[i - 1], e[i])
      BY <2>1, <2>4, <3>1, ChildIs
    <3> QED
      BY <3>2, <3>3, <3>4
  <2>5. /\ at[i] \in Paths(t) \/ at[i] = Append(at[i - 1], e[i])
        /\ at[i] = Append(at[i - 1], e[i]) \/ (Row \in Tokens /\ at[i] = Append(at[i - 1], Row))
        /\ Alone(t, at[i - 1], e[i]) => at[i] = Append(at[i - 1], e[i])
    BY <2>3, <2>4
  <2>6. Above(b, i) = at[i - 1]
    <3>1. CASE i = 1
      BY <3>1, <1>1 DEF Above
    <3>2. CASE i # 1
      <4>1. i - 1 \in 1 .. Len(e)
        BY <1>2, <3>2
      <4> QED
        BY <1>1, <3>2, <4>1 DEF Above
    <3> QED
      BY <3>1, <3>2
  <2>7. \A x \in Tokens : Range(Append(at[i - 1], x)) = Range(at[i - 1]) \cup {x}
    BY <2>2, PathRange
  <2> QED
    BY <2>1, <2>2, <2>5, <2>6, <2>7
<1> DEFINE Plain(i) == Row \in Range(at[i]) \/ at[i] = Seg(e, i)
           P == {i \in 0 .. Len(e) : Plain(i)}
<1>4. \A i \in 0 .. Len(e) : i \in P
  <2>1. 0 \in P
    BY <1>1, <1>2
  <2>2. ASSUME NEW i \in 1 .. Len(e), i - 1 \in P PROVE i \in P
    <3>1. Plain(i - 1)
      BY <2>2
    <3>2. Plain(i)
      BY <1>2, <1>3, <3>1
    <3> QED
      BY <1>3, <3>2
  <2> HIDE DEF P
  <2> QED
    BY <1>2, <2>1, <2>2, UpTo
<1>5. ASSUME NEW i \in 1 .. Len(e), Row \notin Range(Above(b, i)), b[i] \notin Paths(t)
      PROVE  b[i] = Seg(e, i)
  <2>1. Plain(i - 1)
    BY <1>3, <1>4
  <2>2. at[i - 1] = Seg(e, i - 1) /\ at[i] = Append(at[i - 1], e[i]) /\ b[i] = at[i]
    BY <1>3, <1>5, <2>1
  <2> QED
    BY <1>2, <2>2
<1>6. ASSUME Exact(t, e)
      PROVE  \A i \in 1 .. Len(e) : b[i] = Seg(e, i)
  <2> DEFINE Q == {i \in 0 .. Len(e) : at[i] = Seg(e, i)}
  <2>1. 0 \in Q
    BY <1>1, <1>2
  <2>2. ASSUME NEW i \in 1 .. Len(e), i - 1 \in Q PROVE i \in Q
    <3>1. at[i - 1] = Seg(e, i - 1) /\ Alone(t, Seg(e, i - 1), e[i])
      BY <1>6, <2>2, ExactSteps
    <3>2. at[i] = Append(at[i - 1], e[i]) /\ i \in 0 .. Len(e)
      BY <1>3, <3>1
    <3> QED
      BY <1>2, <3>1, <3>2
  <2>3. \A i \in 0 .. Len(e) : i \in Q
    <3> HIDE DEF Q
    <3> QED
      BY <1>2, <2>1, <2>2, UpTo
  <2> QED
    BY <1>3, <2>3
<1>7. ASSUME NEW X, \A p \in Paths(t) : From(p, X), e \in X
      PROVE  \A i \in 1 .. Len(e) : From(b[i], X)
  <2> DEFINE Good(i) == From(at[i], X) /\ (i # 0 => at[i] # <<>> /\ Matches(at[i][1], e[1]))
             Q == {i \in 0 .. Len(e) : Good(i)}
  <2>1. 0 \in Q
    BY <1>1, <1>2 DEF From, Range
  <2>2. ASSUME NEW i \in 1 .. Len(e), i - 1 \in Q PROVE i \in Q
    <3>1. i \in 0 .. Len(e) /\ Good(i - 1) /\ at[i - 1] \in Path /\ e[i] \in Tokens
      BY <1>3, <2>2
    <3>2. PICK z \in Tokens : at[i] = Append(at[i - 1], z) /\ Matches(z, e[i])
      <4>1. CASE at[i] = Append(at[i - 1], e[i])
        BY <3>1, <4>1 DEF Matches
      <4>2. CASE at[i] # Append(at[i - 1], e[i])
        <5>1. Row \in Tokens /\ at[i] = Append(at[i - 1], Row)
          BY <1>3, <4>2
        <5>2. e[i] \in RowTokens
          BY <1>3, <4>2 DEF Alone
        <5> QED
          BY <5>1, <5>2 DEF Matches
      <4> QED
        BY <4>1, <4>2
    <3>3. /\ at[i] # <<>> /\ Range(at[i]) = Range(at[i - 1]) \cup {z}
          /\ at[i - 1] = <<>> => at[i][1] = z
          /\ at[i - 1] # <<>> => at[i][1] = at[i - 1][1]
      <4>1. /\ Append(at[i - 1], z) # <<>> /\ Last(Append(at[i - 1], z)) = z
            /\ Len(Append(at[i - 1], z)) = Len(at[i - 1]) + 1
            /\ \A j \in 1 .. Len(at[i - 1]) : Append(at[i - 1], z)[j] = at[i - 1][j]
        BY <3>1, Appended DEF Path
      <4>2. /\ Len(at[i - 1]) \in Nat
            /\ at[i - 1] = <<>> => Len(at[i - 1]) = 0
            /\ at[i - 1] # <<>> => 1 \in 1 .. Len(at[i - 1])
        BY <3>1, EmptySeq, LenProperties DEF Path
      <4>3. Range(at[i]) = Range(at[i - 1]) \cup {z}
        BY <3>1, <3>2, PathRange
      <4>4. at[i - 1] = <<>> => at[i][1] = z
        BY <3>2, <4>1, <4>2 DEF Last
      <4> QED
        BY <3>2, <4>1, <4>2, <4>3, <4>4
    <3>4. Matches(at[i][1], e[1])
      <4>1. CASE i = 1
        <5>1. at[i - 1] = <<>>
          BY <1>1, <4>1
        <5> QED
          BY <3>2, <3>3, <4>1, <5>1
      <4>2. CASE i # 1
        <5>1. i - 1 # 0
          BY <4>2
        <5> QED
          BY <3>1, <3>3, <5>1
      <4> QED
        BY <4>1, <4>2
    <3>5. From(at[i], X)
      <4>1. CASE at[i] \in Paths(t)
        BY <1>7, <4>1
      <4>2. CASE at[i] = Append(at[i - 1], e[i])
        <5>1. Range(at[i]) = Range(at[i - 1]) \cup {e[i]}
          BY <1>3, <4>2
        <5>2. ASSUME NEW x \in Range(at[i - 1])
              PROVE  \E y \in X : y # <<>> /\ x \in Range(y) /\ Matches(at[i][1], y[1])
          <6>1. at[i - 1] # <<>>
            BY <5>2 DEF Range
          <6> QED
            BY <3>1, <3>3, <5>2, <6>1 DEF From
        <5>3. e # <<>> /\ e[i] \in Range(e)
          BY <1>2, EmptySeq
        <5> QED
          BY <1>7, <3>4, <5>1, <5>2, <5>3 DEF From
      <4> QED
        BY <1>3, <4>1, <4>2
    <3> HIDE DEF Good
    <3>6. Good(i)
      BY <3>3, <3>4, <3>5 DEF Good
    <3> QED
      BY <3>1, <3>6
  <2>3. \A i \in 0 .. Len(e) : i \in Q
    <3> HIDE DEF Q
    <3> QED
      BY <1>2, <2>1, <2>2, UpTo
  <2> QED
    BY <1>3, <2>3
<1> QED
  BY <1>5, <1>6, <1>7 DEF b

-----------------------------------------------------------------------------
(* Who is registered where.                                                *)

\* Topics go, and none becomes a table.
Fewer(t, r) == /\ Paths(r) \subseteq Paths(t)
               /\ \A p \in Paths(r) : r.topic[p].isTable = t.topic[p].isTable

LEMMA RemoveRouteHolds ==
  ASSUME NEW t, TreeOK(t), NEW route
  PROVE  /\ Fewer(t, RemoveRoute(t, route))
         /\ \A p, k : Holds(RemoveRoute(t, route), p, k) <=> Holds(t, p, k) /\ k # route
<1>1. t \in Trees /\ Live(t) /\ OneHandle(t) /\ Paths(t) \subseteq Path
  BY TreesAre DEF TreeOK
<1>2. CASE ~HasTreeRoute(t, route)
  <2>1. RemoveRoute(t, route) = t
    BY <1>2 DEF RemoveRoute
  <2>2. \A p, k : Holds(t, p, k) => k # route
    BY <1>1, <1>2 DEF Holds, Live, HasTreeRoute, Handles
  <2> QED
    BY <2>1, <2>2 DEF Fewer
<1>3. CASE HasTreeRoute(t, route)
  <2> DEFINE h == getTreeRoute(t, route)
             r == RemoveRoute(t, route)
  <2>1. WithoutRoute(t, h, r)
    BY <1>3, RemoveRouteLeaves
  <2>2. h \in Handles(t) /\ h[1] = route
    BY <1>3 DEF HasTreeRoute, getTreeRoute, Handles
  <2> HIDE DEF h, r
  <2>3. Paths(r) \subseteq Path /\ <<>> \in Paths(t)
    BY <2>1, TreesAre DEF WithoutRoute, TreeOK, Closed
  <2>4. Fewer(t, r)
    BY <2>1, <2>3 DEF Fewer, WithoutRoute
  <2>5. ASSUME NEW p, NEW k, Holds(r, p, k) PROVE Holds(t, p, k) /\ k # route
    <3>1. p \in Paths(r) /\ p \in Paths(t) /\ p # <<>>
      BY <2>4, <2>5 DEF Holds, Fewer
    <3>2. PICK g \in At(r, p) : g[1] = k
      BY <2>5 DEF Holds
    <3>3. g \in At(t, p) /\ g # h
      BY <2>1, <3>1, <3>2 DEF WithoutRoute
    <3>4. g[1] # route
      BY <1>1, <2>2, <3>1, <3>3 DEF Live, OneHandle
    <3> QED
      BY <3>1, <3>2, <3>3, <3>4 DEF Holds
  <2>6. ASSUME NEW p, NEW k, Holds(t, p, k), k # route PROVE Holds(r, p, k)
    <3>1. p \in Paths(t) /\ p # <<>> /\ p \in Path
      BY <1>1, <2>6 DEF Holds
    <3>2. PICK g \in At(t, p) : g[1] = k
      BY <2>6 DEF Holds
    <3>3. g \in At(t, p) \ {h}
      BY <2>2, <2>6, <3>2
    <3>4. IsPrefix(p, p)
      BY <3>1, PrefixOrder DEF Path
    <3>5. p \in Paths(r)
      BY <2>1, <3>1, <3>3, <3>4 DEF WithoutRoute
    <3>6. g \in At(r, p)
      BY <2>1, <3>3, <3>5 DEF WithoutRoute
    <3> QED
      BY <3>1, <3>2, <3>5, <3>6 DEF Holds
  <2> QED
    BY <2>4, <2>5, <2>6 DEF r
<1> QED
  BY <1>2, <1>3

\* The topics that are still open to no alias: those with a route at or below them.
Pruned(t, r) == Shut(r) = {p \in Shut(t) : \E q, k : Holds(r, q, k) /\ IsPrefix(p, q)}

LEMMA RemoveRoutePrunes ==
  ASSUME NEW t, TreeOK(t), NEW route
  PROVE  IF HasTreeRoute(t, route) THEN Pruned(t, RemoveRoute(t, route))
         ELSE RemoveRoute(t, route) = t
<1>1. CASE ~HasTreeRoute(t, route)
  BY <1>1 DEF RemoveRoute
<1>2. CASE HasTreeRoute(t, route)
  <2> DEFINE h == getTreeRoute(t, route)
             r == RemoveRoute(t, route)
  <2>1. WithoutRoute(t, h, r) /\ Paths(t) \subseteq Path /\ <<>> \in Paths(t)
    BY <1>2, RemoveRouteLeaves, TreesAre DEF TreeOK, Closed
  <2> HIDE DEF h, r
  <2>2. r \in Trees /\ Paths(r) \subseteq Path
    BY <2>1, TreesAre DEF WithoutRoute
  <2>3. \A p \in Paths(r) : p = <<>> \/ p \in Paths(t)
    BY <2>1, <2>2 DEF WithoutRoute
  <2>4. \A p \in Paths(r) : At(r, p) = At(t, p) \ {h} /\ r.topic[p].listed = t.topic[p].listed
    BY <2>1 DEF WithoutRoute
  <2>5. ASSUME NEW p \in Shut(r)
        PROVE  p \in Shut(t) /\ \E q, k : Holds(r, q, k) /\ IsPrefix(p, q)
    <3>1. p \in Paths(r) /\ p # <<>> /\ p \in Paths(t) /\ p \in Path /\ r.topic[p].listed
      BY <2>1, <2>3, <2>5 DEF Shut
    <3>2. PICK q \in Paths(t) : IsPrefix(p, q) /\ At(t, q) \ {h} # {}
      BY <2>1, <3>1 DEF WithoutRoute
    <3>3. q \in Path /\ IsPrefix(q, q)
      BY <2>1, PrefixOrder DEF Path
    <3>4. q \in Paths(r)
      BY <2>1, <3>2, <3>3 DEF WithoutRoute
    <3>5. q # <<>>
      BY <3>1, <3>2, PrefixOrder DEF Path
    <3>6. PICK g \in At(r, q) : TRUE
      BY <2>4, <3>2, <3>4
    <3>7. Holds(r, q, g[1])
      BY <3>4, <3>5, <3>6 DEF Holds
    <3> QED
      BY <2>4, <3>1, <3>2, <3>7 DEF Shut
  <2>6. ASSUME NEW p \in Shut(t), NEW q, NEW k, Holds(r, q, k), IsPrefix(p, q)
        PROVE  p \in Shut(r)
    <3>1. p \in Paths(t) /\ p # <<>> /\ p \in Path /\ t.topic[p].listed
      BY <2>1 DEF Shut
    <3>2. q \in Paths(r) /\ q \in Paths(t) /\ At(r, q) # {}
      BY <2>1, <2>3, <2>6 DEF Holds
    <3>3. p \in Paths(r)
      BY <2>1, <2>4, <2>6, <3>1, <3>2 DEF WithoutRoute
    <3> QED
      BY <2>4, <3>1, <3>3 DEF Shut
  <2>7. Pruned(t, r)
    BY <2>5, <2>6 DEF Pruned
  <2> QED
    BY <1>2, <2>7 DEF r
<1> QED
  BY <1>1, <1>2

\* The topic that is removed is that of the expression, or on the way to it is a row
\* template.
LEMMA RemoveTopicHolds ==
  ASSUME NEW t, TreeOK(t), NEW e \in Path
  PROVE  /\ Fewer(t, RemoveTopic(t, e))
         /\ \A p, k : Holds(RemoveTopic(t, e), p, k) => Holds(t, p, k)
         /\ \A p, k : Holds(t, p, k) /\ Row \notin Range(p) /\ ~IsPrefix(e, p)
                      => Holds(RemoveTopic(t, e), p, k)
         /\ Exact(t, e) =>
              \A p, k : Holds(RemoveTopic(t, e), p, k) => e = <<>> \/ ~IsPrefix(e, p)
         /\ Exact(t, e) /\ e # <<>> =>
              Shut(RemoveTopic(t, e)) = {p \in Shut(t) : ~IsPrefix(e, p)}
<1> DEFINE parent == Walk(t, Front(e))
           topic == IF parent = NoTopic THEN NoTopic
                    ELSE getChildByName(t, parent, Last(e))
           r == RemoveTopic(t, e)
<1>1. r = IF e = <<>> THEN t
          ELSE IF topic = NoTopic THEN t
          ELSE IF Last(topic) # Last(e) THEN t
          ELSE FreeTopic(t, topic)
  BY DEF RemoveTopic
<1>2. t \in Trees /\ Closed(t) /\ Children(t) /\ Paths(t) \subseteq Path /\ NoTopic \notin Path
  BY TreesAre, ExpressionAssumption DEF TreeOK, Path
<1>3. Fewer(t, t)
  BY DEF Fewer
<1>4. CASE e = <<>>
  BY <1>1, <1>3, <1>4
<1>5. CASE e # <<>>
  <2>1. /\ Front(e) \in Path /\ Last(e) \in Tokens /\ e = Append(Front(e), Last(e))
        /\ IsPrefix(Front(e), e)
    <3>1. Front(e) \in Path /\ Last(e) \in Tokens /\ e = Append(Front(e), Last(e))
      BY <1>5, FrontAndLast DEF Path
    <3>2. IsPrefix(Front(e), Front(e))
      BY <3>1, PrefixOrder DEF Path
    <3> QED
      BY <3>1, <3>2, PrefixOfAppended DEF Path
  <2>2. parent = NoTopic \/ (parent \in Paths(t) /\ parent \in Path)
    BY <1>2, <2>1, WalkFinds
  <2>3. parent # NoTopic /\ Row \notin Range(parent) => parent = Front(e)
    BY <1>2, <2>1, WalkIs
  <2>6. Exact(t, e) => Alone(t, Front(e), Last(e)) /\ Exact(t, Front(e))
    <3>1. IsPrefix(e, e)
      BY PrefixOrder DEF Path
    <3> QED
      BY <2>1, <3>1, ExactSteps DEF Exact
  <2> HIDE DEF parent
  <2>4. CASE topic = NoTopic
    <3>1. r = t
      BY <1>1, <2>4
    <3>2. ASSUME Exact(t, e) PROVE e \notin Paths(t)
      <4>2. Alone(t, Front(e), Last(e)) /\ Exact(t, Front(e))
        BY <2>6, <3>2
      <4>3. parent = IF Front(e) \in Paths(t) THEN Front(e) ELSE NoTopic
        BY <1>2, <2>1, <4>2, WalkIs DEF parent
      <4>4. CASE Front(e) \notin Paths(t)
        BY <1>2, <2>1, <4>4 DEF Closed
      <4>5. CASE Front(e) \in Paths(t)
        <5>1. parent = Front(e) /\ getChildByName(t, Front(e), Last(e)) = NoTopic
          BY <1>2, <2>1, <2>4, <4>3, <4>5
        <5> QED
          BY <1>2, <2>1, <4>2, <4>5, <5>1, ChildIs
      <4> QED
        BY <4>4, <4>5
    <3>3. ASSUME e \notin Paths(t), NEW p, NEW k, Holds(t, p, k) PROVE ~IsPrefix(e, p)
      BY <1>2, <3>3 DEF Holds, Closed
    <3>4. e \notin Paths(t) => \A p \in Paths(t) : ~IsPrefix(e, p)
      BY <1>2 DEF Closed
    <3>5. e \notin Paths(t) => Shut(t) = {p \in Shut(t) : ~IsPrefix(e, p)}
      BY <3>4 DEF Shut
    <3> QED
      BY <1>3, <3>1, <3>2, <3>3, <3>5
  <2>5. CASE topic # NoTopic
    <3>1. /\ parent # NoTopic /\ parent \in Paths(t) /\ parent \in Path
          /\ topic = getChildByName(t, parent, Last(e)) /\ topic \in Paths(t) /\ topic \in Path
      <4>1. parent # NoTopic /\ topic = getChildByName(t, parent, Last(e))
        BY <2>5
      <4>2. topic \in Paths(t)
        BY <1>2, <2>2, <2>5, <4>1, ChildFound
      <4> QED
        BY <1>2, <2>2, <4>1, <4>2
    <3>2. topic = Append(parent, Last(e)) \/ (Row \in Tokens /\ topic = Append(parent, Row))
      BY <1>2, <2>1, <2>5, <3>1, ChildIs
    <3>3. \A x \in Tokens : Range(Append(parent, x)) = Range(parent) \cup {x}
      BY <3>1, PathRange
    <3>4. topic # <<>> /\ (Row \notin Range(topic) => topic = e)
      <4>1. topic # <<>>
        BY <2>1, <3>1, <3>2, Appended DEF Path
      <4>2. ASSUME Row \notin Range(topic) PROVE topic = e
        BY <2>1, <2>3, <3>1, <3>2, <3>3, <4>2
      <4> QED
        BY <4>1, <4>2
    <3>5. ASSUME Exact(t, e) PROVE topic = e
      <4>2. Alone(t, Front(e), Last(e)) /\ Exact(t, Front(e))
        BY <2>6, <3>5
      <4>3. parent = Front(e)
        BY <1>2, <2>1, <3>1, <4>2, WalkIs DEF parent
      <4> QED
        BY <1>2, <2>1, <2>5, <3>1, <4>2, <4>3, ChildIs
    <3> HIDE DEF topic
    <3>6. CASE Last(topic) # Last(e)
      <4>1. r = t
        BY <1>1, <1>5, <2>5, <3>6
      <4>2. ~Exact(t, e)
        BY <3>5, <3>6
      <4> QED
        BY <1>3, <4>1, <4>2
    <3>7. CASE Last(topic) = Last(e)
      <4>1. r = FreeTopic(t, topic)
        BY <1>1, <1>5, <2>5, <3>7
      <4>2. WithoutTopic(t, topic, r)
        BY <3>1, <3>4, <4>1, FreeTopicLeaves
      <4> HIDE DEF r
      <4>3. /\ Paths(r) = {p \in Paths(t) : ~IsPrefix(topic, p)}
            /\ \A p \in Paths(r) : At(r, p) = At(t, p)
        BY <4>2 DEF WithoutTopic, At
      <4>4. Fewer(t, r)
        BY <4>2, <4>3 DEF Fewer, WithoutTopic
      <4>5. \A p, k : Holds(r, p, k) <=> Holds(t, p, k) /\ ~IsPrefix(topic, p)
        BY <4>3 DEF Holds
      <4>6. ASSUME NEW p, NEW k, Holds(t, p, k), Row \notin Range(p), ~IsPrefix(e, p)
            PROVE  ~IsPrefix(topic, p)
        <5>1. p \in Path
          BY <1>2, <4>6 DEF Holds
        <5>2. IsPrefix(topic, p) => Row \notin Range(topic)
          BY <3>1, <4>6, <5>1, PathRange
        <5> QED
          BY <3>4, <4>6, <5>2
      <4>7. ASSUME Exact(t, e), NEW p, NEW k, Holds(r, p, k)
            PROVE  ~IsPrefix(e, p)
        BY <3>5, <4>5, <4>7
      <4>8. ASSUME Exact(t, e) PROVE Shut(r) = {p \in Shut(t) : ~IsPrefix(e, p)}
        <5>1. topic = e /\ \A p \in Paths(r) : r.topic[p].listed = t.topic[p].listed
          BY <3>5, <4>2, <4>8 DEF WithoutTopic
        <5> QED
          BY <4>3, <5>1 DEF Shut
      <4> QED
        BY <4>4, <4>5, <4>6, <4>7, <4>8 DEF r
    <3> QED
      BY <3>6, <3>7
  <2> QED
    BY <2>4, <2>5
<1> QED
  BY <1>4, <1>5


-----------------------------------------------------------------------------
(* Expressions that nobody disturbs.                                       *)

\* What the clients of a workload register.
Registrable(w) == w.listeners \cup w.aliases \cup Inboxes

\* Topics are made of the tokens of what is registered; above the first row template
\* they are on the way to a registered expression, and so is a table's row template.
OnTheWay(t, X) ==
  \A p \in Paths(t) :
    /\ From(p, X)
    /\ p # <<>> /\ Row \notin Range(Front(p)) => \E x \in X : IsPrefix(p, x)
    /\ t.topic[p].isTable /\ Row \notin Range(p) => \E x \in X : IsPrefix(Append(p, Row), x)

\* No alias is at or above the expression, and what is registered has no row template
\* below a topic on the way to it.
Undisturbed(w, x) ==
  /\ x # <<>> /\ Row \notin Range(x)
  /\ \A a \in w.aliases : ~IsPrefix(a, x)
  /\ \A y \in Registrable(w), p \in Path : IsPrefix(p, x) => ~IsPrefix(Append(p, Row), y)

\* Removing topics keeps the others on their way.
LEMMA FewerOnTheWay ==
  ASSUME NEW t, NEW r, NEW X, OnTheWay(t, X), Fewer(t, r)
  PROVE  OnTheWay(r, X)
BY DEF OnTheWay, Fewer

\* So does adding those of a registered expression.
LEMMA AddedOnTheWay ==
  ASSUME NEW t, TreeOK(t), NEW X \in SUBSET Path, OnTheWay(t, X), NEW e \in X, NEW route, NEW r,
         WithBranch(t, Branch(t, e), route, r), r \in Trees
  PROVE  OnTheWay(r, X)
<1> DEFINE b == Branch(t, e)
<1>1. e \in Path /\ t \in Trees /\ Children(t) /\ Paths(t) \subseteq Path /\ Paths(r) \subseteq Path
  BY TreesAre DEF TreeOK
<1>2. Grows(b, Len(e)) /\ Len(e) \in Nat
  BY <1>1, BranchGrows, Segments
<1> HIDE DEF b
<1>3. /\ b \in Seq(Path) /\ Len(b) = Len(e) /\ Range(b) \subseteq Path /\ <<>> \notin Range(b)
      /\ DOMAIN b = 1 .. Len(e)
  BY <1>2, BranchIs, LenProperties
<1>4. ASSUME NEW q \in Range(b)
      PROVE  /\ From(q, X)
             /\ q \in Path /\ q # <<>> /\ q = Append(Front(q), Last(q)) /\ Front(q) \in Path
             /\ Row \notin Range(Front(q)) /\ q \notin Paths(t) => IsPrefix(q, e)
  <2>1. PICK i \in 1 .. Len(e) : q = b[i]
    BY <1>3 DEF Range
  <2>2. q \in Path /\ q # <<>> /\ q = Append(Front(q), Last(q)) /\ Front(q) \in Path
    BY <1>3, FrontAndLast DEF Path
  <2>3. From(q, X)
    <3>1. \A p \in Paths(t) : From(p, X)
      BY DEF OnTheWay
    <3> QED
      BY <1>1, <2>1, <3>1, BranchFollows DEF b
  <2>4. Front(q) = Above(b, i)
    <3>1. PICK x \in Tokens : q = Append(Above(b, i), x)
      BY <1>2, <2>1 DEF Grows
    <3>2. Above(b, i) \in Path
      <4>1. CASE i = 1
        BY <4>1, EmptySeq DEF Above, Path
      <4>2. CASE i # 1
        <5>1. i - 1 \in 1 .. Len(e)
          BY <1>2, <4>2
        <5> QED
          BY <1>2, <4>2, <5>1 DEF Above, Grows
      <4> QED
        BY <4>1, <4>2
    <3> QED
      BY <3>1, <3>2, Appended DEF Path
  <2>5. ASSUME Row \notin Range(Front(q)), q \notin Paths(t) PROVE IsPrefix(q, e)
    <3>1. q = Seg(e, i)
      BY <1>1, <2>1, <2>4, <2>5, BranchFollows DEF b
    <3>2. i \in 0 .. Len(e)
      BY <1>2
    <3> QED
      BY <1>1, <3>1, <3>2, Segments
  <2> QED
    BY <2>2, <2>3, <2>5
<1>5. ASSUME NEW p \in Paths(r)
      PROVE  /\ From(p, X)
             /\ p # <<>> /\ Row \notin Range(Front(p)) => \E x \in X : IsPrefix(p, x)
             /\ r.topic[p].isTable /\ Row \notin Range(p) => \E x \in X : IsPrefix(Append(p, Row), x)
  <2>1. p \in Paths(t) \/ (p \in Range(b) /\ p \notin Paths(t))
    BY DEF WithBranch, b
  <2>2. From(p, X)
    BY <1>4, <2>1 DEF OnTheWay
  <2>3. p # <<>> /\ Row \notin Range(Front(p)) => \E x \in X : IsPrefix(p, x)
    BY <1>4, <2>1 DEF OnTheWay
  <2>4. ASSUME r.topic[p].isTable, Row \notin Range(p)
        PROVE  \E x \in X : IsPrefix(Append(p, Row), x)
    <3>1. CASE p \in Paths(t) /\ t.topic[p].isTable
      BY <2>4, <3>1 DEF OnTheWay
    <3>2. CASE \E q \in Range(b) \ Paths(t) : Front(q) = p /\ Last(q) = Row
      <4>1. PICK q \in Range(b) : q \notin Paths(t) /\ Front(q) = p /\ Last(q) = Row
        BY <3>2
      <4> QED
        BY <1>4, <2>4, <4>1
    <3> QED
      BY <2>4, <3>1, <3>2 DEF WithBranch, b
  <2> QED
    BY <2>2, <2>3, <2>4
<1> QED
  BY <1>5 DEF OnTheWay

\* A path that a name was appended to is its parent's, and the name is a token.
LEMMA AppendedPath ==
  ASSUME NEW p \in Path, NEW x
  PROVE  /\ Append(p, x) # <<>> /\ Front(Append(p, x)) = p /\ Last(Append(p, x)) = x
         /\ Append(p, x) \in Path => x \in Tokens
<1> DEFINE S == Tokens \cup {x}
<1>1. Tokens \subseteq S /\ x \in S /\ Len(p) \in Nat
  BY LenProperties DEF Path
<1> HIDE DEF S
<1>3. p \in Seq(S)
  BY <1>1, SeqMonotonic DEF Path
<1>4. /\ Append(p, x) # <<>> /\ Front(Append(p, x)) = p /\ Last(Append(p, x)) = x
      /\ Len(Append(p, x)) = Len(p) + 1
  BY <1>1, <1>3, Appended
<1>5. ASSUME Append(p, x) \in Path PROVE x \in Tokens
  <2>1. Append(p, x)[Len(p) + 1] = x
    BY <1>4 DEF Last
  <2>2. Len(p) + 1 \in 1 .. Len(Append(p, x))
    BY <1>1, <1>4
  <2>3. Append(p, x)[Len(p) + 1] \in Tokens
    BY <1>5, <2>2, ElementOfSeq DEF Path
  <2> QED
    BY <2>1, <2>3
<1> QED
  BY <1>4, <1>5

\* The lookup of such an expression is exact, and ends at a topic that is no table.
LEMMA UndisturbedIs ==
  ASSUME NEW t, TreeOK(t), NEW w, OnTheWay(t, Registrable(w)), NEW x \in Path, Undisturbed(w, x)
  PROVE  Exact(t, x) /\ (x \in Paths(t) => ~t.topic[x].isTable)
<1>1. ASSUME NEW p \in Path, NEW y \in Tokens, IsPrefix(Append(p, y), x)
      PROVE  Append(p, Row) \notin Paths(t)
  <2> SUFFICES ASSUME Append(p, Row) \in Paths(t) PROVE FALSE
    OBVIOUS
  <2>1. IsPrefix(p, x)
    <3>1. Append(p, y) \in Path /\ IsPrefix(p, p)
      BY Appended, PrefixOrder DEF Path
    <3>2. IsPrefix(p, Append(p, y))
      BY <3>1, PrefixOfAppended DEF Path
    <3> QED
      BY <1>1, <3>1, <3>2, PrefixOrder DEF Path
  <2>2. Range(p) \subseteq Range(x)
    BY <2>1, PathRange
  <2>3. Append(p, Row) # <<>> /\ Front(Append(p, Row)) = p
    BY AppendedPath
  <2> QED
    BY <2>1, <2>2, <2>3 DEF OnTheWay, Undisturbed
<1>2. Exact(t, x)
  BY <1>1 DEF Exact, Alone
<1>3. ASSUME x \in Paths(t), t.topic[x].isTable PROVE FALSE
  <2>1. IsPrefix(x, x)
    BY PrefixOrder DEF Path
  <2> QED
    BY <1>3, <2>1 DEF OnTheWay, Undisturbed
<1> QED
  BY <1>2, <1>3


\* An insertion that meets no row template ends at the topic of its expression.
LEMMA BranchEnds ==
  ASSUME NEW t, TreeOK(t), NEW e \in Path, e # <<>>, Exact(t, e)
  PROVE  Last(Branch(t, e)) = e
<1>1. t \in Trees /\ Children(t)
  BY DEF TreeOK
<1>2. Len(e) \in Nat /\ Len(e) # 0 /\ Seg(e, Len(e)) = e
  BY EmptySeq, Segments DEF Path
<1>3. Len(Branch(t, e)) = Len(e)
  BY <1>1, <1>2, BranchGrows, BranchIs
<1>4. Len(e) \in 1 .. Len(e)
  BY <1>2
<1>5. Branch(t, e)[Len(e)] = Seg(e, Len(e))
  BY <1>1, <1>4, BranchFollows
<1> QED
  BY <1>2, <1>3, <1>5 DEF Last


\* When a client goes, its routes leave every topic and the others stay.
LEMMA ClearClientRoutesHolds ==
  ASSUME NEW t, TreeOK(t), NEW c, Len(routes) \in Nat
  PROVE  /\ Fewer(t, ClearClientRoutes(t, c))
         /\ \A p, k : Holds(ClearClientRoutes(t, c), p, k) <=>
              /\ Holds(t, p, k)
              /\ \A i \in 1 .. Len(routes) : routes[i].client = c => k # Key(routes[i])
<1> PICK after : ClearOf(after, t, c)
  BY ClearSteps
<1>1. /\ after[0] = t /\ ClearClientRoutes(t, c) = after[Len(routes)]
      /\ \A i \in 1 .. Len(routes) :
           after[i] = IF routes[i].client = c THEN RemoveRoute(after[i-1], Key(routes[i]))
                      ELSE after[i-1]
  BY DEF ClearOf
<1> DEFINE Mine(i) == {Key(routes[j]) : j \in {j \in 1 .. i : routes[j].client = c}}
           Good(i) == /\ TreeOK(after[i]) /\ Fewer(t, after[i])
                      /\ \A p, k : Holds(after[i], p, k) <=> Holds(t, p, k) /\ k \notin Mine(i)
           P == {i \in 0 .. Len(routes) : Good(i)}
<1>2. 0 \in P
  <2>1. Mine(0) = {} /\ Fewer(t, t)
    BY DEF Fewer
  <2> HIDE DEF Mine
  <2> QED
    BY <1>1, <2>1
<1>3. ASSUME NEW i \in 1 .. Len(routes), i - 1 \in P PROVE i \in P
  <2>1. Good(i - 1) /\ i \in 0 .. Len(routes)
    BY <1>3
  <2>2. Mine(i) = Mine(i - 1) \cup IF routes[i].client = c THEN {Key(routes[i])} ELSE {}
    <3>1. 1 .. i = 1 .. i - 1 \cup {i}
      OBVIOUS
    <3>2. \A x : x \in Mine(i) <=> x \in Mine(i - 1) \/ (routes[i].client = c /\ x = Key(routes[i]))
      BY <3>1
    <3> HIDE DEF Mine
    <3> QED
      BY <3>2
  <2>3. CASE routes[i].client # c
    <3>1. after[i] = after[i - 1]
      BY <1>1, <2>3
    <3> HIDE DEF Mine
    <3>2. Good(i)
      BY <2>1, <2>2, <2>3, <3>1
    <3> QED
      BY <2>1, <3>2
  <2>4. CASE routes[i].client = c
    <3>1. after[i] = RemoveRoute(after[i - 1], Key(routes[i]))
      BY <1>1, <2>4
    <3> HIDE DEF Mine
    <3>2. TreeOK(after[i])
      BY <2>1, <3>1, RemoveRouteOK
    <3>3. /\ Fewer(after[i - 1], after[i])
          /\ \A p, k : Holds(after[i], p, k) <=> Holds(after[i - 1], p, k) /\ k # Key(routes[i])
      BY <2>1, <3>1, RemoveRouteHolds
    <3>4. Fewer(t, after[i])
      BY <2>1, <3>3 DEF Fewer
    <3>5. Good(i)
      BY <2>1, <2>2, <2>4, <3>2, <3>3, <3>4
    <3> QED
      BY <2>1, <3>5
  <2> QED
    BY <2>3, <2>4
<1>4. Good(Len(routes))
  <2> HIDE DEF P, Good
  <2>1. \A i \in 0 .. Len(routes) : i \in P
    BY <1>2, <1>3, UpTo
  <2> QED
    BY <2>1 DEF P
<1> QED
  BY <1>1, <1>4

\* The topics are pruned when one of its routes was in the tree.
LEMMA ClearClientRoutesPrunes ==
  ASSUME NEW t, TreeOK(t), NEW c, Len(routes) \in Nat
  PROVE  ClearClientRoutes(t, c) = t \/ Pruned(t, ClearClientRoutes(t, c))
<1> PICK after : ClearOf(after, t, c)
  BY ClearSteps
<1>1. /\ after[0] = t /\ ClearClientRoutes(t, c) = after[Len(routes)]
      /\ \A i \in 1 .. Len(routes) :
           after[i] = IF routes[i].client = c THEN RemoveRoute(after[i-1], Key(routes[i]))
                      ELSE after[i-1]
  BY DEF ClearOf
<1> DEFINE Good(i) == TreeOK(after[i]) /\ (after[i] = t \/ Pruned(t, after[i]))
           P == {i \in 0 .. Len(routes) : Good(i)}
<1>2. 0 \in P
  BY <1>1
<1>3. ASSUME NEW i \in 1 .. Len(routes), i - 1 \in P PROVE i \in P
  <2>1. Good(i - 1) /\ i \in 0 .. Len(routes)
    BY <1>3
  <2> PICK s, u, key : s = after[i - 1] /\ u = after[i] /\ key = Key(routes[i])
    OBVIOUS
  <2>2. u = s \/ u = RemoveRoute(s, key)
    BY <1>1
  <2>3. CASE u = s
    BY <2>1, <2>3
  <2>4. CASE u = RemoveRoute(s, key) /\ u # s
    <3>1. TreeOK(s) /\ (s = t \/ Pruned(t, s))
      BY <2>1
    <3>2. TreeOK(u) /\ Pruned(s, u)
      BY <2>4, <3>1, RemoveRouteOK, RemoveRoutePrunes
    <3>3. \A q, k : Holds(u, q, k) => Holds(s, q, k)
      BY <2>4, <3>1, RemoveRouteHolds
    <3>4. Pruned(t, u)
      BY <3>1, <3>2, <3>3 DEF Pruned
    <3> QED
      BY <2>1, <3>2, <3>4
  <2> QED
    BY <2>2, <2>3, <2>4
<1>4. Good(Len(routes))
  <2> HIDE DEF P, Good
  <2>1. \A i \in 0 .. Len(routes) : i \in P
    BY <1>2, <1>3, UpTo
  <2> QED
    BY <2>1 DEF P
<1> QED
  BY <1>1, <1>4

-----------------------------------------------------------------------------
(* Where the routes of the vector are.                                     *)

\* An entry whose expression nobody disturbs is in the tree, at that topic.
ReachInv ==
  /\ RouterInv
  /\ \A r \in Range(routes) : r.expression \in Registrable(uses)
  /\ OnTheWay(tree, Registrable(uses))
  /\ \A r \in Range(routes) :
       Undisturbed(uses, r.expression) => Holds(tree, r.expression, Key(r))

\* What is registered are paths.
LEMMA RegistrablePaths ==
  ASSUME RouterInv
  PROVE  Registrable(uses) \in SUBSET Path /\ Registrable(uses) \subseteq Expressions
<1>1. uses.listeners \subseteq Expressions /\ uses.aliases \subseteq Expressions
      /\ Expressions \subseteq Path
  BY ExpressionsArePaths
<1>2. Inboxes \subseteq Expressions
  BY DEF Expressions
<1> QED
  BY <1>1, <1>2 DEF Registrable

LEMMA ReachInit == Init => ReachInv
<1> SUFFICES ASSUME Init PROVE ReachInv
  OBVIOUS
<1>1. Range(routes) = {} /\ tree = EmptyTree
  BY DEF Init, Range
<1>2. Paths(tree) = {<<>>} /\ tree.topic[<<>>] = NewTopic
  BY <1>1 DEF EmptyTree, Paths
<1>3. Range(<<>>) = {}
  BY DEF Range
<1>4. OnTheWay(tree, Registrable(uses))
  BY <1>2, <1>3, NewTopicIs DEF OnTheWay, From
<1> QED
  BY <1>1, <1>4, RouterInit DEF ReachInv

\* Steps that leave the tree and the vector alone.
LEMMA SendingReaches ==
  ASSUME ReachInv, RouterInv', UNCHANGED <<routes, tree, uses>>
  PROVE  ReachInv'
BY DEF ReachInv

LEMMA DisconnectReaches ==
  ASSUME ReachInv, RouterInv', NEW c \in Clients, Disconnect(c), UNCHANGED uses
  PROVE  ReachInv'
<1>1. routes \in Seq(Entry) /\ TreeOK(tree) /\ OneEntry
  BY DEF ReachInv, RouterInv
<1>2. /\ routes' = Keep(routes, {r \in Range(routes) : r.client # c})
      /\ tree' = ClearClientRoutes(tree, c) /\ uses' = uses
  BY DEF Disconnect
<1>3. Range(routes') = {r \in Range(routes) : r.client # c}
  BY <1>1, <1>2, Kept
<1>4. Len(routes) \in Nat /\ DOMAIN routes = 1 .. Len(routes)
  BY <1>1, LenProperties
<1>5. /\ Fewer(tree, tree')
      /\ \A p, k : Holds(tree', p, k) <=>
           /\ Holds(tree, p, k)
           /\ \A i \in 1 .. Len(routes) : routes[i].client = c => k # Key(routes[i])
  BY <1>1, <1>2, <1>4, ClearClientRoutesHolds
<1>6. OnTheWay(tree', Registrable(uses))
  BY <1>5, FewerOnTheWay DEF ReachInv
<1>7. ASSUME NEW r \in Range(routes'), Undisturbed(uses, r.expression)
      PROVE  Holds(tree', r.expression, Key(r))
  <2>1. r \in Range(routes) /\ r.client # c
    BY <1>3
  <2>2. Holds(tree, r.expression, Key(r))
    BY <1>7, <2>1 DEF ReachInv
  <2>3. ASSUME NEW i \in 1 .. Len(routes), routes[i].client = c PROVE Key(r) # Key(routes[i])
    <3>1. routes[i] \in Range(routes)
      BY <1>4 DEF Range
    <3> QED
      BY <1>1, <2>1, <2>3, <3>1 DEF OneEntry
  <2> QED
    BY <1>5, <2>2, <2>3
<1> QED
  BY <1>2, <1>3, <1>6, <1>7 DEF ReachInv

\* The expression of a new entry is its topic.
LEMMA AddRouteReaches ==
  ASSUME ReachInv, RouterInv', NEW c \in Clients, NEW x \in Registrable(uses), NEW id \in RouteIds,
         AddRoute(c, x, id, FALSE), UNCHANGED uses
  PROVE  ReachInv'
<1> DEFINE entry == [client |-> c, id |-> id, expression |-> x]
           added == AddTopicRoute(tree, x, <<c, id>>, FALSE)
<1>1. routes \in Seq(Entry) /\ TreeOK(tree) /\ Owned /\ RouterInv
  BY DEF ReachInv, RouterInv
<1>2. /\ <<c, id>> \notin Keys /\ routes' = Append(routes, entry) /\ tree' = added.tree
      /\ uses' = uses
  BY DEF AddRoute
<1>3. Registrable(uses) \in SUBSET Path /\ x \in Expressions /\ x \in Path
  BY <1>1, RegistrablePaths
<1>4. entry \in Entry /\ Key(entry) = <<c, id>> /\ entry.expression = x
  BY <1>3 DEF Entry, Key
<1> HIDE DEF entry
<1>5. Range(routes') = Range(routes) \cup {entry}
  BY <1>1, <1>2, <1>4, AppendedRange
<1>6. ~HasTreeRoute(tree, <<c, id>>)
  BY <1>1, <1>2 DEF HasTreeRoute, Owned, Handles
<1>7. IF x = <<>> THEN SameTopics(tree, tree')
      ELSE WithBranch(tree, Branch(tree, x), <<c, id>>, tree')
  <2>1. <<c, id>> \in Route /\ ~Refused(tree, x, Last(Branch(tree, x)), FALSE)
    BY DEF Route, Refused
  <2> QED
    BY <1>1, <1>2, <1>3, <1>6, <2>1, AddTopicRouteOK
<1>8. OnTheWay(tree', Registrable(uses)) /\ \A p, k : Holds(tree, p, k) => Holds(tree', p, k)
  <2>1. CASE x = <<>>
    BY <1>7, <2>1 DEF ReachInv, SameTopics, OnTheWay, Holds, At
  <2>2. CASE x # <<>>
    <3>1. tree' \in Trees /\ OnTheWay(tree, Registrable(uses))
      BY DEF ReachInv, RouterInv, TreeOK
    <3>2. WithBranch(tree, Branch(tree, x), <<c, id>>, tree')
      BY <1>7, <2>2
    <3>3. OnTheWay(tree', Registrable(uses))
      BY <1>1, <1>3, <3>1, <3>2, AddedOnTheWay
    <3> QED
      BY <3>2, <3>3 DEF WithBranch
  <2> QED
    BY <2>1, <2>2
<1>9. ASSUME Undisturbed(uses, x) PROVE Holds(tree', x, <<c, id>>)
  <2>1. x # <<>> /\ Exact(tree, x)
    BY <1>1, <1>3, <1>9, UndisturbedIs DEF ReachInv, Undisturbed
  <2>2. Last(Branch(tree, x)) = x
    BY <1>1, <1>3, <2>1, BranchEnds
  <2> QED
    BY <1>7, <2>1, <2>2 DEF WithBranch
<1>10. ASSUME NEW r \in Range(routes'), Undisturbed(uses, r.expression)
       PROVE  Holds(tree', r.expression, Key(r))
  <2>1. CASE r = entry
    BY <1>4, <1>9, <1>10, <2>1
  <2>2. CASE r \in Range(routes)
    BY <1>8, <1>10, <2>2 DEF ReachInv
  <2> QED
    BY <1>5, <2>1, <2>2
<1> QED
  BY <1>2, <1>4, <1>5, <1>8, <1>10 DEF ReachInv

\* An alias adds to what is there.
LEMMA AddAliasReaches ==
  ASSUME ReachInv, RouterInv', NEW c \in Clients, NEW x \in Registrable(uses), x # Advisory,
         NEW id \in RouteIds, AddAlias(c, x, id, TRUE), UNCHANGED uses
  PROVE  ReachInv'
<1>1. TreeOK(tree) /\ RouterInv
  BY DEF ReachInv, RouterInv
<1>2. UNCHANGED <<routes, uses>> /\ tree' = AddTopicRoute(tree, x, <<c, id>>, TRUE).tree
  BY DEF AddAlias
<1>3. Registrable(uses) \in SUBSET Path /\ x \in Path /\ <<c, id>> \in Route
  BY <1>1, RegistrablePaths DEF Route
<1>4. \/ SameTopics(tree, tree')
      \/ WithBranch(tree, Branch(tree, x), <<c, id>>, tree')
  BY <1>1, <1>2, <1>3, AddTopicRouteOK
<1>5. OnTheWay(tree', Registrable(uses)) /\ \A p, k : Holds(tree, p, k) => Holds(tree', p, k)
  <2>1. CASE SameTopics(tree, tree')
    BY <2>1 DEF ReachInv, SameTopics, OnTheWay, Holds, At
  <2>2. CASE WithBranch(tree, Branch(tree, x), <<c, id>>, tree')
    <3>1. tree' \in Trees /\ OnTheWay(tree, Registrable(uses))
      BY DEF ReachInv, RouterInv, TreeOK
    <3>2. OnTheWay(tree', Registrable(uses))
      BY <1>1, <1>3, <2>2, <3>1, AddedOnTheWay
    <3> QED
      BY <2>2, <3>2 DEF WithBranch
  <2> QED
    BY <1>4, <2>1, <2>2
<1> QED
  BY <1>2, <1>5 DEF ReachInv


\* A listener's own expression takes its route out, any other is an alias.
LEMMA UnsubscribeReaches ==
  ASSUME ReachInv, RouterInv', NEW c \in Clients, NEW x \in Removable(c),
         Unsubscribe(c, x, FALSE), UNCHANGED uses
  PROVE  ReachInv'
<1>1. routes \in Seq(Entry) /\ TreeOK(tree) /\ OneEntry /\ RouterInv
      /\ OnTheWay(tree, Registrable(uses))
  BY DEF ReachInv, RouterInv
<1>2. x \in Path
  BY <1>1, ExpressionsArePaths
<1>3. CASE OwnRoutes(c, x) # <<>>
  <2> PICK r : r = Head(OwnRoutes(c, x))
    OBVIOUS
  <2>1. ClearRoute(r)
    BY <1>3 DEF Unsubscribe
  <2>2. r \in Range(routes)
    <3>1. /\ OwnRoutes(c, x) \in Seq(Entry)
          /\ Range(OwnRoutes(c, x)) \subseteq Range(routes)
      BY <1>1, Kept DEF OwnRoutes
    <3>2. 1 \in DOMAIN OwnRoutes(c, x) /\ r = OwnRoutes(c, x)[1]
      BY <1>3, <3>1, EmptySeq, LenProperties
    <3> QED
      BY <3>1, <3>2 DEF Range
  <2>3. Range(routes') = Range(routes) \ {r}
    BY <1>1, <2>1, Kept DEF ClearRoute
  <2>4. /\ Fewer(tree, tree')
        /\ \A p, k : Holds(tree', p, k) <=> Holds(tree, p, k) /\ k # Key(r)
    BY <1>1, <2>1, RemoveRouteHolds DEF ClearRoute
  <2>5. OnTheWay(tree', Registrable(uses))
    BY <1>1, <2>4, FewerOnTheWay
  <2>6. ASSUME NEW q \in Range(routes'), Undisturbed(uses, q.expression)
        PROVE  Holds(tree', q.expression, Key(q))
    <3>1. q \in Range(routes) /\ Key(q) # Key(r)
      BY <1>1, <2>2, <2>3 DEF OneEntry
    <3> QED
      BY <2>4, <2>6, <3>1 DEF ReachInv
  <2> QED
    BY <2>3, <2>5, <2>6 DEF ReachInv
<1>4. CASE OwnRoutes(c, x) = <<>>
  <2>1. tree' = RemoveTopic(tree, x) /\ routes' = routes
    BY <1>4 DEF Unsubscribe
  <2>2. x \in uses.aliases
    <3>1. ASSUME NEW r \in Range(routes), r.client = c, r.expression = x PROVE FALSE
      <4>1. Range(OwnRoutes(c, x)) =
              Range(routes) \cap {q \in Range(routes) : q.client = c /\ q.expression = x}
        BY <1>1, Kept DEF OwnRoutes
      <4>2. Range(OwnRoutes(c, x)) = {}
        BY <1>4 DEF Range
      <4> QED
        BY <3>1, <4>1, <4>2
    <3> QED
      BY <3>1 DEF Removable
  <2>3. /\ Fewer(tree, tree')
        /\ \A p, k : Holds(tree, p, k) /\ Row \notin Range(p) /\ ~IsPrefix(x, p)
                     => Holds(tree', p, k)
    BY <1>1, <1>2, <2>1, RemoveTopicHolds
  <2>4. OnTheWay(tree', Registrable(uses))
    BY <1>1, <2>3, FewerOnTheWay
  <2>5. ASSUME NEW r \in Range(routes), Undisturbed(uses, r.expression)
        PROVE  Holds(tree', r.expression, Key(r))
    <3>1. Row \notin Range(r.expression) /\ ~IsPrefix(x, r.expression)
      BY <2>2, <2>5 DEF Undisturbed
    <3>2. Holds(tree, r.expression, Key(r))
      BY <2>5 DEF ReachInv
    <3> QED
      BY <2>3, <3>1, <3>2
  <2> QED
    BY <2>1, <2>4, <2>5 DEF ReachInv
<1> QED
  BY <1>3, <1>4

LEMMA ReachStep ==
  ASSUME NoAdvisoryAlias, ReachInv, [Next]_vars
  PROVE  ReachInv'
<1>0. RouterInv /\ RouterInv'
  BY RouterStep DEF ReachInv
<1>1. CASE UNCHANGED vars
  BY <1>0, <1>1, SendingReaches DEF vars
<1>2. CASE Next
  <2>0. UNCHANGED uses /\ uses \in Workloads
    BY <1>0, <1>2 DEF Next, RouterInv
  <2>1. /\ uses.ids \subseteq RouteIds
        /\ uses.listeners \subseteq Registrable(uses) /\ uses.aliases \subseteq Registrable(uses)
        /\ \A c \in Clients : InboxOf[c] \in Registrable(uses)
    BY <2>0, InboxAssumption DEF Registrable, Inboxes, Range
  <2> PICK c \in Clients : StepOf(c)
    BY <1>2, StepIs
  <2>2. CASE \/ Accept(c) \/ BadSubscribe(c)
             \/ \E x \in uses.topics, partial, request \in BOOLEAN : Dispatch(c, x, partial, request)
             \/ \E x \in uses.topics : Discover(c, x)
    BY <1>0, <2>0, <2>2, SendingReaches DEF Accept, BadSubscribe, Dispatch, Discover
  <2>3. CASE Disconnect(c)
    BY <1>0, <2>0, <2>3, DisconnectReaches
  <2>4. CASE \E id \in uses.ids, x \in uses.listeners \cup {InboxOf[c]} : AddRoute(c, x, id, FALSE)
    BY <1>0, <2>0, <2>1, <2>4, AddRouteReaches
  <2>5. CASE \E id \in uses.ids, x \in uses.aliases : AddAlias(c, x, id, TRUE)
    <3> PICK id \in uses.ids, x \in uses.aliases : AddAlias(c, x, id, TRUE)
      BY <2>5
    <3>1. id \in RouteIds /\ x \in Registrable(uses) /\ x # Advisory
      BY <2>0, <2>1 DEF NoAdvisoryAlias
    <3> QED
      BY <1>0, <2>0, <3>1, AddAliasReaches
  <2>6. CASE \E x \in Removable(c) : Unsubscribe(c, x, FALSE)
    BY <1>0, <2>0, <2>6, UnsubscribeReaches
  <2> QED
    BY <2>2, <2>3, <2>4, <2>5, <2>6 DEF StepOf
<1> QED
  BY <1>1, <1>2

LEMMA ReachInvariant ==
  ASSUME NoAdvisoryAlias
  PROVE  Spec => []ReachInv
<1>1. ReachInv /\ [Next]_vars => ReachInv'
  BY ReachStep
<1> QED
  BY <1>1, ReachInit, PTL DEF Spec

\* A message to an undisturbed expression goes to the routes at its topic.
LEMMA UndisturbedRoutes ==
  ASSUME ReachInv, NEW x \in Path, Undisturbed(uses, x)
  PROVE  GetTopicRoutes(tree, x, FALSE) =
           IF x \in Paths(tree) THEN tree.topic[x].routeList ELSE <<>>
<1>1. /\ TreeOK(tree) /\ OnTheWay(tree, Registrable(uses))
      /\ tree \in Trees /\ Closed(tree) /\ Children(tree)
  BY DEF ReachInv, RouterInv, TreeOK
<1>2. x # <<>> /\ Exact(tree, x) /\ (x \in Paths(tree) => ~tree.topic[x].isTable)
  BY <1>1, UndisturbedIs DEF Undisturbed
<1>3. Walk(tree, x) = IF x \in Paths(tree) THEN x ELSE NoTopic
  BY <1>1, <1>2, WalkIs
<1>4. x # NoTopic
  BY ExpressionAssumption DEF Path
<1> QED
  BY <1>2, <1>3, <1>4 DEF GetTopicRoutes

\* An entry of the vector gets what is sent to its undisturbed expression.
LEMMA UndisturbedReached ==
  ASSUME ReachInv, NEW r \in Range(routes), Undisturbed(uses, r.expression)
  PROVE  \E h \in Range(GetTopicRoutes(tree, r.expression, FALSE)) :
           h[1] = Key(r) /\ h \in Handles(tree)
<1>1. r.expression \in Path
  BY RegistrablePaths DEF ReachInv
<1>2. Holds(tree, r.expression, Key(r))
  BY DEF ReachInv
<1>3. Range(GetTopicRoutes(tree, r.expression, FALSE)) = At(tree, r.expression)
  BY <1>1, <1>2, UndisturbedRoutes DEF Holds, At
<1>4. Live(tree)
  BY DEF ReachInv, RouterInv, TreeOK
<1> QED
  BY <1>2, <1>3, <1>4 DEF Holds, Live


\* What goes through a name has it among its tokens.
LEMMA NamedBelow ==
  ASSUME NEW p \in Path, NEW x, NEW q \in Path, IsPrefix(Append(p, x), q)
  PROVE  x \in Range(q)
<1> DEFINE S == Tokens \cup {x}
<1>1. Tokens \subseteq S /\ x \in S
  OBVIOUS
<1> HIDE DEF S
<1>2. p \in Seq(S) /\ q \in Seq(S)
  BY <1>1, SeqMonotonic DEF Path
<1> DEFINE a == Append(p, x)
<1>3. a \in Seq(S) /\ Len(a) = Len(p) + 1 /\ Last(a) = x /\ Len(p) \in Nat
  BY <1>1, <1>2, Appended, LenProperties
<1> HIDE DEF a
<1>4. Len(a) <= Len(q) /\ \A i \in 1 .. Len(a) : a[i] = q[i]
  <2>1. IsPrefix(a, q)
    BY DEF a
  <2> QED
    BY <1>2, <1>3, <2>1, Prefix
<1>5. Len(a) \in DOMAIN q /\ q[Len(a)] = x
  <2>1. DOMAIN q = 1 .. Len(q) /\ Len(q) \in Nat
    BY <1>2, LenProperties
  <2>2. Len(a) \in 1 .. Len(a)
    BY <1>3
  <2> QED
    BY <1>3, <1>4, <2>1, <2>2 DEF Last
<1> QED
  BY <1>5 DEF Range

\* What a lookup returns is the list of a topic, whose tree routes are allocated.
LEMMA RoutesListed ==
  ASSUME ReachInv, NEW x \in Path, GetTopicRoutes(tree, x, FALSE) # <<>>
  PROVE  \E h \in Range(GetTopicRoutes(tree, x, FALSE)) : h \in Handles(tree)
<1>1. TreeOK(tree) /\ tree \in Trees /\ Closed(tree) /\ Children(tree) /\ Live(tree)
  BY DEF ReachInv, RouterInv, TreeOK
<1> DEFINE topic == Walk(tree, x)
           row == getChildByName(tree, topic, Row)
<1>2. GetTopicRoutes(tree, x, FALSE) =
        IF x = <<>> \/ topic = NoTopic THEN <<>>
        ELSE IF ~tree.topic[topic].isTable THEN tree.topic[topic].routeList
        ELSE IF row = NoTopic THEN <<>> ELSE tree.topic[row].routeList
  BY DEF GetTopicRoutes
<1>3. topic = NoTopic \/ topic \in Paths(tree)
  BY <1>1, WalkFinds
<1>4. x # <<>> => topic # <<>>
  BY <1>1, WalkFinds
<1> HIDE DEF topic
<1>5. topic \in Paths(tree) => row = NoTopic \/ (row \in Paths(tree) /\ row # <<>>)
  <2>1. ASSUME topic \in Paths(tree), NEW y \in Tokens PROVE Append(topic, y) # <<>>
    BY <1>1, <2>1, AppendedPath, TopicIs
  <2> QED
    BY <1>1, <2>1, ChildFound
<1> HIDE DEF row
<1>6. \E p \in Paths(tree) : p # <<>> /\ GetTopicRoutes(tree, x, FALSE) = tree.topic[p].routeList
  BY <1>2, <1>3, <1>4, <1>5
<1> PICK p \in Paths(tree) : p # <<>> /\ GetTopicRoutes(tree, x, FALSE) = tree.topic[p].routeList
  BY <1>6
<1>7. tree.topic[p].routeList \in Seq(Handle) /\ tree.topic[p].routeList # <<>>
  BY <1>1, TopicIs
<1>8. At(tree, p) # {}
  BY <1>7, NoElements DEF At
<1> QED
  BY <1>1, <1>8 DEF At, Live

-----------------------------------------------------------------------------
(* The properties of lookups.                                              *)

\* A listener's entry and its topic come and go together: whatever other clients
\* register, remove and leave behind, a message to the listener's expression goes to
\* it.  An expression has a token, and an inbox is not a row template's topic
\* (rtRouted_OnMessageSubscribe, rtRoutingTree_RemoveTopic and the pruning of
\* removeRouteFromTopicTree).
THEOREM ListenersReachable ==
  ASSUME NoAdvisoryAlias, <<>> \notin Expressions,
         \A c \in Clients : Row \notin Range(InboxOf[c])
  PROVE  Spec => []ListenerReachable
<1>1. ReachInv => ListenerReachable
  <2> SUFFICES ASSUME ReachInv, NEW r \in Range(routes), NoRows,
                      \A x \in uses.aliases : ~IsPrefix(x, r.expression)
               PROVE  \E h \in Range(GetTopicRoutes(tree, r.expression, FALSE)) : h[1] = Key(r)
    BY DEF ListenerReachable
  <2>1. r.expression \in Registrable(uses) /\ Registrable(uses) \in SUBSET Path
        /\ Registrable(uses) \subseteq Expressions
    BY RegistrablePaths DEF ReachInv
  <2>2. \A y \in Inboxes : Row \notin Range(y)
    BY InboxAssumption DEF Inboxes, Range
  <2>3. \A y \in Registrable(uses) : Row \notin Range(y)
    BY <2>2 DEF NoRows, Registrable
  <2>4. \A y \in Registrable(uses), p \in Path : ~IsPrefix(Append(p, Row), y)
    BY <2>1, <2>3, NamedBelow
  <2>5. Undisturbed(uses, r.expression)
    BY <2>1, <2>3, <2>4 DEF Undisturbed
  <2> QED
    BY <2>5, UndisturbedReached
<1> QED
  BY <1>1, ReachInvariant, PTL

\* No request vanishes: as long as nobody disturbs the inboxes, a request of a client
\* that registered its inbox is handed to somebody or turned around
\* (rtRouter_DispatchMessageFromClient).
THEOREM RequestsAnswered ==
  ASSUME NoAdvisoryAlias, \A w \in Workloads, c \in Clients : Undisturbed(w, InboxOf[c])
  PROVE  Spec => RequestNeverDropped
<1>1. ASSUME ReachInv, sent' = {}, NEW c \in Clients, NEW x \in uses.topics,
             NEW r \in Range(routes), r.expression = InboxOf[c], Dispatch(c, x, FALSE, TRUE)
      PROVE  FALSE
  <2>1. uses \in Workloads /\ x \in Path
    <3>1. uses \in Workloads
      BY <1>1 DEF ReachInv, RouterInv
    <3>2. x \in Topics
      BY <3>1 DEF Topics
    <3> QED
      BY <3>1, <3>2, ExpressionAssumption DEF Expressions, Path
  <2>2. Undisturbed(uses, InboxOf[c])
    BY <2>1
  <2>3. \E h \in Range(GetTopicRoutes(tree, InboxOf[c], FALSE)) : h \in Handles(tree)
    BY <1>1, <2>2, UndisturbedReached
  <2>4. \A t, list, content :
          (\E h \in Range(list) : h \in Handles(t)) => ToRoutes(t, list, content, {}) # {}
    BY DEF ToRoutes, Handles
  <2>5. CASE GetTopicRoutes(tree, x, FALSE) # <<>>
    <3>1. sent' = ToRoutes(tree, GetTopicRoutes(tree, x, FALSE), <<"message">>, {})
      BY <1>1, <2>5 DEF Dispatch
    <3>2. \E h \in Range(GetTopicRoutes(tree, x, FALSE)) : h \in Handles(tree)
      BY <1>1, <2>1, <2>5, RoutesListed
    <3> QED
      BY <1>1, <2>4, <3>1, <3>2
  <2>6. CASE GetTopicRoutes(tree, x, FALSE) = <<>>
    <3>1. sent' = ToRoutes(tree, GetTopicRoutes(tree, InboxOf[c], FALSE), <<"undeliverable">>, {})
      BY <1>1, <2>6 DEF Dispatch, Reply, SendMessage
    <3> QED
      BY <1>1, <2>3, <2>4, <3>1
  <2> QED
    BY <2>5, <2>6
<1> DEFINE Answered ==
      \A c \in Clients, x \in uses.topics :
        /\ handled' = <<"dispatch", c, x, FALSE, TRUE>>
        /\ \E r \in Range(routes) : r.client = c /\ r.expression = InboxOf[c]
        => sent' # {}
<1>2. ReachInv /\ Next => Answered
  BY <1>1, HandledIs
<1>3. RequestNeverDropped <=> [][Answered]_vars
  BY DEF RequestNeverDropped
<1> HIDE DEF Answered
<1> QED
  BY <1>2, <1>3, ReachInvariant, PTL DEF Spec

\* A client that goes is announced to every listener of the advisory topic that
\* stays, as long as nobody disturbs that topic (rtConnectedClient_Read,
\* rtRouted_SendAdvisoryMessage).
THEOREM DisconnectsAdvised ==
  ASSUME NoAdvisoryAlias, \A w \in Workloads : Undisturbed(w, Advisory)
  PROVE  Spec => DisconnectAdvised
<1>1. ASSUME ReachInv, [Next]_vars, NEW c \in clients \ clients', NEW r \in Range(routes),
             r.expression = Advisory, r.client # c
      PROVE  <<r.client, r.id, <<"disconnect", c>>>> \in sent'
  <2>1. Disconnect(c)
    <3>1. Next
      BY <1>1 DEF vars
    <3> QED
      BY <1>1, <3>1, StepIs DEF StepOf, Accept, Disconnect, BadSubscribe, AddRoute, AddAlias,
           Unsubscribe, Dispatch, Discover
  <2>2. uses \in Workloads
    BY <1>1 DEF ReachInv, RouterInv
  <2>3. PICK h \in Range(GetTopicRoutes(tree, Advisory, FALSE)) : h[1] = Key(r) /\ h \in Handles(tree)
    BY <1>1, <2>2, UndisturbedReached
  <2>4. sent' = ToRoutes(tree, GetTopicRoutes(tree, Advisory, FALSE), <<"disconnect", c>>, {c})
    BY <2>1 DEF Disconnect, SendAdvisory, SendMessage
  <2>5. h[1][1] = r.client /\ h[1][2] = r.id
    BY <2>3 DEF Key
  <2> QED
    BY <1>1, <2>3, <2>4, <2>5 DEF ToRoutes, Handles
<1> DEFINE Advised ==
      \A c \in clients \ clients' : \A r \in Range(routes) :
        r.expression = Advisory /\ r.client # c
        => <<r.client, r.id, <<"disconnect", c>>>> \in sent'
<1>2. ReachInv /\ [Next]_vars => Advised
  BY <1>1
<1>3. DisconnectAdvised <=> [][Advised]_vars
  BY DEF DisconnectAdvised
<1> HIDE DEF Advised
<1> QED
  BY <1>2, <1>3, ReachInvariant, PTL DEF Spec


\* Where no topic is named like a row, a row's name and the row template's find the
\* same child.
LEMMA RowIsTemplate ==
  ASSUME NEW t, NEW p \in Paths(t), Names(t, p) \cap RowTokens = {}, NEW token
  PROVE  getChildByName(t, p, token) =
           getChildByName(t, p, IF token \in RowTokens THEN Row ELSE token)
<1> DEFINE children == t.topic[p].childList
           other == IF token \in RowTokens THEN Row ELSE token
           hits(x) == {i \in DOMAIN children : Matches(children[i], x)}
<1>1. \A x : getChildByName(t, p, x) = IF hits(x) = {} THEN NoTopic
                                       ELSE Append(p, children[Min(hits(x))])
  BY DEF getChildByName
<1>2. \A i \in DOMAIN children : children[i] \notin RowTokens
  BY DEF Names, Range
<1>3. hits(token) = hits(other)
  BY <1>2, RowAssumption DEF Matches
<1> HIDE DEF hits
<1> QED
  BY <1>1, <1>3

\* Topics that lookups of the expression can pass have no child named like a row.
NoRowName(t, x) == \A p \in Paths(t) :
                     p = <<>> \/ Matches(p[1], x[1]) => Names(t, p) \cap RowTokens = {}

\* So they find the same topics.
LEMMA WalksToTemplate ==
  ASSUME NEW t, TreeOK(t), NEW x \in Path, NoRowName(t, x)
  PROVE  /\ Walk(t, InstanceOf(x)) = Walk(t, x)
         /\ InstanceOf(x) = <<>> <=> x = <<>>
<1> DEFINE y == InstanceOf(x)
           S == Tokens \cup {Row}
<1>1. t \in Trees /\ Closed(t) /\ Children(t)
  BY DEF TreeOK
<1>2. Len(x) \in Nat /\ DOMAIN x = 1 .. Len(x) /\ \A i \in 1 .. Len(x) : x[i] \in Tokens
  BY LenProperties, ElementOfSeq DEF Path
<1>3. y = [i \in 1 .. Len(x) |-> IF x[i] \in RowTokens THEN Row ELSE x[i]]
  BY <1>2 DEF InstanceOf
<1> HIDE DEF y
<1>4. y \in [1 .. Len(x) -> S]
  BY <1>2, <1>3
<1>5. y \in Seq(S) /\ Len(y) = Len(x)
  BY <1>2, <1>4, IsASeq, LenProperties
<1>6. y = <<>> <=> x = <<>>
  BY <1>2, <1>5, EmptySeq DEF Path
<1> PICK at : WalkOf(at, t, x)
  BY <1>1, <1>2, WalkSteps
<1> PICK by : WalkOf(by, t, y)
  BY <1>1, <1>2, <1>5, WalkSteps
<1> DEFINE Passed(p) == p \in Paths(t) /\ (p = <<>> \/ Matches(p[1], x[1]))
           P == {i \in 0 .. Len(x) : /\ by[i] = at[i] /\ (at[i] = NoTopic \/ Passed(at[i]))
                                     /\ i # 0 => at[i] # <<>>}
<1>7. 0 \in P
  <2>1. at[0] = <<>> /\ by[0] = <<>> /\ <<>> \in Paths(t)
    BY <1>1 DEF WalkOf, Closed
  <2>2. 0 \in 0 .. Len(x)
    BY <1>2
  <2>3. Passed(at[0]) /\ by[0] = at[0]
    BY <2>1
  <2> HIDE DEF Passed
  <2> QED
    BY <2>2, <2>3
<1>8. ASSUME NEW i \in 1 .. Len(x), i - 1 \in P PROVE i \in P
  <2>1. /\ by[i-1] = at[i-1] /\ (at[i-1] = NoTopic \/ Passed(at[i-1]))
        /\ i \in 0 .. Len(x) /\ (i # 1 => at[i-1] # <<>>) /\ (i = 1 => at[i-1] = <<>>)
        /\ <<>> \in Path /\ NoTopic # <<>>
    <3> HIDE DEF Passed
    <3>1. by[i-1] = at[i-1] /\ (at[i-1] = NoTopic \/ Passed(at[i-1]))
      BY <1>8
    <3>2. i - 1 # 0 => at[i-1] # <<>>
      BY <1>8
    <3>3. i \in Nat /\ i \in 0 .. Len(x) /\ (i # 1 => i - 1 # 0) /\ (i = 1 => i - 1 = 0)
      BY <1>2
    <3>4. at[0] = <<>>
      BY DEF WalkOf
    <3>5. <<>> \in Path /\ NoTopic \notin Path
      BY EmptySeq, ExpressionAssumption DEF Path
    <3>6. (i # 1 => at[i-1] # <<>>) /\ (i = 1 => at[i-1] = <<>>)
      BY <3>2, <3>3, <3>4
    <3> QED
      BY <3>1, <3>3, <3>5, <3>6
  <2>2. /\ at[i] = IF at[i-1] = NoTopic THEN NoTopic ELSE getChildByName(t, at[i-1], x[i])
        /\ by[i] = IF at[i-1] = NoTopic THEN NoTopic ELSE getChildByName(t, at[i-1], y[i])
    BY <1>5, <2>1 DEF WalkOf
  <2>3. y[i] = IF x[i] \in RowTokens THEN Row ELSE x[i]
    BY <1>3
  <2>4. CASE at[i-1] = NoTopic
    BY <2>1, <2>2, <2>4
  <2>5. CASE at[i-1] # NoTopic
    <3>1. Passed(at[i-1]) /\ at[i-1] \in Path
      BY <1>1, <2>1, <2>5, TopicIs
    <3>2. Names(t, at[i-1]) \cap RowTokens = {}
      BY <3>1 DEF NoRowName
    <3>3. getChildByName(t, at[i-1], x[i]) = getChildByName(t, at[i-1], y[i])
      BY <2>3, <3>1, <3>2, RowIsTemplate
    <3>4. at[i] = getChildByName(t, at[i-1], x[i]) /\ by[i] = at[i]
      BY <2>2, <2>5, <3>3
    <3> HIDE DEF Passed
    <3>5. at[i] = NoTopic \/ (at[i] \in Paths(t) /\ at[i] # <<>>)
      <4>1. \A z \in Tokens : Append(at[i-1], z) # <<>>
        BY <3>1, AppendedPath
      <4>2. at[i-1] \in Paths(t)
        BY <3>1 DEF Passed
      <4> QED
        BY <1>1, <3>4, <4>1, <4>2, ChildFound
    <3>6. at[i] # NoTopic => Matches(at[i][1], x[1])
      <4> SUFFICES ASSUME at[i] # NoTopic PROVE Matches(at[i][1], x[1])
        OBVIOUS
      <4>1. PICK z \in Tokens : at[i] = Append(at[i-1], z) /\ Matches(z, x[i])
        <5>1. x[i] \in Tokens /\ at[i-1] \in Paths(t)
          BY <1>2, <3>1 DEF Passed
        <5>2. CASE at[i] = Append(at[i-1], x[i])
          BY <5>1, <5>2 DEF Matches
        <5>3. CASE at[i] # Append(at[i-1], x[i])
          <6>1. Row \in Tokens /\ at[i] = Append(at[i-1], Row) /\ x[i] \in RowTokens
            BY <1>1, <3>4, <5>1, <5>3, ChildIs DEF Alone
          <6> QED
            BY <6>1 DEF Matches
        <5> QED
          BY <5>2, <5>3
      <4>2. /\ Len(at[i-1]) \in Nat /\ Len(at[i]) = Len(at[i-1]) + 1 /\ Last(at[i]) = z
            /\ \A j \in 1 .. Len(at[i-1]) : at[i][j] = at[i-1][j]
        BY <3>1, <4>1, Appended, LenProperties DEF Path
      <4>3. CASE i = 1
        <5>1. Len(at[i-1]) = 0
          BY <2>1, <4>3, EmptySeq
        <5>2. at[i][1] = z
          BY <4>2, <5>1 DEF Last
        <5> QED
          BY <4>1, <4>3, <5>2
      <4>4. CASE i # 1
        <5>1. at[i-1] # <<>> /\ Matches(at[i-1][1], x[1])
          BY <2>1, <3>1, <4>4 DEF Passed
        <5>2. 1 \in 1 .. Len(at[i-1])
          BY <3>1, <4>2, <5>1, EmptySeq DEF Path
        <5> QED
          BY <4>2, <5>1, <5>2
      <4> QED
        BY <4>3, <4>4
    <3>7. at[i] = NoTopic \/ Passed(at[i])
      BY <3>5, <3>6 DEF Passed
    <3> QED
      BY <2>1, <3>4, <3>5, <3>7
  <2> QED
    BY <2>4, <2>5
<1>9. by[Len(x)] = at[Len(x)]
  <2> HIDE DEF P
  <2>1. \A i \in 0 .. Len(x) : i \in P
    BY <1>2, <1>7, <1>8, UpTo
  <2> QED
    BY <1>2, <2>1 DEF P
<1>10. Walk(t, y) = Walk(t, x)
  BY <1>5, <1>9 DEF WalkOf
<1> QED
  BY <1>6, <1>10 DEF y

\* Who registers a row by a name of its own begins with another name than the lookups of
\* rows do: an inbox, whose last token is a process id.
RowsUnnamed ==
  \A w \in Workloads : \A x \in w.topics, y \in Registrable(w) :
    Last(x) \in RowTokens /\ Range(y) \cap RowTokens # {}
    => y[1] \notin RowTokens \cup {Row, x[1]}

\* A message to a row of a table goes where a message to the row template's topic
\* goes, as long as nobody registers a row by its own name (getChildByName).
THEOREM RowsAlwaysReachTemplate ==
  ASSUME NoAdvisoryAlias, RowsUnnamed
  PROVE  Spec => []RowsReachTemplate
<1>1. ASSUME ReachInv, NEW x \in uses.topics, Last(x) \in RowTokens
      PROVE  GetTopicRoutes(tree, x, FALSE) = GetTopicRoutes(tree, InstanceOf(x), FALSE)
  <2>1. TreeOK(tree) /\ uses \in Workloads /\ OnTheWay(tree, Registrable(uses))
    BY <1>1 DEF ReachInv, RouterInv
  <2>2. x \in Path
    <3>1. x \in Topics
      BY <2>1 DEF Topics
    <3> QED
      BY <3>1, ExpressionAssumption DEF Expressions, Path
  <2>3. NoRowName(tree, x)
    <3> SUFFICES ASSUME NEW p \in Paths(tree), p = <<>> \/ Matches(p[1], x[1]),
                        NEW name \in Names(tree, p), name \in RowTokens
                 PROVE  FALSE
      BY DEF NoRowName
    <3>1. name \in Tokens /\ p \in Path
      BY <2>1, TopicIs DEF TreeOK
    <3> DEFINE q == Append(p, name)
    <3>2. q \in Paths(tree) /\ name \in Range(q)
      BY <2>1, <3>1, PathRange DEF TreeOK, Children
    <3>3. /\ Len(p) \in Nat /\ Len(q) = Len(p) + 1 /\ Last(q) = name
          /\ \A j \in 1 .. Len(p) : q[j] = p[j]
      BY <3>1, Appended, LenProperties DEF Path
    <3> HIDE DEF q
    <3>4. q[1] = IF p = <<>> THEN name ELSE p[1]
      <4>1. CASE p = <<>>
        BY <3>3, <4>1, EmptySeq DEF Last
      <4>2. CASE p # <<>>
        <5>1. 1 \in 1 .. Len(p)
          BY <3>1, <3>3, <4>2, EmptySeq DEF Path
        <5> QED
          BY <3>3, <4>2, <5>1
      <4> QED
        BY <4>1, <4>2
    <3>5. PICK y \in Registrable(uses) : name \in Range(y) /\ Matches(q[1], y[1])
      BY <2>1, <3>2 DEF OnTheWay, From
    <3>6. y[1] \notin RowTokens \cup {Row, x[1]}
      BY <1>1, <2>1, <3>5 DEF RowsUnnamed
    <3>7. q[1] = y[1]
      BY <3>5, <3>6 DEF Matches
    <3> QED
      BY <3>4, <3>6, <3>7 DEF Matches
  <2>4. Walk(tree, InstanceOf(x)) = Walk(tree, x) /\ (InstanceOf(x) = <<>> <=> x = <<>>)
    BY <2>1, <2>2, <2>3, WalksToTemplate
  <2> QED
    BY <2>4 DEF GetTopicRoutes
<1>2. ReachInv => RowsReachTemplate
  BY <1>1 DEF RowsReachTemplate
<1> QED
  BY <1>2, ReachInvariant, PTL

-----------------------------------------------------------------------------
(* The table of registrations.                                             *)

Grant == [client : Clients, id : RouteIds, topic : Path]
Granted(t) ==
  UNION {{[client |-> h[1][1], id |-> h[1][2], topic |-> p] :
            p \in Range(t.topicList[h])} : h \in DOMAIN t.topicList}

\* The table says which routes are at which topics.
LEMMA GrantedIs ==
  ASSUME NEW t, TreeOK(t)
  PROVE  Granted(t) = {g \in Grant : Holds(t, g.topic, <<g.client, g.id>>)}
<1>1. t \in Trees /\ Agree(t) /\ Live(t) /\ Handles(t) \subseteq Handle /\ Paths(t) \subseteq Path
  BY TreesAre DEF TreeOK
<1>2. ASSUME NEW g \in Granted(t)
      PROVE  g \in Grant /\ Holds(t, g.topic, <<g.client, g.id>>)
  <2>1. PICK h \in Handles(t) :
          g \in {[client |-> h[1][1], id |-> h[1][2], topic |-> p] : p \in Of(t, h)}
    BY <1>2 DEF Granted, Handles, Of
  <2>2. PICK p \in Of(t, h) : g = [client |-> h[1][1], id |-> h[1][2], topic |-> p]
    BY <2>1
  <2>3. h[1] \in Route /\ p \in Path
    BY <1>1, TopicListIs DEF Handle
  <2>4. h[1][1] \in Clients /\ h[1][2] \in RouteIds /\ h[1] = <<h[1][1], h[1][2]>>
    BY <2>3 DEF Route
  <2>5. Holds(t, p, h[1])
    BY <1>1, <2>3 DEF Agree, Holds
  <2> QED
    BY <2>2, <2>3, <2>4, <2>5 DEF Grant
<1>3. ASSUME NEW g \in Grant, Holds(t, g.topic, <<g.client, g.id>>)
      PROVE  g \in Granted(t)
  <2>1. g = [client |-> g.client, id |-> g.id, topic |-> g.topic] /\ g.topic \in Path
    BY DEF Grant
  <2>2. PICK h \in At(t, g.topic) : h[1] = <<g.client, g.id>>
    BY <1>3 DEF Holds
  <2>3. h \in Handles(t) /\ g.topic \in Of(t, h)
    BY <1>1, <1>3, <2>1 DEF Agree, Live, Holds
  <2>4. g = [client |-> h[1][1], id |-> h[1][2], topic |-> g.topic]
    BY <2>1, <2>2
  <2>5. g \in {[client |-> h[1][1], id |-> h[1][2], topic |-> p] : p \in Of(t, h)}
    BY <2>3, <2>4
  <2> QED
    BY <2>3, <2>5 DEF Granted, Handles, Of
<1> QED
  BY <1>2, <1>3

\* The messages among what was sent.
Handed(S) == {[client |-> m[1], id |-> m[2]] : m \in {m \in S : m[3] = <<"message">>}}


\* Replies, advisories and what goes below a partial path are no publications.
Quiet(S) == \A m \in S : m[3] # <<"message">>

LEMMA NothingHanded ==
  ASSUME NEW S, Quiet(S)
  PROVE  Handed(S) = {}
BY DEF Handed, Quiet

LEMMA RepliesQuiet ==
  /\ \A t, c, kind : kind # "message" => Quiet(Reply(t, c, <<kind>>))
  /\ \A t, c, kind, x : Quiet(Reply(t, c, <<kind, x>>))
  /\ \A t, c, event : Quiet(SendAdvisory(t, c, event))
  /\ Quiet({})
<1>1. ASSUME NEW t, NEW topic, NEW skip, NEW content, content # <<"message">>
      PROVE  Quiet(SendMessage(t, topic, content, skip))
  <2>1. \A m \in SendMessage(t, topic, content, skip) : \E a, b : m = <<a, b, content>>
    BY DEF SendMessage, ToRoutes
  <2>2. \A a, b : <<a, b, content>>[3] = content
    OBVIOUS
  <2> QED
    BY <1>1, <2>1, <2>2 DEF Quiet
<1>2. ASSUME NEW kind, kind # "message" PROVE <<kind>> # <<"message">>
  <2>1. \A m : <<kind>> = <<m>> => kind = m
    OBVIOUS
  <2> QED
    BY <1>2, <2>1
<1>3. \A kind, x : <<kind, x>> # <<"message">>
  OBVIOUS
<1>4. \A t, c, kind : kind # "message" => Quiet(Reply(t, c, <<kind>>))
  BY <1>1, <1>2 DEF Reply
<1>5. \A t, c, kind, x : Quiet(Reply(t, c, <<kind, x>>))
  BY <1>1, <1>3 DEF Reply
<1>6. \A t, c, event : Quiet(SendAdvisory(t, c, event))
  BY <1>1, <1>3 DEF SendAdvisory
<1> QED
  BY <1>4, <1>5, <1>6 DEF Quiet

\* Nobody registers a row template.
Plain == NoRows /\ \A c \in Clients : Row \notin Range(InboxOf[c])

\* Then every topic of the tree is the one its own expression finds, and only that.
LEMMA PlainTree ==
  ASSUME ReachInv, Plain
  PROVE  /\ \A p \in Paths(tree) : Row \notin Range(p)
         /\ \A x \in Path :
              /\ Exact(tree, x)
              /\ x # <<>> => GetTopicRoutes(tree, x, FALSE) =
                               IF x \in Paths(tree) THEN tree.topic[x].routeList ELSE <<>>
<1>1. /\ TreeOK(tree) /\ OnTheWay(tree, Registrable(uses))
      /\ tree \in Trees /\ Closed(tree) /\ Children(tree) /\ Paths(tree) \subseteq Path
      /\ Registrable(uses) \in SUBSET Path
  BY RegistrablePaths, TreesAre DEF ReachInv, RouterInv, TreeOK
<1>2. \A y \in Registrable(uses) : Row \notin Range(y)
  <2>1. \A y \in Inboxes : \E c \in Clients : y = InboxOf[c]
    BY InboxAssumption DEF Inboxes, Range
  <2> QED
    BY <2>1 DEF Plain, NoRows, Registrable
<1>3. \A p \in Paths(tree) : Row \notin Range(p)
  BY <1>1, <1>2 DEF OnTheWay, From
<1>4. \A p \in Paths(tree) : ~tree.topic[p].isTable
  <2> SUFFICES ASSUME NEW p \in Paths(tree), tree.topic[p].isTable PROVE FALSE
    OBVIOUS
  <2>1. PICK y \in Registrable(uses) : IsPrefix(Append(p, Row), y)
    BY <1>1, <1>3 DEF OnTheWay
  <2>2. Row \in Range(y)
    BY <1>1, <2>1, NamedBelow
  <2> QED
    BY <1>2, <2>2
<1>5. \A p \in Path : Append(p, Row) \notin Paths(tree)
  <2> SUFFICES ASSUME NEW p \in Path, Append(p, Row) \in Paths(tree) PROVE FALSE
    OBVIOUS
  <2>1. Append(p, Row) \in Path /\ IsPrefix(Append(p, Row), Append(p, Row))
    BY <1>1, PrefixOrder DEF Path
  <2>2. Row \in Range(Append(p, Row))
    BY <2>1, NamedBelow
  <2> QED
    BY <1>3, <2>2
<1> SUFFICES ASSUME NEW x \in Path
             PROVE  /\ Exact(tree, x)
                    /\ x # <<>> => GetTopicRoutes(tree, x, FALSE) =
                                     IF x \in Paths(tree) THEN tree.topic[x].routeList ELSE <<>>
  BY <1>3
<1>6. Exact(tree, x)
  BY <1>5 DEF Exact, Alone
<1>7. Walk(tree, x) = IF x \in Paths(tree) THEN x ELSE NoTopic
  BY <1>1, <1>6, WalkIs
<1>8. x # NoTopic
  BY ExpressionAssumption DEF Path
<1> QED
  BY <1>4, <1>6, <1>7, <1>8 DEF GetTopicRoutes

\* The table of the daemon's tree before and after a step.
LEMMA TableIs ==
  ASSUME RouterInv, RouterInv'
  PROVE  /\ Registered = {g \in Grant : Holds(tree, g.topic, <<g.client, g.id>>)}
         /\ Registered' = {g \in Grant : Holds(tree', g.topic, <<g.client, g.id>>)}
         /\ Delivered' = Handed(sent')
         /\ ClosedTopics = Shut(tree) /\ ClosedTopics' = Shut(tree')
<1>1. TreeOK(tree) /\ TreeOK(tree')
  BY DEF RouterInv
<1>2. Registered = Granted(tree) /\ Registered' = Granted(tree')
  BY DEF Registered, Granted
<1>3. Delivered' = Handed(sent')
  BY DEF Delivered, Handed
<1>4. ClosedTopics = Shut(tree) /\ ClosedTopics' = Shut(tree')
  BY DEF ClosedTopics, Shut, AllTopics, Paths
<1> QED
  BY <1>1, <1>2, <1>3, <1>4, GrantedIs

\* Pruning the topics of the tree opens those of the table that are not used.
LEMMA PrunedIs ==
  ASSUME RouterInv, RouterInv', Pruned(tree, tree')
  PROVE  ClosedTopics' = Table!StillUsed(Registered')
<1>1. TreeOK(tree') /\ tree' \in Trees /\ Live(tree') /\ Paths(tree') \subseteq Path
      /\ Handles(tree') \subseteq Handle
  BY TreesAre DEF RouterInv, TreeOK
<1>2. ASSUME NEW q, NEW k, Holds(tree', q, k)
      PROVE  \E g \in Registered' : g.topic = q
  <2>1. q \in Paths(tree') /\ q # <<>> /\ q \in Path
    BY <1>1, <1>2 DEF Holds
  <2>2. PICK h \in At(tree', q) : h[1] = k
    BY <1>2 DEF Holds
  <2>3. k \in Route
    BY <1>1, <2>1, <2>2 DEF Live, Handle
  <2>4. k[1] \in Clients /\ k[2] \in RouteIds /\ k = <<k[1], k[2]>>
    BY <2>3 DEF Route
  <2> DEFINE g == [client |-> k[1], id |-> k[2], topic |-> q]
  <2>5. g \in Grant /\ g.topic = q /\ <<g.client, g.id>> = k
    BY <2>1, <2>4 DEF Grant
  <2> HIDE DEF g
  <2>6. g \in Registered'
    BY <1>2, <2>5, TableIs
  <2> QED
    BY <2>5, <2>6
<1>3. \A g \in Registered' : Holds(tree', g.topic, <<g.client, g.id>>)
  BY TableIs
<1>4. \A p : (\E q, k : Holds(tree', q, k) /\ IsPrefix(p, q)) <=>
              \E g \in Registered' : IsPrefix(p, g.topic)
  BY <1>2, <1>3
<1>5. \A p, q : Table!IsPrefix(p, q) <=> IsPrefix(p, q)
  BY DEF Table!IsPrefix, IsPrefix
<1> QED
  BY <1>4, <1>5, TableIs DEF Pruned, Table!StillUsed

\* Steps that only answer.
LEMMA AnswerStep ==
  ASSUME UNCHANGED <<clients, tree>>, Quiet(sent')
  PROVE  Table!Answer
<1>1. Delivered' = {}
  BY NothingHanded DEF Delivered, Handed
<1> QED
  BY <1>1 DEF Table!Answer, Registered, ClosedTopics

LEMMA JoinStep ==
  ASSUME NEW c \in Clients, Accept(c)
  PROVE  Table!Join(c)
<1>1. Delivered' = {}
  BY DEF Accept, Delivered
<1> QED
  BY <1>1 DEF Accept, Table!Join, Registered, ClosedTopics

\* A client goes, with everything it registered.
LEMMA LeaveStep ==
  ASSUME RouterInv, RouterInv', NEW c \in Clients, Disconnect(c)
  PROVE  Table!Leave(c)
<1>1. /\ routes \in Seq(Entry) /\ TreeOK(tree) /\ Owned /\ Live(tree)
      /\ Len(routes) \in Nat /\ DOMAIN routes = 1 .. Len(routes)
  BY LenProperties DEF RouterInv, TreeOK
<1>2. /\ c \in clients /\ clients' = clients \ {c}
      /\ tree' = ClearClientRoutes(tree, c) /\ Quiet(sent')
  BY RepliesQuiet DEF Disconnect
<1>3. \A p, k : Holds(tree', p, k) <=>
        /\ Holds(tree, p, k)
        /\ \A i \in 1 .. Len(routes) : routes[i].client = c => k # Key(routes[i])
  BY <1>1, <1>2, ClearClientRoutesHolds
<1>4. ASSUME NEW p, NEW k, Holds(tree, p, k)
      PROVE  k[1] = c <=> \E i \in 1 .. Len(routes) : routes[i].client = c /\ k = Key(routes[i])
  <2>1. k \in Keys
    BY <1>1, <1>4 DEF Holds, Live, Owned
  <2>2. PICK i \in 1 .. Len(routes) : k = Key(routes[i])
    BY <1>1, <2>1 DEF Keys, Range
  <2>3. \A j \in 1 .. Len(routes) : Key(routes[j])[1] = routes[j].client
    BY DEF Key
  <2> QED
    BY <2>2, <2>3
<1>5. \A p, k : Holds(tree', p, k) <=> Holds(tree, p, k) /\ k[1] # c
  BY <1>3, <1>4
<1>6. Registered' = {g \in Registered : g.client # c}
  <2>1. \A g : <<g.client, g.id>>[1] = g.client
    OBVIOUS
  <2> QED
    BY <1>5, <2>1, TableIs
<1>7. Delivered' = {}
  BY <1>2, NothingHanded, TableIs
<1>8. ClosedTopics' = Table!StillUsed(Registered') \/ UNCHANGED <<Registered, ClosedTopics>>
  <2>1. tree' = tree \/ Pruned(tree, tree')
    BY <1>1, <1>2, ClearClientRoutesPrunes
  <2>2. tree' = tree => UNCHANGED <<Registered, ClosedTopics>>
    BY DEF Registered, ClosedTopics
  <2> QED
    BY <2>1, <2>2, PrunedIs
<1> QED
  BY <1>2, <1>6, <1>7, <1>8 DEF Table!Leave

\* A topic more in the tree is a registration more in the table.
LEMMA GrantAdded ==
  ASSUME RouterInv, RouterInv', NEW c \in Clients, NEW id \in RouteIds, NEW x \in Path,
         \A p, k : Holds(tree', p, k) <=> Holds(tree, p, k) \/ (p = x /\ k = <<c, id>>)
  PROVE  Registered' = Registered \cup {[client |-> c, id |-> id, topic |-> x]}
<1> DEFINE new == [client |-> c, id |-> id, topic |-> x]
<1>1. new \in Grant /\ new.topic = x /\ <<new.client, new.id>> = <<c, id>>
  BY DEF Grant
<1>2. \A g \in Grant : g.topic = x /\ <<g.client, g.id>> = <<c, id>> => g = new
  BY DEF Grant
<1> HIDE DEF new
<1>3. \A g \in Grant : Holds(tree', g.topic, <<g.client, g.id>>) <=>
                         Holds(tree, g.topic, <<g.client, g.id>>) \/ g = new
  BY <1>1, <1>2
<1>4. Registered' = Registered \cup {new}
  BY <1>1, <1>3, TableIs
<1> QED
  BY <1>4 DEF new

\* A listener's own expression is a topic of its own.
LEMMA RegisterStep ==
  ASSUME ReachInv, RouterInv', Plain, NEW c \in Clients, NEW x \in Registrable(uses), x # <<>>,
         NEW id \in RouteIds, AddRoute(c, x, id, FALSE)
  PROVE  Table!Register(c, id, x)
<1> DEFINE added == AddTopicRoute(tree, x, <<c, id>>, FALSE)
<1>1. TreeOK(tree) /\ Owned /\ Live(tree) /\ RouterInv
  BY DEF ReachInv, RouterInv, TreeOK
<1>2. /\ c \in clients /\ <<c, id>> \notin Keys /\ UNCHANGED clients /\ tree' = added.tree
  BY DEF AddRoute
<1>3. Quiet(sent')
  <2>1. sent' \subseteq SendAdvisory(added.tree, c, "connect")
    BY DEF AddRoute
  <2> QED
    BY <2>1, RepliesQuiet DEF Quiet
<1>4. x \in Path /\ <<c, id>> \in Route
  BY <1>1, RegistrablePaths DEF Route
<1>5. ~HasTreeRoute(tree, <<c, id>>)
  BY <1>1, <1>2 DEF HasTreeRoute, Owned, Handles
<1>6. WithBranch(tree, Branch(tree, x), <<c, id>>, tree')
  <2>1. ~Refused(tree, x, Last(Branch(tree, x)), FALSE)
    BY DEF Refused
  <2> QED
    BY <1>1, <1>2, <1>4, <1>5, <2>1, AddTopicRouteOK
<1>7. Last(Branch(tree, x)) = x
  BY <1>1, <1>4, PlainTree, BranchEnds
<1>8. Registered' = Registered \cup {[client |-> c, id |-> id, topic |-> x]}
  BY <1>1, <1>4, <1>6, <1>7, GrantAdded DEF WithBranch
<1>9. Table!OwnedBy(c, id) = {}
  <2>1. \A p : ~Holds(tree, p, <<c, id>>)
    BY <1>1, <1>2 DEF Holds, Live, Owned
  <2> QED
    BY <1>1, <2>1, TableIs DEF Table!OwnedBy
<1>10. Delivered' = {}
  BY <1>1, <1>3, NothingHanded, TableIs
<1>11. ClosedTopics' = ClosedTopics \cup {x}
  BY <1>1, <1>6, <1>7, TableIs DEF WithBranch
<1> QED
  BY <1>2, <1>8, <1>9, <1>10, <1>11 DEF Table!Register

\* An alias is refused exactly when its topic is closed, and else nobody is there.
LEMMA AliasStep ==
  ASSUME ReachInv, RouterInv', Plain, NEW c \in Clients, NEW x \in Registrable(uses), x # <<>>,
         x # Advisory, NEW id \in RouteIds, AddAlias(c, x, id, TRUE)
  PROVE  Table!RegisterAlias(c, id, x)
<1> DEFINE added == AddTopicRoute(tree, x, <<c, id>>, TRUE)
<1>1. TreeOK(tree) /\ Listed(tree) /\ RouterInv
  BY DEF ReachInv, RouterInv, TreeOK
<1>2. /\ c \in clients /\ UNCHANGED clients /\ tree' = added.tree
      /\ sent' = Reply(tree', c, <<added.rc>>)
  BY DEF AddAlias
<1>3. added.rc # "message"
  BY DEF AddTopicRoute
<1>4. Quiet(sent')
  <2> HIDE DEF added
  <2> QED
    BY <1>2, <1>3, RepliesQuiet
<1>5. x \in Path /\ <<c, id>> \in Route
  BY <1>1, RegistrablePaths DEF Route
<1>6. IF Refused(tree, x, Last(Branch(tree, x)), TRUE) THEN SameTopics(tree, tree')
      ELSE WithBranch(tree, Branch(tree, x), <<c, id>>, tree')
  BY <1>1, <1>2, <1>5, AddTopicRouteOK
<1>7. Last(Branch(tree, x)) = x
  BY <1>1, <1>5, PlainTree, BranchEnds
<1>8. Delivered' = {}
  BY <1>1, <1>4, NothingHanded, TableIs
<1>9. CASE Refused(tree, x, x, TRUE)
  <2>1. \A p, k : Holds(tree', p, k) <=> Holds(tree, p, k)
    BY <1>6, <1>7, <1>9 DEF SameTopics, Holds, At
  <2>2. Registered' = Registered
    BY <1>1, <2>1, TableIs
  <2>3. x \in ClosedTopics
    BY <1>9 DEF Refused, ClosedTopics, AllTopics
  <2>4. Shut(tree') = Shut(tree)
    BY <1>6, <1>7, <1>9 DEF SameTopics, Shut
  <2>5. ClosedTopics' = ClosedTopics \cup {x}
    BY <1>1, <2>3, <2>4, TableIs
  <2> QED
    BY <1>2, <1>8, <2>2, <2>3, <2>5 DEF Table!RegisterAlias
<1>10. CASE ~Refused(tree, x, x, TRUE)
  <2>1. Registered' = Registered \cup {[client |-> c, id |-> id, topic |-> x]}
    BY <1>1, <1>5, <1>6, <1>7, <1>10, GrantAdded DEF WithBranch
  <2>2. \A k : ~Holds(tree, x, k)
    <3>1. x \in Paths(tree) => At(tree, x) = {}
      BY <1>1, <1>10 DEF Refused, Listed, Paths
    <3> QED
      BY <3>1 DEF Holds
  <2>3. Table!Holders(x) = {}
    BY <1>1, <2>2, TableIs DEF Table!Holders
  <2>4. x \notin ClosedTopics
    BY <1>10 DEF Refused, ClosedTopics, AllTopics
  <2>5. ClosedTopics' = ClosedTopics \cup {x}
    BY <1>1, <1>6, <1>7, <1>10, TableIs DEF WithBranch
  <2> QED
    BY <1>2, <1>8, <2>1, <2>3, <2>4, <2>5 DEF Table!RegisterAlias
<1> QED
  BY <1>9, <1>10

\* A listener's own expression takes all its topics out, any other expression
\* everything at and below it.
LEMMA WithdrawStep ==
  ASSUME ReachInv, RouterInv', Plain, NEW c \in Clients, NEW x \in Expressions, x # <<>>,
         Unsubscribe(c, x, FALSE)
  PROVE  IF OwnRoutes(c, x) # <<>> THEN Table!Withdraw(c, Head(OwnRoutes(c, x)).id)
         ELSE Table!WithdrawTopic(x)
<1>1. routes \in Seq(Entry) /\ TreeOK(tree) /\ Closed(tree) /\ RouterInv
  BY DEF ReachInv, RouterInv, TreeOK
<1>2. x \in Path /\ c \in clients /\ UNCHANGED clients /\ sent' = {}
  BY <1>1, ExpressionsArePaths DEF Unsubscribe
<1>3. Delivered' = {}
  BY <1>1, <1>2, NothingHanded, RepliesQuiet, TableIs
<1>4. CASE OwnRoutes(c, x) # <<>>
  <2> PICK r : r = Head(OwnRoutes(c, x))
    OBVIOUS
  <2>1. ClearRoute(r)
    BY <1>4 DEF Unsubscribe
  <2>2. r \in Entry /\ r.client = c
    <3>1. /\ OwnRoutes(c, x) \in Seq(Entry)
          /\ Range(OwnRoutes(c, x)) \subseteq Range(routes) \cap {q \in Range(routes) : q.client = c}
      BY <1>1, Kept DEF OwnRoutes
    <3>2. 1 \in DOMAIN OwnRoutes(c, x) /\ r = OwnRoutes(c, x)[1]
      BY <1>4, <3>1, EmptySeq, LenProperties
    <3>3. OwnRoutes(c, x)[1] \in Entry
      BY <3>1, <3>2, ElementOfSeq, LenProperties
    <3> QED
      BY <3>1, <3>2, <3>3 DEF Range
  <2>3. r.id \in RouteIds /\ Key(r) = <<c, r.id>>
    BY <2>2 DEF Entry, Key
  <2>4. \A p, k : Holds(tree', p, k) <=> Holds(tree, p, k) /\ k # <<c, r.id>>
    BY <1>1, <2>1, <2>3, RemoveRouteHolds DEF ClearRoute
  <2>5. \A g : <<g.client, g.id>> = <<c, r.id>> <=> g.client = c /\ g.id = r.id
    OBVIOUS
  <2>6. Registered' = Registered \ Table!OwnedBy(c, r.id)
    BY <1>1, <2>4, <2>5, TableIs DEF Table!OwnedBy
  <2>7. \/ ClosedTopics' = Table!StillUsed(Registered')
        \/ Table!OwnedBy(c, r.id) = {} /\ UNCHANGED ClosedTopics
    <3>1. CASE HasTreeRoute(tree, <<c, r.id>>)
      <4>1. Pruned(tree, tree')
        BY <1>1, <2>1, <2>3, <3>1, RemoveRoutePrunes DEF ClearRoute
      <4> QED
        BY <1>1, <4>1, PrunedIs
    <3>2. CASE ~HasTreeRoute(tree, <<c, r.id>>)
      <4>1. tree' = tree
        BY <1>1, <2>1, <2>3, <3>2, RemoveRoutePrunes DEF ClearRoute
      <4>2. \A p : ~Holds(tree, p, <<c, r.id>>)
        BY <1>1, <2>4, <4>1
      <4>3. Table!OwnedBy(c, r.id) = {}
        BY <1>1, <2>5, <4>2, TableIs DEF Table!OwnedBy
      <4> QED
        BY <4>1, <4>3 DEF ClosedTopics
    <3> QED
      BY <3>1, <3>2
  <2>8. Table!Withdraw(c, r.id)
    BY <1>2, <1>3, <2>6, <2>7 DEF Table!Withdraw
  <2> QED
    BY <1>4, <2>8
<1>5. CASE OwnRoutes(c, x) = <<>>
  <2>1. tree' = RemoveTopic(tree, x)
    BY <1>5 DEF Unsubscribe
  <2>2. /\ \A p, k : Holds(tree', p, k) => Holds(tree, p, k) /\ ~IsPrefix(x, p)
        /\ \A p, k : Holds(tree, p, k) /\ Row \notin Range(p) /\ ~IsPrefix(x, p)
                     => Holds(tree', p, k)
        /\ Shut(tree') = {p \in Shut(tree) : ~IsPrefix(x, p)}
    BY <1>1, <1>2, <2>1, PlainTree, RemoveTopicHolds
  <2>3. \A p, k : Holds(tree', p, k) <=> Holds(tree, p, k) /\ ~IsPrefix(x, p)
    BY <1>1, <2>2, PlainTree DEF Holds
  <2>4. Registered' = {g \in Registered : ~IsPrefix(x, g.topic)}
    BY <1>1, <2>3, TableIs
  <2>5. ClosedTopics' = {p \in ClosedTopics : ~IsPrefix(x, p)}
    BY <1>1, <2>2, TableIs
  <2>6. \A p, q : Table!IsPrefix(p, q) <=> IsPrefix(p, q)
    BY DEF Table!IsPrefix, IsPrefix
  <2>7. Table!WithdrawTopic(x)
    BY <1>2, <1>3, <2>4, <2>5, <2>6 DEF Table!WithdrawTopic
  <2> QED
    BY <1>5, <2>7
<1> QED
  BY <1>4, <1>5

\* A message goes to those at its topic.
LEMMA PublishStep ==
  ASSUME ReachInv, RouterInv', Plain, NEW c \in Clients, NEW x \in Expressions, x # <<>>,
         NEW partial \in BOOLEAN, NEW request \in BOOLEAN, Dispatch(c, x, partial, request)
  PROVE  IF partial THEN Table!Answer ELSE Table!Publish(x)
<1> DEFINE list == GetTopicRoutes(tree, x, partial)
<1>1. TreeOK(tree) /\ tree \in Trees /\ Live(tree) /\ RouterInv /\ x \in Path
  BY ExpressionsArePaths DEF ReachInv, RouterInv, TreeOK
<1>2. /\ UNCHANGED <<clients, tree>>
      /\ sent' = IF list # <<>>
                 THEN ToRoutes(tree, list, <<IF partial THEN "below" ELSE "message">>, {})
                 ELSE IF request THEN Reply(tree, c, <<"undeliverable">>)
                 ELSE {}
  BY DEF Dispatch
<1>3. CASE partial
  <2>1. Quiet(ToRoutes(tree, list, <<"below">>, {}))
    <3>1. \A m \in ToRoutes(tree, list, <<"below">>, {}) : \E a, b : m = <<a, b, <<"below">>>>
      BY DEF ToRoutes
    <3>2. \A a, b : <<a, b, <<"below">>>>[3] = <<"below">>
      OBVIOUS
    <3>3. <<"below">> # <<"message">>
      OBVIOUS
    <3> QED
      BY <3>1, <3>2, <3>3 DEF Quiet
  <2> HIDE DEF list
  <2>2. Quiet(sent')
    BY <1>2, <1>3, <2>1, RepliesQuiet
  <2> QED
    BY <1>2, <1>3, <2>2, AnswerStep
<1>5. CASE list = <<>> /\ ~partial
  <2>1. x \in Paths(tree) => At(tree, x) = {}
    <3>1. x \in Paths(tree) => tree.topic[x].routeList = <<>>
      BY <1>1, <1>5, PlainTree
    <3>2. Range(<<>>) = {}
      BY DEF Range
    <3> QED
      BY <3>1, <3>2 DEF At
  <2>2. \A k : ~Holds(tree, x, k)
    BY <2>1 DEF Holds
  <2>3. Table!Holders(x) = {}
    BY <1>1, <2>2, TableIs DEF Table!Holders
  <2>4. Quiet(sent')
    <3> HIDE DEF list
    <3>1. "undeliverable" # "message"
      OBVIOUS
    <3> QED
      BY <1>2, <1>5, <3>1, RepliesQuiet
  <2>5. Delivered' = {}
    BY <1>1, <2>4, NothingHanded, TableIs
  <2> QED
    BY <1>2, <1>5, <2>3, <2>5 DEF Table!Publish, Registered, ClosedTopics
<1>4. CASE list # <<>> /\ ~partial
  <2>1. x \in Paths(tree) /\ list = tree.topic[x].routeList
    BY <1>1, <1>4, PlainTree
  <2>2. Range(list) \cap DOMAIN tree.topicList = At(tree, x) /\ At(tree, x) \subseteq Handles(tree)
    BY <1>1, <2>1 DEF Live, At, Handles
  <2>3. sent' = {<<h[1][1], h[1][2], <<"message">>>> : h \in At(tree, x)}
    <3> HIDE DEF list
    <3> QED
      BY <1>2, <1>4, <2>2 DEF ToRoutes
  <2>4. Delivered' = {[client |-> h[1][1], id |-> h[1][2]] : h \in At(tree, x)}
    <3>1. Delivered' = Handed(sent')
      BY <1>1, TableIs
    <3>2. \A m \in sent' : m[3] = <<"message">>
      BY <2>3
    <3>3. Handed(sent') = {[client |-> m[1], id |-> m[2]] : m \in sent'}
      BY <3>2 DEF Handed
    <3>4. \A a, b : <<a, b, <<"message">>>>[1] = a /\ <<a, b, <<"message">>>>[2] = b
      OBVIOUS
    <3>5. {[client |-> m[1], id |-> m[2]] : m \in sent'} =
            {[client |-> h[1][1], id |-> h[1][2]] : h \in At(tree, x)}
      <4> DEFINE Content(h) == <<h[1][1], h[1][2], <<"message">>>>
      <4>1. \A h : Content(h)[1] = h[1][1] /\ Content(h)[2] = h[1][2]
        BY <3>4
      <4>2. sent' = {Content(h) : h \in At(tree, x)}
        BY <2>3
      <4> HIDE DEF Content
      <4>3. \A m \in sent' : \E h \in At(tree, x) : m[1] = h[1][1] /\ m[2] = h[1][2]
        BY <4>1, <4>2
      <4>4. \A h \in At(tree, x) : \E m \in sent' : m[1] = h[1][1] /\ m[2] = h[1][2]
        BY <4>1, <4>2
      <4> QED
        BY <4>3, <4>4
    <3> QED
      BY <3>1, <3>3, <3>5
  <2>5. Table!Holders(x) = {[client |-> h[1][1], id |-> h[1][2]] : h \in At(tree, x)}
    <3>1. \A h \in At(tree, x) : /\ h[1] = <<h[1][1], h[1][2]>>
                                 /\ h[1][1] \in Clients /\ h[1][2] \in RouteIds
      BY <1>1, <2>1, TopicIs DEF Handle, Route
    <3>2. ASSUME NEW g \in Registered, g.topic = x
          PROVE  \E h \in At(tree, x) : g.client = h[1][1] /\ g.id = h[1][2]
      <4>1. Holds(tree, x, <<g.client, g.id>>)
        BY <1>1, <3>2, TableIs
      <4> QED
        BY <4>1 DEF Holds
    <3>3. ASSUME NEW h \in At(tree, x)
          PROVE  \E g \in Registered : g.topic = x /\ g.client = h[1][1] /\ g.id = h[1][2]
      <4> DEFINE g == [client |-> h[1][1], id |-> h[1][2], topic |-> x]
      <4>1. g \in Grant /\ g.topic = x /\ g.client = h[1][1] /\ g.id = h[1][2]
        BY <1>1, <3>1 DEF Grant
      <4> HIDE DEF g
      <4>2. Holds(tree, g.topic, <<g.client, g.id>>)
        BY <2>1, <3>1, <4>1 DEF Holds
      <4> QED
        BY <1>1, <4>1, <4>2, TableIs
    <3> QED
      BY <3>2, <3>3 DEF Table!Holders
  <2> QED
    BY <1>2, <1>4, <2>4, <2>5 DEF Table!Publish, Registered, ClosedTopics
<1> QED
  BY <1>3, <1>4, <1>5

\* The tree, its caches and the pruning of topics never lose, invent or misdirect a
\* registration: as long as nobody registers a row template, every event the daemon
\* handles is the step of the table it is meant to be (rtRouted_OnMessageSubscribe,
\* rtRouted_ClearClientRoutes, rtRouter_DispatchMessageFromClient and what they call
\* in rtRoutingTree.c).
THEOREM RouterImplementsTable ==
  ASSUME NoAdvisoryAlias, <<>> \notin Expressions,
         \A c \in Clients : Row \notin Range(InboxOf[c])
  PROVE  Spec => ImplementsTable
<1>1. Init => Table!Init
  <2> SUFFICES ASSUME Init PROVE Table!Init
    OBVIOUS
  <2>1. clients = {} /\ tree = EmptyTree /\ sent = {}
    BY DEF Init
  <2>2. Registered = {}
    BY <2>1 DEF Registered, EmptyTree
  <2>3. Delivered = {}
    BY <2>1 DEF Delivered
  <2>4. ClosedTopics = {}
    BY <2>1 DEF ClosedTopics, AllTopics, EmptyTree
  <2> QED
    BY <2>1, <2>2, <2>3, <2>4 DEF Table!Init
<1> DEFINE OfTable == NoRows => \A c \in Clients :
             ConnectionsOfTable(c) /\ RegistrationsOfTable(c) /\ MessagesOfTable(c)
<1>2. ASSUME ReachInv, Next, NoRows, NEW c \in Clients
      PROVE  ConnectionsOfTable(c) /\ RegistrationsOfTable(c) /\ MessagesOfTable(c)
  <2>1. RouterInv /\ RouterInv'
    BY <1>2, RouterStep DEF ReachInv
  <2>2. Plain /\ uses \in Workloads
    BY <1>2, <2>1 DEF Plain, RouterInv
  <2>3. /\ uses.listeners \subseteq Registrable(uses) /\ uses.aliases \subseteq Registrable(uses)
        /\ InboxOf[c] \in Registrable(uses)
    BY InboxAssumption DEF Registrable, Inboxes, Range
  <2>4. Registrable(uses) \subseteq Expressions
    BY <2>1, RegistrablePaths
  <2>5. ConnectionsOfTable(c)
    BY <1>2, <2>1, HandledIs, JoinStep, LeaveStep DEF ConnectionsOfTable
  <2>6. ASSUME NEW x \in Expressions, NEW id \in RouteIds, handled' = <<"listener", c, x, id>>
        PROVE  Table!Register(c, id, x)
    <3>1. x \in Registrable(uses) /\ AddRoute(c, x, id, FALSE)
      BY <1>2, <2>3, <2>6, HandledIs
    <3> QED
      BY <1>2, <2>1, <2>2, <3>1, RegisterStep
  <2>7. ASSUME NEW x \in Expressions, NEW id \in RouteIds, handled' = <<"alias", c, x, id>>
        PROVE  Table!RegisterAlias(c, id, x)
    <3>1. x \in Registrable(uses) /\ x \in uses.aliases /\ AddAlias(c, x, id, TRUE)
      BY <1>2, <2>3, <2>7, HandledIs
    <3>2. x # Advisory
      BY <2>2, <3>1 DEF NoAdvisoryAlias
    <3> QED
      BY <1>2, <2>1, <2>2, <3>1, <3>2, AliasStep
  <2>8. ASSUME NEW x \in Expressions, handled' = <<"unsubscribe", c, x>>
        PROVE  IF OwnRoutes(c, x) # <<>> THEN Table!Withdraw(c, Head(OwnRoutes(c, x)).id)
               ELSE Table!WithdrawTopic(x)
    <3>1. Unsubscribe(c, x, FALSE)
      BY <1>2, <2>8, HandledIs
    <3> QED
      BY <1>2, <2>1, <2>2, <3>1, WithdrawStep
  <2>9. RegistrationsOfTable(c)
    BY <2>6, <2>7, <2>8 DEF RegistrationsOfTable
  <2>10. handled' = <<"invalid", c>> => Table!Answer
    <3>1. "INVALID_ARG" # "message"
      OBVIOUS
    <3>2. handled' = <<"invalid", c>> => UNCHANGED <<clients, tree>> /\ Quiet(sent')
      BY <1>2, <3>1, HandledIs, RepliesQuiet DEF BadSubscribe
    <3> QED
      BY <3>2, AnswerStep
  <2>11. ASSUME NEW x \in Expressions, NEW partial \in BOOLEAN, NEW request \in BOOLEAN,
                handled' = <<"dispatch", c, x, partial, request>>
         PROVE  IF partial THEN Table!Answer ELSE Table!Publish(x)
    <3>1. Dispatch(c, x, partial, request)
      BY <1>2, <2>11, HandledIs
    <3> QED
      BY <1>2, <2>1, <2>2, <3>1, PublishStep
  <2>12. ASSUME NEW x \in Expressions, handled' = <<"discover", c, x>> PROVE Table!Answer
    <3>1. Discover(c, x)
      BY <1>2, <2>12, HandledIs
    <3>2. UNCHANGED <<clients, tree>> /\ Quiet(sent')
      BY <3>1, RepliesQuiet DEF Discover
    <3> QED
      BY <3>2, AnswerStep
  <2>13. MessagesOfTable(c)
    BY <2>10, <2>11, <2>12 DEF MessagesOfTable
  <2> QED
    BY <2>5, <2>9, <2>13
<1>3. ReachInv /\ Next => OfTable
  BY <1>2
<1>4. ImplementsTable <=> Table!Init /\ [][OfTable]_vars
  BY DEF ImplementsTable
<1> HIDE DEF OfTable
<1> QED
  BY <1>1, <1>3, <1>4, ReachInvariant, PTL DEF Spec

=============================================================================
