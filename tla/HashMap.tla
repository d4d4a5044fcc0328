------------------------------ MODULE HashMap ------------------------------
(***************************************************************************)
(* rtHashMap: buckets, each a vector of nodes; the number of buckets       *)
(* doubles and halves.  The map owns a copy of each key and, if it was     *)
(* created with a copier for them, of each value: copies counts the ones   *)
(* that exist.                                                             *)
(***************************************************************************)
EXTENDS Vector, FiniteSets

CONSTANTS
  Key, Value,
  Hashes,           \* functions from keys to numbers the hash may be
  InitSize,         \* RTHASHMAP_INITSIZE
  LoadNum, LoadDen  \* the load factor, LoadNum / LoadDen

\* Keys and values are different objects, and none is NULL, which rtHashMap_Get returns
\* for a key that is not there.
ASSUME HashMapAssumption ==
  /\ Hashes \subseteq [Key -> Nat]
  /\ InitSize \in Nat \ {0}
  /\ LoadNum \in Nat \ {0} /\ LoadDen \in Nat \ {0}
  /\ Key \cap Value = {} /\ Nothing \notin Value

VARIABLES
  hasher,       \* key_hasher, before it takes the rest by the number of buckets
  copiesValues, \* whether a val_copier and a val_destroyer were given
  buckets, mapSize,
  copies        \* how many copies of a key or a value exist

mapVars == <<hasher, copiesValues, buckets, mapSize, copies>>

-----------------------------------------------------------------------------
\* rtHashMap_GetBucket, with n buckets: its place
Bucket(k, n) == (hasher[k] % n) + 1

GetBucket(k) == buckets[Bucket(k, Len(buckets))]

\* rtVector_Find with rtHashMap_Compare_Node: the place of the first match, or 0
Find(v, k) ==
  LET I == {i \in 1 .. v.count : v.data[i].key = k} IN IF I = {} THEN 0 ELSE Min(I)

\* rtHashMap_GetNode: the place of the node in its bucket, or 0
GetNode(k) == Find(GetBucket(k), k)

Get(k) == IF GetNode(k) = 0 THEN Nothing ELSE GetBucket(k).data[GetNode(k)].value

Empty == [b \in 1 .. InitSize |-> EmptyVector]

\* rtHashMap_Resize: the nodes of each old bucket in turn put into n new ones
Put(n, bs, node) == [bs EXCEPT ![Bucket(node.key, n)] = Pushed(@, node)]

MoveNodes(n, v, bs) ==
  LET moved[j \in 0 .. v.count] == IF j = 0 THEN bs ELSE Put(n, moved[j-1], v.data[j])
  IN  moved[v.count]

Resize(n, bs) ==
  LET moved[i \in 0 .. Len(bs)] ==
        IF i = 0 THEN [b \in 1 .. n |-> EmptyVector] ELSE MoveNodes(n, bs[i], moved[i-1])
  IN  moved[Len(bs)]

\* The places of nodes in the buckets.
Places == UNION {{<<b, i>> : i \in 1 .. buckets[b].count} : b \in DOMAIN buckets}
NodeAt(p) == buckets[p[1]].data[p[2]]

\* What of an entry is copied; the calls of the copiers and of the destroyers.
Copied(k, v) == {k} \cup (IF copiesValues THEN {v} ELSE {})
Holding(x) == {p \in Places : x \in Copied(NodeAt(p).key, NodeAt(p).value)}
Add(xs) == copies' = [x \in DOMAIN copies |-> IF x \in xs THEN copies[x] + 1 ELSE copies[x]]
Drop(xs) == copies' = [x \in DOMAIN copies |-> IF x \in xs THEN copies[x] - 1 ELSE copies[x]]

-----------------------------------------------------------------------------
\* Variant: the copies of the entry that is overwritten are left.
OverwriteKeep(k, v) ==
  LET b == Bucket(k, Len(buckets))
  IN  /\ buckets' = [buckets EXCEPT ![b].data[GetNode(k)].value = v]
      /\ Add(Copied(k, v))
      /\ UNCHANGED mapSize

\* rtHashMap_Set on a key that is there: its copies are destroyed and made anew.
Overwrite(k, v) ==
  LET b   == Bucket(k, Len(buckets))
      old == buckets[b].data[GetNode(k)].value
  IN  /\ buckets' = [buckets EXCEPT ![b].data[GetNode(k)].value = v]
      /\ copies' = [x \in DOMAIN copies |->
                      IF copiesValues /\ old # v /\ x = old THEN copies[x] - 1
                      ELSE IF copiesValues /\ old # v /\ x = v THEN copies[x] + 1
                      ELSE copies[x]]
      /\ UNCHANGED mapSize

Overloaded == (mapSize + 1) * LoadDen > LoadNum * Len(buckets)

\* Variant: the node goes where its bucket was before the map grew.
AddToOldBucket(k, v) ==
  LET bs == IF Overloaded THEN Resize(2 * Len(buckets), buckets) ELSE buckets
      b  == Bucket(k, Len(buckets))
  IN  /\ buckets' = [bs EXCEPT ![b] = Pushed(@, [key |-> k, value |-> v])]
      /\ mapSize' = mapSize + 1
      /\ Add(Copied(k, v))

\* rtHashMap_Set on a new key.
AddNode(k, v) ==
  LET bs == IF Overloaded THEN Resize(2 * Len(buckets), buckets) ELSE buckets
  IN  /\ buckets' = Put(Len(bs), bs, [key |-> k, value |-> v])
      /\ mapSize' = mapSize + 1
      /\ Add(Copied(k, v))

SetKey(k, v) ==
  /\ IF GetNode(k) # 0 THEN Overwrite(k, v) ELSE AddNode(k, v)
  /\ UNCHANGED <<hasher, copiesValues>>

\* Half of the whole part of size / buckets is compared with the load factor.
Sparse(n) == /\ Len(buckets) > InitSize
             /\ (n \div Len(buckets)) * LoadDen < 2 * LoadNum

RemoveKey(k) ==
  /\ GetNode(k) # 0
  /\ LET b    == Bucket(k, Len(buckets))
         node == buckets[b].data[GetNode(k)]
         bs   == [buckets EXCEPT ![b] = RemoveEntry(@, GetNode(k))]
     IN  /\ buckets' = IF Sparse(mapSize - 1) THEN Resize(Len(bs) \div 2, bs) ELSE bs
         /\ Drop(Copied(k, node.value))
  /\ mapSize' = mapSize - 1
  /\ UNCHANGED <<hasher, copiesValues>>

\* rtHashMap_Destroy, and a map created anew
DestroyMap ==
  /\ buckets' = Empty /\ mapSize' = 0
  /\ copies' = [x \in DOMAIN copies |-> copies[x] - Cardinality(Holding(x))]
  /\ UNCHANGED <<hasher, copiesValues>>

-----------------------------------------------------------------------------
\* rtHashMap_CreateEx
MapInit ==
  /\ hasher \in Hashes
  /\ copiesValues \in BOOLEAN
  /\ buckets = Empty /\ mapSize = 0
  /\ copies = [x \in Key \cup Value |-> 0]

MapNext ==
  \/ \E k \in Key : RemoveKey(k) \/ \E v \in Value : SetKey(k, v)
  \/ DestroyMap

MapSpec == MapInit /\ [][MapNext]_mapVars

-----------------------------------------------------------------------------
(* Properties.                                                             *)

\* Every divisor but 1 is even.
PowerOfTwo(m) == \A d, q \in 1 .. m : m = d * q => d = 1 \/ d % 2 = 0

\* Types of the variables.  A map has as many buckets as it was created with, doubled
\* some times.
MapTypeOK ==
  /\ hasher \in Hashes /\ copiesValues \in BOOLEAN
  /\ \E m \in 1 .. Len(buckets) : Len(buckets) = InitSize * m /\ PowerOfTwo(m)
  /\ \A p \in Places : NodeAt(p).key \in Key /\ NodeAt(p).value \in Value
  /\ mapSize \in Nat
  /\ copies \in [Key \cup Value -> Nat]

\* The map implements a dictionary, through collisions, growing and shrinking: after
\* any calls a key is found with its value in the bucket it belongs to.
Dict == INSTANCE Dictionary WITH value <- [k \in Key |-> Get(k)]
ImplementsDictionary == Dict!Spec

\* Every copy made is destroyed once: there is one of a key that is there and of the
\* value of each node, if values are copied, and no other.
CopiesOwned ==
  /\ mapSize = Cardinality(Places)
  /\ \A x \in DOMAIN copies : copies[x] = Cardinality(Holding(x))

\* A vector always has a cell beyond its last entry, which RemoveItem reads.
RoomBeyond ==
  \A b \in DOMAIN buckets :
    LET v == buckets[b] IN v.count > 0 => v.count < Capacity(v)

\* However often it grew and shrank, the map leaks no copy, destroys none twice, and
\* reads no cell beyond one of its vectors.
MapSound == MapTypeOK /\ CopiesOwned /\ RoomBeyond
=============================================================================
