------------------------------- MODULE List -------------------------------
(***************************************************************************)
(* rtList: a doubly linked list that keeps the items removed from it on a  *)
(* second chain and takes new ones from there before it allocates any.     *)
(*                                                                         *)
(* A removed item keeps its data unless a destroyer was given, and may be  *)
(* put back with that data (rtListReuseData).  Whether every object is     *)
(* destroyed once therefore depends on how the user of a list combines the *)
(* calls.  The library has three ways, one of which each list follows:     *)
(*   owning      destroyer on removal and on Destroy (callback messages,   *)
(*               tree topics, tree routes, threads of the pool)            *)
(*   borrowing   none at all (routes of a topic, topics of a route)        *)
(*   recycling   none on removal, data reused, destroyer on Destroy (the   *)
(*               tasks of the pool)                                        *)
(*                                                                         *)
(* items and freed are history variables: the list and the chain of freed  *)
(* items as they should be.  Loops advance one item per step.              *)
(***************************************************************************)
EXTENDS Naturals, SequencesExt

CONSTANTS
  Item,   \* addresses of list items
  Data,   \* addresses of the user's objects
  Null

ASSUME ListAssumption == Null \notin Item /\ Null \notin Data

VARIABLES
  user,                    \* how this list is used
  front, back, free, size, \* struct _rtList
  next, prev, data,        \* struct _rtListItem
  allocated,               \* items that exist
  heap,                    \* objects of the user that exist
  loop, cursor, sought,    \* the function walking the list, where it is, and
                           \* the data it looks for
  items, freed

walk == <<loop, cursor, sought>>
listVars == <<user, front, back, free, size, next, prev, data, allocated, heap, walk, items, freed>>

Idle == loop = "none"

\* if(p) p->f = v
Assign(f, p, v) == [i \in Item |-> IF i = p THEN v ELSE f[i]]

\* An item of the list, as the user passes it.
InList(item) == item \in Range(items)

-----------------------------------------------------------------------------
(* Free items, and what the user stores in an item.                        *)

\* rtList_GetFreeItem
GetFreeItem(item) ==
  IF free # Null
  THEN /\ item = free
       /\ free' = next[free]
       /\ freed' = Tail(freed)
       /\ UNCHANGED allocated
  ELSE /\ item \notin allocated
       /\ allocated' = allocated \cup {item}
       /\ UNCHANGED <<free, freed>>

\* The data of an item taken: an object made for it; a recycling user makes one
\* only if the item has none.
Store(item) ==
  IF user = "recycling" /\ free # Null /\ data[item] # Null
  THEN UNCHANGED <<data, heap>>
  ELSE \E d \in Data \ heap :
         /\ data' = [data EXCEPT ![item] = d]
         /\ heap' = IF user = "borrowing" THEN heap ELSE heap \cup {d}

\* rtList_SetFreeItem, where the removal leaves the pointers nx and pv.
SetFreeItem(item, nx, pv) ==
  /\ next' = Assign(nx, item, free)
  /\ prev' = Assign(Assign(pv, free, item), item, Null)
  /\ free' = item
  /\ freed' = <<item>> \o freed

\* The destroyer on removal, which the owning user passes.
Release(item) ==
  IF user = "owning"
  THEN heap' = heap \ {data[item]} /\ data' = [data EXCEPT ![item] = Null]
  ELSE UNCHANGED <<heap, data>>

-----------------------------------------------------------------------------
(* Adding.                                                                 *)

Take(item) ==
  /\ Idle
  /\ GetFreeItem(item)
  /\ Store(item)
  /\ size' = size + 1
  /\ UNCHANGED <<user, walk>>

PushFront(item) ==
  /\ Take(item)
  /\ prev' = Assign(Assign(prev, item, Null), front, item)
  /\ next' = Assign(next, item, front)
  /\ front' = item
  /\ back' = IF back = Null THEN item ELSE back
  /\ items' = <<item>> \o items

PushBack(item) ==
  /\ Take(item)
  /\ next' = Assign(Assign(next, item, Null), back, item)
  /\ prev' = Assign(prev, item, back)
  /\ back' = item
  /\ front' = IF front = Null THEN item ELSE front
  /\ items' = Append(items, item)

InsertBefore(item, at) ==
  /\ InList(at)
  /\ Take(item)
  /\ prev' = Assign(Assign(prev, item, prev[at]), at, item)
  /\ next' = Assign(Assign(next, item, at), prev[at], item)
  /\ front' = IF at = front THEN item ELSE front
  /\ UNCHANGED back
  /\ \E p \in DOMAIN items : items[p] = at /\ items' = InsertAt(items, p, item)

InsertAfter(item, at) ==
  /\ InList(at)
  /\ Take(item)
  /\ next' = Assign(Assign(next, item, next[at]), at, item)
  /\ prev' = Assign(Assign(prev, item, at), next[at], item)
  /\ back' = IF at = back THEN item ELSE back
  /\ UNCHANGED front
  /\ \E p \in DOMAIN items : items[p] = at /\ items' = InsertAt(items, p + 1, item)

-----------------------------------------------------------------------------
(* Removing one item: one the user holds, or the first with some data.     *)

\* Variant: the last item is removed and stays the back of the list.
UnlinkKeepBack(item) ==
  /\ SetFreeItem(item, Assign(next, prev[item], next[item]),
                       Assign(prev, next[item], prev[item]))
  /\ front' = IF front = item THEN next[item] ELSE front
  /\ UNCHANGED back

Unlink(item) ==
  /\ SetFreeItem(item, Assign(next, prev[item], next[item]),
                       Assign(prev, next[item], prev[item]))
  /\ front' = IF front = item THEN next[item] ELSE front
  /\ back' = IF back = item THEN prev[item] ELSE back

RemoveFrom(item) ==
  /\ Unlink(item)
  /\ Release(item)
  /\ size' = size - 1
  /\ \E p \in DOMAIN items : items[p] = item /\ items' = RemoveAt(items, p)
  /\ UNCHANGED <<user, allocated>>

RemoveItem(item) ==
  /\ Idle /\ InList(item)
  /\ RemoveFrom(item)
  /\ UNCHANGED walk

\* rtList_RemoveItemWithData, rtList_RemoveItemByCompare, rtList_Find
StartSearch(d) ==
  /\ Idle
  /\ loop' = "search" /\ cursor' = front /\ sought' = d
  /\ UNCHANGED <<user, front, back, free, size, next, prev, data, allocated, heap, items, freed>>

SearchOn ==
  /\ loop = "search" /\ cursor # Null /\ data[cursor] # sought
  /\ cursor' = next[cursor]
  /\ UNCHANGED <<user, front, back, free, size, next, prev, data, allocated, heap,
                 loop, sought, items, freed>>

Return == loop' = "none" /\ cursor' = Null /\ sought' = Null

\* Find returns the data, the others remove the item.
SearchEnds ==
  /\ loop = "search"
  /\ cursor # Null => data[cursor] = sought
  /\ Return
  /\ UNCHANGED <<user, front, back, free, size, next, prev, data, allocated, heap, items, freed>>

SearchRemoves ==
  /\ loop = "search" /\ cursor # Null /\ data[cursor] = sought
  /\ RemoveFrom(cursor)
  /\ Return

-----------------------------------------------------------------------------
(* Removing all items, and destroying the list.                            *)

StartRemoveAll ==
  /\ Idle
  /\ loop' = "remove" /\ cursor' = front
  /\ UNCHANGED <<user, front, back, free, size, next, prev, data, allocated, heap,
                 sought, items, freed>>

RemoveNext ==
  /\ loop = "remove" /\ cursor # Null
  /\ Release(cursor)
  /\ SetFreeItem(cursor, next, prev)
  /\ cursor' = next[cursor]
  /\ items' = Tail(items)
  /\ UNCHANGED <<user, front, back, size, allocated, loop, sought>>

RemovedAll ==
  /\ loop = "remove" /\ cursor = Null
  /\ size' = 0 /\ front' = Null /\ back' = Null
  /\ Return
  /\ UNCHANGED <<user, free, next, prev, data, allocated, heap, items, freed>>

StartDestroy ==
  /\ Idle
  /\ loop' = "destroy" /\ cursor' = front
  /\ UNCHANGED <<user, front, back, free, size, next, prev, data, allocated, heap,
                 sought, items, freed>>

\* The destroyer if there is one, and free(item).
DestroyNext ==
  /\ loop \in {"destroy", "destroyFree"} /\ cursor # Null
  /\ heap' = IF user = "borrowing" THEN heap ELSE heap \ {data[cursor]}
  /\ cursor' = next[cursor]
  /\ allocated' = allocated \ {cursor}
  /\ IF loop = "destroy" THEN items' = Tail(items) /\ UNCHANGED freed
     ELSE freed' = Tail(freed) /\ UNCHANGED items
  /\ UNCHANGED <<user, front, back, free, size, next, prev, data, loop, sought>>

DestroyFree ==
  /\ loop = "destroy" /\ cursor = Null
  /\ loop' = "destroyFree" /\ cursor' = free
  /\ UNCHANGED <<user, front, back, free, size, next, prev, data, allocated, heap,
                 sought, items, freed>>

\* free(list); the user may create another.
Destroyed ==
  /\ loop = "destroyFree" /\ cursor = Null
  /\ front' = Null /\ back' = Null /\ free' = Null /\ size' = 0
  /\ Return
  /\ UNCHANGED <<user, next, prev, data, allocated, heap, items, freed>>

-----------------------------------------------------------------------------
\* rtList_Create
ListInit ==
  /\ user \in {"owning", "borrowing", "recycling"}
  /\ front = Null /\ back = Null /\ free = Null /\ size = 0
  /\ next = [i \in Item |-> Null] /\ prev = next
  /\ data = [i \in Item |-> Null]
  /\ allocated = {} /\ heap = {}
  /\ loop = "none" /\ cursor = Null /\ sought = Null
  /\ items = <<>> /\ freed = <<>>

ListNext ==
  \/ \E item \in Item :
       \/ PushFront(item) \/ PushBack(item) \/ RemoveItem(item)
       \/ \E at \in Item : InsertBefore(item, at) \/ InsertAfter(item, at)
  \/ \E d \in Data : StartSearch(d)
  \/ SearchOn \/ SearchEnds \/ SearchRemoves
  \/ StartRemoveAll \/ RemoveNext \/ RemovedAll
  \/ StartDestroy \/ DestroyNext \/ DestroyFree \/ Destroyed

ListSpec == ListInit /\ [][ListNext]_listVars

-----------------------------------------------------------------------------
(* Properties.                                                             *)

\* Types of the variables; pointers that are followed point to items that exist.
ListTypeOK ==
  /\ user \in {"owning", "borrowing", "recycling"}
  /\ loop \in {"none", "search", "remove", "destroy", "destroyFree"}
  /\ next \in [Item -> Item \cup {Null}] /\ prev \in [Item -> Item \cup {Null}]
  /\ data \in [Item -> Data \cup {Null}]
  /\ allocated \in SUBSET Item /\ heap \in SUBSET Data
  /\ size \in Nat
  /\ cursor \in allocated \cup {Null}
  /\ sought \in Data \cup {Null}
  /\ items \in Seq(allocated) /\ freed \in Seq(allocated)

First(s) == IF s = <<>> THEN Null ELSE s[1]
Final(s) == IF s = <<>> THEN Null ELSE s[Len(s)]

\* next leads from each item of s to the one after it, and ends at NULL.
Chained(s) ==
  \A k \in DOMAIN s : next[s[k]] = IF k = Len(s) THEN Null ELSE s[k + 1]

Injective(s) == \A j, k \in DOMAIN s : s[j] = s[k] => j = k

\* Whatever the order of calls: next leads from front through exactly the items of
\* the list in their order, prev leads back from back, size counts them, and every
\* other item that exists is on the free chain, once.
Represents ==
  /\ Injective(items) /\ Injective(freed)
  /\ Range(items) \cap Range(freed) = {}
  /\ Range(items) \cup Range(freed) = allocated
  /\ Chained(items) /\ Chained(freed)
  /\ \A k \in DOMAIN items : k > 1 => prev[items[k]] = items[k - 1]
  /\ loop \in {"none", "search"} =>
       /\ front = First(items) /\ back = Final(items) /\ size = Len(items)
       /\ items # <<>> => prev[items[1]] = Null
  /\ loop \in {"none", "search", "remove", "destroy"} => free = First(freed)
  /\ loop \in {"remove", "destroy"} => cursor = First(items)
  /\ loop = "destroyFree" => cursor = First(freed) /\ items = <<>>
  /\ loop = "search" => cursor = Null \/ InList(cursor)

\* A search misses nothing: no item before the one it is at has the data it seeks.
SearchMissesNothing ==
  loop = "search" =>
    \A k \in DOMAIN items :
      (\A j \in 1 .. k : items[j] # cursor) => data[items[k]] # sought

\* For users that own their objects: the objects that exist are the ones in items,
\* each in one item.  So none is destroyed twice, and none is forgotten when its
\* item is removed, used again, or destroyed with the list.
OwnedOnce ==
  user # "borrowing" =>
    /\ heap = {data[i] : i \in allocated} \ {Null}
    /\ \A i, j \in allocated : data[i] = data[j] /\ data[i] # Null => i = j
    /\ \A k \in DOMAIN items : data[items[k]] # Null
    /\ user = "recycling" => \A k \in DOMAIN freed : data[freed[k]] # Null
    /\ user = "owning" => \A k \in DOMAIN freed : data[freed[k]] = Null

\* Between any two calls, and in the middle of the loops whose callbacks see the list,
\* the pointers stand for a sequence, a search is right about what it has passed, and
\* objects are owned once.
ListCorrect == ListTypeOK /\ Represents /\ SearchMissesNothing /\ OwnedOnce
=============================================================================
