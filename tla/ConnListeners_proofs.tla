------------------------ MODULE ConnListeners_proofs ------------------------
(***************************************************************************)
(* Proofs about ConnListeners, for any number of threads, of slots, of     *)
(* listeners and of messages: messages are handled once each and in order, *)
(* each by the listener of its expression, and the router's routes follow  *)
(* the listeners.  The inductive invariant numbers what is queued and on   *)
(* its way, says what the callback thread holds, and that the id of a      *)
(* listener is found with its expression only, or with one whose listener  *)
(* was overtaken; for the routes it counts the entries of an expression    *)
(* against the threads that have still to tell the router of it.           *)
(***************************************************************************)
EXTENDS ConnListeners, SequenceTheorems, FiniteSetTheorems, WellFoundedInduction, TLAPS

\* The least element of a set of naturals is in it.
LEMMA MinIn ==
  ASSUME NEW S, S \subseteq Nat, S # {}
  PROVE  Min(S) \in S /\ \A y \in S : Min(S) <= y
<1> DEFINE R == {ss \in Nat \X Nat : ss[1] < ss[2]}
<1>1. IsWellFoundedOn(R, Nat)
  BY NatLessThanWellFounded DEF OpToRel
<1>2. PICK x \in S : \A y \in S : ~(<<y, x>> \in R)
  <2> HIDE DEF R
  <2> QED
    BY <1>1, WFMin
<1>3. ASSUME NEW y \in S PROVE x <= y
  <2> SUFFICES ASSUME y < x PROVE FALSE
    OBVIOUS
  <2>1. <<y, x>> \in Nat \X Nat /\ <<y, x>>[1] < <<y, x>>[2]
    OBVIOUS
  <2>2. <<y, x>> \in R
    BY <2>1
  <2> QED
    BY <1>2, <2>2
<1> QED
  BY <1>3 DEF Min

\* RemoveAt leaves the other elements, in their order.
LEMMA RemoveAtProperties ==
  ASSUME NEW S, NEW s \in Seq(S), NEW k \in 1 .. Len(s)
  PROVE  /\ RemoveAt(s, k) \in Seq(S)
         /\ DOMAIN RemoveAt(s, k) = 1 .. Len(s) - 1
         /\ \A i \in 1 .. Len(s) - 1 :
              RemoveAt(s, k)[i] = IF i < k THEN s[i] ELSE s[i + 1]
<1> DEFINE left == SubSeq(s, 1, k - 1)
           right == SubSeq(s, k + 1, Len(s))
<1>1. Len(s) \in Nat
  BY LenProperties
<1>2. left \in Seq(S) /\ Len(left) = k - 1 /\ \A i \in 1 .. k - 1 : left[i] = s[i]
  BY <1>1, SubSeqProperties
<1>3. right \in Seq(S) /\ Len(right) = Len(s) - k
      /\ \A i \in 1 .. Len(s) - k : right[i] = s[k + i]
  BY <1>1, SubSeqProperties
<1>4. RemoveAt(s, k) = left \o right
  BY DEF RemoveAt
<1> HIDE DEF left, right
<1>5. /\ left \o right \in Seq(S) /\ Len(left \o right) = Len(s) - 1
      /\ \A i \in 1 .. Len(s) - 1 :
           (left \o right)[i] = IF i <= k - 1 THEN left[i] ELSE right[i - (k - 1)]
  BY <1>1, <1>2, <1>3, ConcatProperties
<1>6. ASSUME NEW i \in 1 .. Len(s) - 1
      PROVE  (left \o right)[i] = IF i < k THEN s[i] ELSE s[i + 1]
  <2>1. CASE i < k
    <3>1. i \in 1 .. k - 1 /\ i <= k - 1
      BY <1>1, <2>1
    <3> QED
      BY <2>1, <3>1, <1>2, <1>5
  <2>2. CASE ~(i < k)
    <3>1. i - (k - 1) \in 1 .. Len(s) - k /\ k + (i - (k - 1)) = i + 1 /\ ~(i <= k - 1)
      BY <1>1, <2>2
    <3>2. (left \o right)[i] = right[i - (k - 1)]
      BY <3>1, <1>5
    <3> QED
      BY <2>2, <3>1, <3>2, <1>3
  <2> QED
    BY <2>1, <2>2
<1> QED
  BY <1>4, <1>5, <1>6, LenProperties

\* Of the first element it leaves the tail.
LEMMA RemoveHead ==
  ASSUME NEW S, NEW s \in Seq(S), s # <<>>
  PROVE  RemoveFirst(s, Head(s)) = Tail(s)
<1> DEFINE I == {i \in 1 .. Len(s) : s[i] = Head(s)}
<1>1. 1 \in I /\ Len(s) \in Nat /\ Len(s) > 0
  BY EmptySeq
<1>2. Min(I) = 1
  <2>0. I \subseteq Nat
    OBVIOUS
  <2>1. Min(I) \in I /\ \A y \in I : Min(I) <= y
    <3> HIDE DEF I
    <3> QED
      BY <1>1, <2>0, MinIn
  <2>2. Min(I) \in 1 .. Len(s) /\ Min(I) <= 1
    BY <2>1, <1>1
  <2> QED
    BY <2>2, <1>1
<1>3. RemoveFirst(s, Head(s)) = SubSeq(s, 1, Min(I) - 1) \o SubSeq(s, Min(I) + 1, Len(s))
  BY <1>1 DEF RemoveFirst, RemoveAt, SelectInSeq
<1>4. SubSeq(s, 1, 0) = <<>> /\ SubSeq(s, 2, Len(s)) = Tail(s)
  BY SubSeqEmpty, TailIsSubSeq
<1>5. Tail(s) \in Seq(S)
  BY HeadTailProperties
<1>6. <<>> \o Tail(s) = Tail(s)
  BY <1>5, ConcatEmptySeq
<1> HIDE DEF I
<1>7. RemoveFirst(s, Head(s)) = SubSeq(s, 1, 0) \o SubSeq(s, 2, Len(s))
  BY <1>2, <1>3
<1> QED
  BY <1>4, <1>6, <1>7

\* Elements of a sequence without its first, and with one more.
LEMMA TailRange ==
  ASSUME NEW S, NEW s \in Seq(S), s # <<>>
  PROVE  Head(s) \in Range(s) /\ Range(Tail(s)) \subseteq Range(s)
<1>1. Len(s) \in Nat \ {0} /\ DOMAIN s = 1 .. Len(s)
  BY EmptySeq
<1>2. /\ DOMAIN Tail(s) = 1 .. Len(s) - 1
      /\ \A i \in 1 .. Len(s) - 1 : Tail(s)[i] = s[i + 1]
  BY HeadTailProperties, <1>1
<1>3. s[1] \in Range(s) /\ Head(s) = s[1]
  BY <1>1 DEF Range
<1>4. ASSUME NEW i \in 1 .. Len(s) - 1 PROVE Tail(s)[i] \in Range(s)
  <2>1. i + 1 \in 1 .. Len(s)
    BY <1>1
  <2> QED
    BY <1>1, <1>2, <2>1 DEF Range
<1> QED
  BY <1>2, <1>3, <1>4 DEF Range

LEMMA AppendRange ==
  ASSUME NEW S, NEW s \in Seq(S), NEW e \in S
  PROVE  \A p \in Range(Append(s, e)) : p \in Range(s) \/ p = e
<1>1. Len(s) \in Nat /\ DOMAIN s = 1 .. Len(s)
  OBVIOUS
<1>2. /\ DOMAIN Append(s, e) = 1 .. Len(s) + 1
      /\ \A i \in 1 .. Len(s) : Append(s, e)[i] = s[i]
      /\ Append(s, e)[Len(s) + 1] = e
  BY <1>1, AppendProperties
<1>3. ASSUME NEW i \in 1 .. Len(s) + 1
      PROVE  Append(s, e)[i] \in Range(s) \/ Append(s, e)[i] = e
  <2>1. i \in 1 .. Len(s) \/ i = Len(s) + 1
    BY <1>1
  <2> QED
    BY <1>1, <1>2, <2>1 DEF Range
<1> QED
  BY <1>2, <1>3 DEF Range

\* What the router does with its routes when it is told that a listener is gone.
LEMMA FirstRouteGoes ==
  ASSUME NEW S, NEW list \in Seq(S), NEW x
  PROVE  \/ /\ Unsubscribed(list, x) = list
            /\ \A j \in DOMAIN list : list[j].expression # x
         \/ \E k \in DOMAIN list :
              /\ list[k].expression = x
              /\ \A j \in DOMAIN list : list[j].expression = x => k <= j
              /\ Unsubscribed(list, x) = RemoveAt(list, k)
<1> DEFINE found == {i \in 1 .. Len(list) : list[i].expression = x}
<1>1. Unsubscribed(list, x) =
        IF \E i \in 1 .. Len(list) : list[i].expression = x
        THEN RemoveAt(list, IF found # {} THEN Min(found) ELSE 0)
        ELSE list
  BY DEF Unsubscribed, RemoveFirstMatch, SelectInSeq
<1>2. CASE found = {}
  BY <1>1, <1>2, LenProperties
<1>3. CASE found # {}
  <2>1. Min(found) \in found /\ \A j \in found : Min(found) <= j
    <3>1. found \subseteq Nat
      OBVIOUS
    <3> HIDE DEF found
    <3> QED
      BY <1>3, <3>1, MinIn
  <2> QED
    BY <1>1, <1>3, <2>1, LenProperties
<1> QED
  BY <1>2, <1>3

LEMMA RemoveAtRange ==
  ASSUME NEW S, NEW s \in Seq(S), NEW k \in DOMAIN s
  PROVE  RemoveAt(s, k) \in Seq(S) /\ Range(RemoveAt(s, k)) \subseteq Range(s)
<1>1. Len(s) \in Nat /\ DOMAIN s = 1 .. Len(s)
  BY LenProperties
<1>2. /\ RemoveAt(s, k) \in Seq(S) /\ DOMAIN RemoveAt(s, k) = 1 .. Len(s) - 1
      /\ \A i \in 1 .. Len(s) - 1 :
           RemoveAt(s, k)[i] = IF i < k THEN s[i] ELSE s[i + 1]
  BY <1>1, RemoveAtProperties
<1>3. ASSUME NEW i \in 1 .. Len(s) - 1 PROVE RemoveAt(s, k)[i] \in Range(s)
  <2>1. i \in DOMAIN s /\ i + 1 \in DOMAIN s
    BY <1>1
  <2> QED
    BY <1>2, <2>1 DEF Range
<1> QED
  BY <1>2, <1>3 DEF Range

LEMMA UnsubscribedRange ==
  ASSUME NEW S, NEW list \in Seq(S), NEW x
  PROVE  Unsubscribed(list, x) \in Seq(S) /\ Range(Unsubscribed(list, x)) \subseteq Range(list)
BY FirstRouteGoes, RemoveAtRange

-----------------------------------------------------------------------------
(* The inductive invariant.                                                *)

Route == [id : Ids \cup {NoId}, expression : Exprs]
AppStates ==
  {Idle} \cup [at : {"add"}, expression : Exprs, slot : 1 .. Slots, id : Ids]
         \cup [at : {"remove"}, expression : Exprs]

Types ==
  /\ listeners \in [1 .. Slots -> Listener \cup {None}]
  /\ nextId \in 1 .. MaxIds + 1
  /\ app \in [Apps -> AppStates]
  /\ routes \in Seq(Route)
  /\ wire \in Seq(Message) /\ queue \in Seq(Message)
  /\ sent \in 0 .. MaxMessages /\ handled \in Nat
  /\ callback \in Listener \cup {None}
  /\ cb \in {"loop", "waiting", "woken", "item", "calling", "ended"}
  /\ reader \in {"reading", "ended"}
  /\ stop \in {"none", "stopping", "joining", "done"}
  /\ overtaken \subseteq Exprs /\ unsent \subseteq Exprs

\* A listener that is being added is still in its slot, unless it is known to have been
\* removed meanwhile; and its id stands for its expression.
OwnSlot(a) ==
  app[a].at = "add" =>
    /\ app[a].id < nextId
    /\ app[a].expression \notin overtaken =>
         listeners[app[a].slot] # None /\ listeners[app[a].slot].id = app[a].id
    /\ \A l \in Listening : l.id = app[a].id => l.expression = app[a].expression

\* Wherever the id of a listener is found.
Known == Listening \cup Range(routes) \cup Range(queue) \cup Range(wire)

\* The id of a listener was given out once, and is found with its expression or with
\* one whose listener was overtaken.
IdsAgree ==
  /\ \A p \in Known : p.id < nextId
  /\ \A l \in Listening, p \in Known :
       l.id = p.id => l.expression = p.expression \/ p.expression \in overtaken

\* What the callback thread holds is at the front of the list.
Holding ==
  /\ cb \in {"item", "calling"} /\ item # None => queue # <<>> /\ item = Head(queue)
  /\ cb = "calling" => item # None
  /\ callback # None =>
       /\ cb = "calling"
       /\ callback.expression = item.expression \/ item.expression \in overtaken
  /\ stop = "done" => cb = "ended" /\ reader = "ended"

\* What is queued and on its way is numbered from the first not yet handled.
InLine ==
  stop # "done" =>
    /\ Len(queue \o wire) = sent - handled
    /\ \A i \in 1 .. Len(queue \o wire) : (queue \o wire)[i].n = handled + i

ListenersIInv ==
  /\ Types
  /\ \A a \in Apps : OwnSlot(a)
  /\ IdsAgree
  /\ Holding
  /\ InLine

LEMMA ListenersInit == Init => ListenersIInv
<1> SUFFICES ASSUME Init PROVE ListenersIInv
  OBVIOUS
<1> USE ConnListenersAssumption, NoneAssumption DEF Init
<1>1. Types
  BY DEF Types, AppStates
<1>2. ASSUME NEW a \in Apps PROVE OwnSlot(a)
  BY DEF OwnSlot, Idle
<1>3. Known = {}
  BY DEF Known, Listening, InUse, Range
<1>4. IdsAgree
  BY <1>3 DEF IdsAgree
<1>5. Holding
  BY DEF Holding
<1>6. InLine
  BY DEF InLine
<1> QED
  BY <1>1, <1>2, <1>4, <1>5, <1>6 DEF ListenersIInv

\* Steps that give out no id keep it if they bring none up.
LEMMA KnownStep ==
  ASSUME IdsAgree, nextId' = nextId, overtaken \subseteq overtaken', Listening' \subseteq Listening,
         \A p \in Known' : \E q \in Known : p.id = q.id /\ p.expression = q.expression
  PROVE  IdsAgree'
<1>1. ASSUME NEW p \in Known' PROVE p.id < nextId'
  BY DEF IdsAgree
<1>2. ASSUME NEW l \in Listening', NEW p \in Known', l.id = p.id
      PROVE  l.expression = p.expression \/ p.expression \in overtaken'
  <2>1. PICK q \in Known : p.id = q.id /\ p.expression = q.expression
    OBVIOUS
  <2> QED
    BY <1>2, <2>1 DEF IdsAgree
<1> QED
  BY <1>1, <1>2 DEF IdsAgree

-----------------------------------------------------------------------------
(* The steps of the application.                                           *)

LEMMA AddStep ==
  ASSUME ListenersIInv, NEW a \in Apps, NEW x \in Exprs, AddListener(a, x)
  PROVE  ListenersIInv'
<1> USE ConnListenersAssumption, NoneAssumption DEF ListenersIInv
<1> DEFINE i == Min(DOMAIN listeners \ InUse)
           l == [id |-> nextId, expression |-> x]
           call == [at |-> "add", expression |-> x, slot |-> i, id |-> nextId]
<1>1. /\ app[a] = Idle /\ nextId <= MaxIds
      /\ DOMAIN listeners \ InUse # {}
      /\ listeners' = [listeners EXCEPT ![i] = l]
      /\ nextId' = nextId + 1
      /\ app' = [app EXCEPT ![a] = call]
      /\ UNCHANGED <<routes, msgVars, queue, cbVars, stopVars, history>>
  BY DEF AddListener
<1>2. DOMAIN listeners = 1 .. Slots /\ nextId \in Ids
  BY <1>1 DEF Types, Ids
<1>3. i \in 1 .. Slots /\ listeners[i] = None
  <2>1. i \in DOMAIN listeners \ InUse
    <3>1. (1 .. Slots) \ InUse \subseteq Nat
      OBVIOUS
    <3> QED
      BY <1>1, <1>2, <3>1, MinIn
  <2> QED
    BY <2>1, <1>2 DEF InUse
<1> HIDE DEF i
<1>4. l \in Listener /\ l # None /\ l.id = nextId /\ l.expression = x
  BY <1>2 DEF Listener
<1>5. call \in AppStates /\ call.at = "add" /\ call.slot = i /\ call.id = nextId
      /\ call.expression = x
  BY <1>2, <1>3 DEF AppStates
<1> HIDE DEF l, call
<1>6. /\ listeners' \in [1 .. Slots -> Listener \cup {None}]
      /\ listeners'[i] = l /\ \A j \in 1 .. Slots \ {i} : listeners'[j] = listeners[j]
  BY <1>1, <1>3, <1>4 DEF Types
<1>7. app' \in [Apps -> AppStates] /\ app'[a] = call
      /\ \A b \in Apps \ {a} : app'[b] = app[b]
  BY <1>1, <1>5 DEF Types
<1>8. Types'
  BY <1>1, <1>2, <1>6, <1>7 DEF Types, Ids, msgVars, cbVars, stopVars, history
<1>9. Listening' = Listening \cup {l}
  BY <1>2, <1>3, <1>4, <1>6 DEF Listening, InUse
<1>10. \A p \in Known : p.id # nextId
  BY <1>2 DEF IdsAgree, Ids
<1>11. ASSUME NEW b \in Apps PROVE OwnSlot(b)'
  <2>1. CASE b = a
    <3>1. \A k \in Listening' : k.id = nextId => k = l
      BY <1>9, <1>10 DEF Known
    <3> QED
      BY <2>1, <3>1, <1>1, <1>2, <1>4, <1>5, <1>6, <1>7 DEF OwnSlot, Ids
  <2>2. ASSUME b # a, app[b].at = "add" PROVE OwnSlot(b)'
    <3>1. app'[b] = app[b] /\ OwnSlot(b)
      BY <2>2, <1>7
    <3>2. app[b].slot \in 1 .. Slots /\ app[b].id \in Ids
      BY <2>2 DEF Types, AppStates, Idle
    <3>3. app[b].id < nextId' /\ app[b].id # nextId
      BY <2>2, <3>1, <3>2, <1>1, <1>2 DEF OwnSlot, Ids
    <3>4. app[b].expression \notin overtaken' =>
            listeners'[app[b].slot] # None /\ listeners'[app[b].slot].id = app[b].id
      BY <2>2, <3>1, <3>2, <1>1, <1>3, <1>6 DEF OwnSlot, history
    <3>5. \A k \in Listening' : k.id = app[b].id => k.expression = app[b].expression
      BY <2>2, <3>1, <3>3, <1>4, <1>9 DEF OwnSlot
    <3> QED
      BY <3>1, <3>3, <3>4, <3>5 DEF OwnSlot
  <2> QED
    BY <2>1, <2>2, <1>7 DEF OwnSlot
<1>12. Known' = Known \cup {l}
  BY <1>1, <1>9 DEF Known, msgVars
<1>13. IdsAgree'
  <2>1. ASSUME NEW p \in Known' PROVE p.id < nextId'
    <3>1. CASE p = l
      BY <3>1, <1>1, <1>2, <1>4 DEF Ids
    <3>2. CASE p \in Known
      <4>1. p.id \in Ids \cup {NoId}
        <5>0. /\ Range(routes) \subseteq Route
              /\ Range(queue) \subseteq Message /\ Range(wire) \subseteq Message
          BY RangeOfSeq DEF Types
        <5>1. CASE p \in Listening
          BY <5>1 DEF Types, Listening, InUse, Listener
        <5>2. CASE p \in Range(routes)
          BY <5>0, <5>2 DEF Route
        <5>3. CASE p \in Range(queue) \cup Range(wire)
          BY <5>0, <5>3 DEF Message
        <5> QED
          BY <3>2, <5>1, <5>2, <5>3 DEF Known
      <4> QED
        BY <3>2, <4>1, <1>1, <1>2 DEF IdsAgree, Ids, NoId
    <3> QED
      BY <3>1, <3>2, <1>12
  <2>2. ASSUME NEW k \in Listening', NEW p \in Known', k.id = p.id
        PROVE  k.expression = p.expression \/ p.expression \in overtaken'
    <3>1. k \in Known \/ k = l
      BY <1>9 DEF Known
    <3>2. k = l <=> p = l
      BY <2>2, <3>1, <1>4, <1>10, <1>12
    <3> QED
      BY <2>2, <3>2, <1>1, <1>9, <1>12 DEF IdsAgree, history
  <2> QED
    BY <2>1, <2>2 DEF IdsAgree
<1>14. Holding' /\ InLine'
  BY <1>1 DEF Holding, InLine, msgVars, cbVars, stopVars, history
<1> QED
  BY <1>8, <1>11, <1>13, <1>14

LEMMA RemoveStep ==
  ASSUME ListenersIInv, NEW a \in Apps, NEW x \in Exprs, RemoveListener(a, x)
  PROVE  ListenersIInv'
<1> USE ConnListenersAssumption, NoneAssumption DEF ListenersIInv
<1>1. PICK i \in InUse :
        /\ listeners[i].expression = x
        /\ listeners' = [listeners EXCEPT ![i] = None]
        /\ overtaken' = IF \E b \in Apps : app[b].at = "add" /\ app[b].id = listeners[i].id
                        THEN overtaken \cup {x} ELSE overtaken
  BY DEF RemoveListener
<1>2. /\ app[a] = Idle
      /\ app' = [app EXCEPT ![a] = [at |-> "remove", expression |-> x]]
      /\ UNCHANGED <<nextId, routes, msgVars, queue, cbVars, stopVars, unsent>>
  BY DEF RemoveListener
<1>3. overtaken \subseteq overtaken' /\ overtaken' \subseteq Exprs
  BY <1>1 DEF Types
<1>4. i \in 1 .. Slots /\ listeners[i] # None
      /\ listeners' \in [1 .. Slots -> Listener \cup {None}]
      /\ listeners'[i] = None /\ \A j \in 1 .. Slots \ {i} : listeners'[j] = listeners[j]
  BY <1>1 DEF Types, InUse
<1>5. app' \in [Apps -> AppStates] /\ app'[a].at = "remove"
      /\ \A b \in Apps \ {a} : app'[b] = app[b]
  BY <1>2 DEF Types, AppStates
<1>6. Types'
  BY <1>2, <1>3, <1>4, <1>5 DEF Types, msgVars, cbVars, stopVars
<1>7. Listening' \subseteq Listening
  BY <1>4 DEF Listening, InUse, Types
<1>8. ASSUME NEW b \in Apps PROVE OwnSlot(b)'
  <2>1. CASE b = a
    BY <2>1, <1>5 DEF OwnSlot
  <2>2. ASSUME b # a, app[b].at = "add" PROVE OwnSlot(b)'
    <3>1. app'[b] = app[b] /\ OwnSlot(b)
      BY <2>2, <1>5
    <3>2. app[b].slot \in 1 .. Slots
      BY <2>2 DEF Types, AppStates, Idle
    <3>3. app[b].expression \notin overtaken' => app[b].slot # i
      <4> SUFFICES ASSUME app[b].expression \notin overtaken', app[b].slot = i PROVE FALSE
        OBVIOUS
      <4>1. listeners[i].id = app[b].id
        BY <2>2, <3>1, <1>3 DEF OwnSlot
      <4>2. x \in overtaken'
        BY <2>2, <4>1, <1>1
      <4>3. listeners[i] \in Listening
        BY <1>1 DEF Listening
      <4>4. x = app[b].expression
        BY <2>2, <3>1, <4>1, <4>3, <1>1 DEF OwnSlot
      <4> QED
        BY <4>2, <4>4
    <3> QED
      BY <2>2, <3>1, <3>2, <3>3, <1>2, <1>3, <1>4, <1>7 DEF OwnSlot
  <2> QED
    BY <2>1, <2>2, <1>5 DEF OwnSlot
<1>9. Known' \subseteq Known
  BY <1>2, <1>7 DEF Known, msgVars
<1>10. IdsAgree'
  BY <1>2, <1>3, <1>7, <1>9, KnownStep
<1>11. Holding' /\ InLine'
  BY <1>2, <1>3 DEF Holding, InLine, msgVars, cbVars, stopVars
<1> QED
  BY <1>6, <1>8, <1>10, <1>11

\* The router may be told of a listener by the id of another, but then the listener was
\* overtaken.
LEMMA TellAddStep ==
  ASSUME ListenersIInv, NEW a \in Apps, SendAdd(a)
  PROVE  ListenersIInv'
<1> USE ConnListenersAssumption, NoneAssumption DEF ListenersIInv
<1> DEFINE x == app[a].expression
           l == listeners[app[a].slot]
           id == IF l = None THEN NoId ELSE l.id
           r == [id |-> id, expression |-> x]
<1>1. /\ app[a].at = "add" /\ app' = [app EXCEPT ![a] = Idle]
      /\ routes' = routes \/ routes' = Append(routes, r)
      /\ unsent' \subseteq unsent \cup {x}
      /\ overtaken' = overtaken \/ (l # None /\ overtaken' = overtaken \cup {l.expression})
      /\ UNCHANGED <<listeners, nextId, msgVars, queue, cbVars, stopVars>>
  BY DEF SendAdd, Subscribed
<1>2. x \in Exprs /\ app[a].slot \in 1 .. Slots
  BY <1>1 DEF Types, AppStates, Idle
<1>3. l \in Listener \cup {None} /\ (l # None => l \in Listening)
  BY <1>2 DEF Types, Listening, InUse
<1>4. r \in Route /\ r.id = id /\ r.expression = x
  BY <1>2, <1>3 DEF Route, Listener
<1>5. id < nextId
  BY <1>3 DEF IdsAgree, Known, NoId, Types
<1>6. \A k \in Listening : k.id = id => k.expression = x \/ x \in overtaken
  <2> SUFFICES ASSUME NEW k \in Listening, k.id = id, x \notin overtaken
               PROVE  k.expression = x
    OBVIOUS
  <2>1. l # None /\ l.id = app[a].id
    BY <1>1 DEF OwnSlot
  <2> QED
    BY <2>1, <1>1 DEF OwnSlot
<1> HIDE DEF r, id
<1>7. overtaken \subseteq overtaken' /\ overtaken' \subseteq Exprs
  BY <1>1, <1>3 DEF Types, Listener
<1> HIDE DEF l, x
<1>8. routes' \in Seq(Route) /\ \A p \in Range(routes') : p \in Range(routes) \/ p = r
  <2>1. Append(routes, r) \in Seq(Route) /\ \A p \in Range(Append(routes, r)) : p \in Range(routes) \/ p = r
    BY <1>4, AppendProperties, AppendRange DEF Types
  <2>2. CASE routes' = routes
    BY <2>2 DEF Types
  <2>3. CASE routes' = Append(routes, r)
    BY <2>1, <2>3
  <2> QED
    BY <1>1, <2>2, <2>3
<1>9. app' \in [Apps -> AppStates] /\ app'[a] = Idle /\ \A b \in Apps \ {a} : app'[b] = app[b]
  BY <1>1 DEF Types, AppStates
<1>10. Types'
  BY <1>1, <1>2, <1>7, <1>8, <1>9 DEF Types, msgVars, cbVars, stopVars
<1>11. Listening' = Listening
  BY <1>1 DEF Listening, InUse
<1>12. ASSUME NEW b \in Apps PROVE OwnSlot(b)'
  <2>1. CASE b = a
    BY <2>1, <1>9 DEF OwnSlot, Idle
  <2>2. CASE b # a
    BY <2>2, <1>1, <1>7, <1>9, <1>11 DEF OwnSlot
  <2> QED
    BY <2>1, <2>2
<1>13. IdsAgree'
  <2>1. \A p \in Known' : p \in Known \/ p = r
    BY <1>1, <1>8, <1>11 DEF Known, msgVars
  <2>2. ASSUME NEW p \in Known' PROVE p.id < nextId'
    BY <2>1, <1>1, <1>4, <1>5 DEF IdsAgree
  <2>3. ASSUME NEW k \in Listening', NEW p \in Known', k.id = p.id
        PROVE  k.expression = p.expression \/ p.expression \in overtaken'
    BY <2>1, <2>3, <1>4, <1>6, <1>7, <1>11 DEF IdsAgree
  <2> QED
    BY <2>2, <2>3 DEF IdsAgree
<1>14. Holding' /\ InLine'
  BY <1>1, <1>7 DEF Holding, InLine, msgVars, cbVars, stopVars
<1> QED
  BY <1>10, <1>12, <1>13, <1>14

LEMMA TellRemoveStep ==
  ASSUME ListenersIInv, NEW a \in Apps, SendRemove(a)
  PROVE  ListenersIInv'
<1> USE ConnListenersAssumption, NoneAssumption DEF ListenersIInv
<1>1. /\ app[a].at = "remove" /\ app' = [app EXCEPT ![a] = Idle]
      /\ unsent' \subseteq unsent \cup {app[a].expression}
      /\ UNCHANGED <<listeners, nextId, msgVars, queue, cbVars, stopVars, overtaken>>
  BY DEF SendRemove
<1>2. app[a].expression \in Exprs
  BY <1>1 DEF Types, AppStates, Idle
<1>3. routes' \in Seq(Route) /\ Range(routes') \subseteq Range(routes)
  <2> DEFINE once == Unsubscribed(routes, app[a].expression)
             twice == Unsubscribed(once, app[a].expression)
  <2>1. once \in Seq(Route) /\ Range(once) \subseteq Range(routes)
    BY UnsubscribedRange DEF Types
  <2>2. twice \in Seq(Route) /\ Range(twice) \subseteq Range(once)
    <3> HIDE DEF once
    <3> QED
      BY <2>1, UnsubscribedRange
  <2>3. routes' = once \/ routes' = routes \/ routes' = twice
    BY DEF SendRemove
  <2> HIDE DEF once, twice
  <2> QED
    BY <2>1, <2>2, <2>3 DEF Types
<1>4. app' \in [Apps -> AppStates] /\ app'[a] = Idle /\ \A b \in Apps \ {a} : app'[b] = app[b]
  BY <1>1 DEF Types, AppStates
<1>5. Types'
  BY <1>1, <1>2, <1>3, <1>4 DEF Types, msgVars, cbVars, stopVars
<1>6. Listening' = Listening
  BY <1>1 DEF Listening, InUse
<1>7. ASSUME NEW b \in Apps PROVE OwnSlot(b)'
  <2>1. CASE b = a
    BY <2>1, <1>4 DEF OwnSlot, Idle
  <2>2. CASE b # a
    BY <2>2, <1>1, <1>4, <1>6 DEF OwnSlot
  <2> QED
    BY <2>1, <2>2
<1>8. IdsAgree'
  <2>1. Known' \subseteq Known
    BY <1>1, <1>3, <1>6 DEF Known, msgVars
  <2> QED
    BY <1>1, <1>6, <2>1, KnownStep
<1>9. Holding' /\ InLine'
  BY <1>1 DEF Holding, InLine, msgVars, cbVars, stopVars
<1> QED
  BY <1>5, <1>7, <1>8, <1>9

-----------------------------------------------------------------------------
(* The steps of the messages and of the callback thread.                   *)

\* The connection's listeners and routes stay as they are.
LEMMA AppsStay ==
  ASSUME ListenersIInv, UNCHANGED <<appVars, history>>,
         Range(queue') \cup Range(wire') \subseteq Known
  PROVE  (\A a \in Apps : OwnSlot(a)') /\ IdsAgree'
<1> USE DEF ListenersIInv
<1>1. \A a \in Apps : OwnSlot(a)'
  BY DEF OwnSlot, Listening, InUse, appVars, history
<1>2. Known' \subseteq Known /\ Listening' = Listening
  BY DEF Known, Listening, InUse, appVars
<1>3. IdsAgree'
  BY <1>2, KnownStep DEF appVars, history
<1> QED
  BY <1>1, <1>3

LEMMA ForwardStep ==
  ASSUME ListenersIInv, NEW r \in Range(routes), Forward(r)
  PROVE  ListenersIInv'
<1> USE DEF ListenersIInv
<1> DEFINE m == [n |-> sent + 1, id |-> r.id, expression |-> r.expression]
<1>0. /\ wire \in Seq(Message) /\ queue \in Seq(Message)
      /\ sent \in Nat /\ handled \in Nat /\ Len(queue) \in Nat /\ Len(wire) \in Nat
  BY DEF Types
<1>1. /\ sent < MaxMessages /\ sent' = sent + 1 /\ wire' = Append(wire, m)
      /\ UNCHANGED <<appVars, queue, cbVars, stopVars, history>>
  BY DEF Forward
<1>2. r \in Route
  BY DEF Types, Range
<1>3. m \in Message
  BY <1>1, <1>2, ConnListenersAssumption DEF Types, Message, Route
<1>4. m.n = sent + 1 /\ m.id = r.id /\ m.expression = r.expression
  OBVIOUS
<1> HIDE DEF m
<1>5. /\ wire' \in Seq(Message) /\ Len(wire') = Len(wire) + 1
      /\ \A i \in 1 .. Len(wire) : wire'[i] = wire[i]
      /\ wire'[Len(wire) + 1] = m
  BY <1>1, <1>3, AppendProperties DEF Types
<1>6. Types'
  BY <1>1, <1>5, ConnListenersAssumption DEF Types, appVars, cbVars, stopVars, history
<1>7. \A p \in Range(wire') : p \in Range(wire) \/ p = m
  BY <1>1, <1>3, AppendRange DEF Types
<1>8. \A a \in Apps : OwnSlot(a)'
  BY <1>1 DEF OwnSlot, Listening, InUse, appVars, history
<1>9. IdsAgree'
  <2>1. \A p \in Known' : p \in Known \/ p = m
    BY <1>1, <1>7 DEF Known, Listening, InUse, appVars
  <2>2. r \in Known
    BY DEF Known
  <2> QED
    <3>1. Listening' = Listening
      BY <1>1 DEF Listening, InUse, appVars
    <3> QED
      BY <1>1, <1>4, <2>1, <2>2, <3>1, KnownStep DEF appVars, history
<1>10. Holding'
  BY <1>1 DEF Holding, cbVars, stopVars, history
<1>11. InLine'
  <2> SUFFICES ASSUME stop # "done" PROVE InLine'
    BY <1>1 DEF InLine, stopVars
  <2>1. /\ queue \o wire \in Seq(Message) /\ Len(queue \o wire) = Len(queue) + Len(wire)
        /\ \A i \in 1 .. Len(queue) + Len(wire) :
             (queue \o wire)[i] = IF i <= Len(queue) THEN queue[i] ELSE wire[i - Len(queue)]
    BY <1>0, ConcatProperties
  <2>2. /\ Len(queue \o wire') = Len(queue) + Len(wire')
        /\ \A i \in 1 .. Len(queue) + Len(wire') :
             (queue \o wire')[i] = IF i <= Len(queue) THEN queue[i] ELSE wire'[i - Len(queue)]
    BY <1>0, <1>5, ConcatProperties
  <2>3. Len(queue \o wire') = sent' - handled
    BY <1>1, <1>5, <2>1, <2>2, <1>0 DEF InLine
  <2>4. ASSUME NEW i \in 1 .. Len(queue) + Len(wire')
        PROVE  (queue \o wire')[i].n = handled + i
    <3>1. CASE i \in 1 .. Len(queue) + Len(wire)
      <4>1. (queue \o wire')[i] = (queue \o wire)[i]
        BY <3>1, <1>0, <1>5, <2>1, <2>2
      <4> QED
        BY <3>1, <4>1, <2>1 DEF InLine
    <3>2. CASE i = Len(queue) + Len(wire) + 1
      <4>1. (queue \o wire')[i] = m
        BY <3>2, <1>0, <1>5, <2>2
      <4> QED
        BY <3>2, <4>1, <1>4, <2>1, <1>0 DEF InLine
    <3> QED
      BY <3>1, <3>2, <1>5, <1>0
  <2> QED
    BY <1>1, <2>2, <2>3, <2>4 DEF InLine, cbVars, stopVars
<1> QED
  BY <1>6, <1>8, <1>9, <1>10, <1>11

LEMMA ReadStep ==
  ASSUME ListenersIInv, ReadMessage
  PROVE  ListenersIInv'
<1> USE DEF ListenersIInv
<1> DEFINE m == Head(wire)
<1>0. wire \in Seq(Message) /\ queue \in Seq(Message)
  BY DEF Types
<1>1. /\ reader = "reading" /\ wire # <<>> /\ wire' = Tail(wire) /\ queue' = Append(queue, m)
      /\ cb' = Signal
      /\ UNCHANGED <<appVars, sent, item, callback, handled, stopVars, history>>
  BY DEF ReadMessage
<1>2. /\ m \in Message /\ wire' \in Seq(Message) /\ wire = <<m>> \o Tail(wire)
      /\ m \in Range(wire) /\ Range(wire') \subseteq Range(wire)
  <2>1. m \in Message /\ wire' \in Seq(Message) /\ Len(wire') = Len(wire) - 1
        /\ \A i \in 1 .. Len(wire') : wire'[i] = wire[i + 1]
    BY <1>1, HeadTailProperties DEF Types
  <2>2. 1 \in DOMAIN wire /\ wire[1] = m
    BY <1>1, EmptySeq DEF Types
  <2>3. wire = <<m>> \o Tail(wire)
    <3>1. 1 \in 1 .. Len(wire) /\ Len(wire) \in 1 .. Len(wire) /\ Len(wire) \in Nat
      BY <1>1, EmptySeq DEF Types
    <3>2. SubSeq(wire, 1, Len(wire)) = <<wire[1]>> \o SubSeq(wire, 2, Len(wire))
      BY <3>1, SubSeqRecursiveFirst DEF Types
    <3> QED
      BY <3>2, <2>2, <1>1, SubSeqFull, TailIsSubSeq DEF Types
  <2> QED
    BY <2>1, <2>3, <1>1, TailRange DEF Types
<1> HIDE DEF m
<1>3. /\ queue' \in Seq(Message) /\ queue' # <<>> /\ queue' = queue \o <<m>>
      /\ (queue # <<>> => Head(queue') = Head(queue))
      /\ \A p \in Range(queue') : p \in Range(queue) \/ p = m
  <2>1. m \in Message
    BY <1>2
  <2>2. /\ Append(queue, m) \in Seq(Message) /\ Append(queue, m) # <<>>
        /\ Append(queue, m) = queue \o <<m>>
        /\ (queue # <<>> => Head(Append(queue, m)) = Head(queue))
    BY <1>0, <2>1, AppendProperties, AppendIsConcat, HeadTailAppend
  <2>3. \A p \in Range(Append(queue, m)) : p \in Range(queue) \/ p = m
    BY <1>0, <2>1, AppendRange
  <2> QED
    BY <1>1, <2>2, <2>3
<1>4. queue' \o wire' = queue \o wire
  <2>1. <<m>> \in Seq(Message) /\ wire' = Tail(wire)
    BY <1>1, <1>2
  <2>2. (queue \o <<m>>) \o wire' = queue \o (<<m>> \o wire')
    BY <1>2, <2>1, ConcatAssociative DEF Types
  <2> QED
    BY <1>2, <1>3, <2>1, <2>2
<1>5. cb' \in {"loop", "waiting", "woken", "item", "calling", "ended"}
      /\ (cb' \in {"item", "calling", "ended"} \/ cb \in {"item", "calling", "ended"} => cb' = cb)
  BY <1>1 DEF Signal, Types
<1>6. Types'
  BY <1>1, <1>2, <1>3, <1>5 DEF Types, appVars, stopVars, history
<1>7. (\A a \in Apps : OwnSlot(a)') /\ IdsAgree'
  BY <1>1, <1>2, <1>3, AppsStay DEF Known
<1>8. Holding'
  BY <1>1, <1>3, <1>5 DEF Holding, stopVars, history
<1>9. InLine'
  BY <1>1, <1>4 DEF InLine, stopVars
<1> QED
  BY <1>6, <1>7, <1>8, <1>9

\* Steps that leave messages and listeners alone, those of destroying among them.
LEMMA QuietStep ==
  ASSUME ListenersIInv,
         \/ ReaderEnds \/ LockList \/ SpuriousWakeup \/ Wake
         \/ Stop \/ SignalStop \/ UNCHANGED vars
  PROVE  ListenersIInv'
<1> USE DEF ListenersIInv
<1>1. UNCHANGED <<appVars, msgVars, queue, callback, handled, history>>
  BY DEF ReaderEnds, LockList, SpuriousWakeup, Wake, Stop, SignalStop, vars, cbVars
<1>2. /\ cb' \in {"loop", "waiting", "woken", "item", "calling", "ended"}
      /\ reader' \in {"reading", "ended"} /\ stop' \in {"none", "stopping", "joining", "done"}
      /\ (reader = "ended" => reader' = "ended")
      /\ (stop' = "done" <=> stop = "done")
      /\ \/ cb' = cb /\ item' = item
         \/ cb \notin {"calling", "item", "ended"} /\ cb' \notin {"item", "calling"}
         \/ cb \notin {"calling", "ended"} /\ cb' = "item" /\ item' = Front0(queue)
  BY DEF ReaderEnds, LockList, SpuriousWakeup, Wake, Stop, SignalStop, Signal, vars, cbVars,
         stopVars, Types
<1>3. Types'
  BY <1>1, <1>2 DEF Types, appVars, msgVars, history
<1>4. (\A a \in Apps : OwnSlot(a)') /\ IdsAgree'
  BY <1>1, AppsStay DEF Known, msgVars
<1>5. Holding'
  <2>1. Front0(queue) # None => queue # <<>> /\ Front0(queue) = Head(queue)
    BY DEF Front0
  <2> QED
    BY <1>1, <1>2, <2>1 DEF Holding, history
<1>6. InLine'
  BY <1>1, <1>2 DEF InLine, msgVars
<1> QED
  BY <1>3, <1>4, <1>5, <1>6

\* The listener with the id of a message is one of the expression of the message.
LEMMA FetchStep ==
  ASSUME ListenersIInv, Fetch
  PROVE  ListenersIInv'
<1> USE DEF ListenersIInv
<1>1. /\ cb = "item" /\ cb' \in {"ended", "loop", "calling"}
      /\ (cb' = "calling" => item # None)
      /\ callback' = (IF cb' = "calling" THEN Lookup(item) ELSE None)
      /\ UNCHANGED <<appVars, msgVars, queue, item, handled, stopVars, history>>
  BY DEF Fetch
<1>2. callback' # None =>
        /\ cb' = "calling" /\ callback' \in Listener
        /\ callback'.expression = item.expression \/ item.expression \in overtaken
  <2> SUFFICES ASSUME callback' # None
               PROVE  /\ cb' = "calling" /\ callback' \in Listener
                      /\ callback'.expression = item.expression \/ item.expression \in overtaken
    OBVIOUS
  <2>1. cb' = "calling" /\ callback' = Lookup(item)
    BY <1>1
  <2>2. callback' \in Listening /\ callback'.id = item.id
    BY <2>1 DEF Lookup
  <2>3. item \in Range(queue)
    <3>1. queue # <<>> /\ item = Head(queue)
      BY <1>1, <2>1 DEF Holding
    <3> QED
      BY <3>1, EmptySeq DEF Types, Range
  <2>4. callback' \in Listener
    BY <2>2 DEF Listening, InUse, Types
  <2> QED
    BY <2>1, <2>2, <2>3, <2>4 DEF IdsAgree, Known
<1>3. Types'
  BY <1>1, <1>2 DEF Types, appVars, msgVars, history, stopVars
<1>4. (\A a \in Apps : OwnSlot(a)') /\ IdsAgree'
  BY <1>1, AppsStay DEF Known, msgVars
<1>5. Holding' /\ InLine'
  BY <1>1, <1>2 DEF Holding, InLine, msgVars, stopVars, history
<1> QED
  BY <1>3, <1>4, <1>5

\* The message handled was the first one, and goes.
LEMMA ReturnedStep ==
  ASSUME ListenersIInv, CallbackReturns
  PROVE  ListenersIInv'
<1> USE DEF ListenersIInv
<1>1. /\ cb = "calling" /\ queue' = RemoveFirst(queue, item) /\ item' = Front0(queue')
      /\ cb' = (IF item' = None THEN "loop" ELSE "item")
      /\ handled' = handled + 1 /\ callback' = None
      /\ UNCHANGED <<appVars, msgVars, stopVars, history>>
  BY DEF CallbackReturns
<1>2. queue # <<>> /\ item = Head(queue) /\ stop # "done"
  BY <1>1 DEF Holding
<1>3. queue' = Tail(queue)
  BY <1>1, <1>2, RemoveHead DEF Types
<1>4. /\ queue' \in Seq(Message) /\ Len(queue') = Len(queue) - 1
      /\ \A i \in 1 .. Len(queue') : queue'[i] = queue[i + 1]
  BY <1>2, <1>3, HeadTailProperties DEF Types
<1>5. Types'
  BY <1>1, <1>4 DEF Types, appVars, msgVars, history, stopVars
<1>6. Range(queue') \subseteq Range(queue)
  BY <1>2, <1>3, TailRange DEF Types
<1>7. (\A a \in Apps : OwnSlot(a)') /\ IdsAgree'
  BY <1>1, <1>6, AppsStay DEF Known, msgVars
<1>8. Holding'
  <2>1. Front0(queue') # None => queue' # <<>> /\ Front0(queue') = Head(queue')
    BY DEF Front0
  <2> QED
    BY <1>1, <1>2, <2>1 DEF Holding, stopVars, history
<1>9. InLine'
  <2>1. /\ Len(queue \o wire) = Len(queue) + Len(wire)
        /\ \A i \in 1 .. Len(queue) + Len(wire) :
             (queue \o wire)[i] = IF i <= Len(queue) THEN queue[i] ELSE wire[i - Len(queue)]
    BY ConcatProperties DEF Types
  <2>2. /\ Len(queue' \o wire) = Len(queue') + Len(wire)
        /\ \A i \in 1 .. Len(queue') + Len(wire) :
             (queue' \o wire)[i] = IF i <= Len(queue') THEN queue'[i] ELSE wire[i - Len(queue')]
    BY <1>4, ConcatProperties DEF Types
  <2>3. Len(queue' \o wire) = sent - handled'
    <3>1. Len(queue) + Len(wire) = sent - handled
      BY <1>2, <2>1 DEF InLine
    <3>2. Len(queue) \in Nat /\ Len(wire) \in Nat /\ Len(queue' \o wire) = Len(queue) - 1 + Len(wire)
      BY <1>4, <2>2 DEF Types
    <3> QED
      BY <1>1, <3>1, <3>2 DEF Types
  <2>4. ASSUME NEW i \in 1 .. Len(queue') + Len(wire)
        PROVE  (queue' \o wire)[i].n = handled' + i
    <3>1. Len(queue) \in Nat /\ Len(wire) \in Nat /\ Len(queue) > 0
      BY <1>2, EmptySeq DEF Types
    <3>2. (queue' \o wire)[i] = (queue \o wire)[i + 1]
      BY <1>4, <2>1, <2>2, <3>1
    <3>3. (queue \o wire)[i + 1].n = handled + (i + 1)
      BY <1>2, <1>4, <2>1, <3>1 DEF InLine
    <3> QED
      BY <1>1, <3>2, <3>3 DEF Types
  <2> QED
    BY <1>1, <2>2, <2>3, <2>4 DEF InLine, msgVars
<1> QED
  BY <1>5, <1>7, <1>8, <1>9

LEMMA JoinedStep ==
  ASSUME ListenersIInv, Joined
  PROVE  ListenersIInv'
<1> USE DEF ListenersIInv
<1>1. /\ reader = "ended" /\ cb = "ended" /\ stop' = "done" /\ queue' = <<>>
      /\ UNCHANGED <<appVars, msgVars, cbVars, run, reader, history>>
  BY DEF Joined
<1>2. Types' /\ Holding' /\ InLine'
  BY <1>1 DEF Types, Holding, InLine, appVars, msgVars, cbVars, history
<1>3. (\A a \in Apps : OwnSlot(a)') /\ IdsAgree'
  BY <1>1, AppsStay DEF Known, msgVars, Range
<1> QED
  BY <1>2, <1>3

LEMMA ListenersStep == ListenersIInv /\ [Next]_vars => ListenersIInv'
<1> SUFFICES ASSUME ListenersIInv, [Next]_vars PROVE ListenersIInv'
  OBVIOUS
<1>1. ASSUME NEW a \in Apps,
             \/ \E x \in Exprs : AddListener(a, x) \/ RemoveListener(a, x)
             \/ SendAdd(a) \/ SendRemove(a)
      PROVE  ListenersIInv'
  BY <1>1, AddStep, RemoveStep, TellAddStep, TellRemoveStep
<1>2. ASSUME NEW r \in Range(routes), Forward(r) PROVE ListenersIInv'
  BY <1>2, ForwardStep
<1>3. CASE ReadMessage
  BY <1>3, ReadStep
<1>4. CASE Fetch \/ CallbackReturns \/ Joined
  BY <1>4, FetchStep, ReturnedStep, JoinedStep
<1> QED
  BY <1>1, <1>2, <1>3, <1>4, QuietStep DEF Next, CallbackThread

LEMMA ListenersInvariant == Spec => []ListenersIInv
  BY ListenersInit, ListenersStep, PTL DEF Spec

-----------------------------------------------------------------------------
(* The state of the listeners is well typed, and what the callback thread  *)
(* works on is still in callback_message_list.                             *)
THEOREM ListenersTypeCorrect == Spec => []TypeOK
<1>1. ListenersIInv => TypeOK
  <2> SUFFICES ASSUME ListenersIInv PROVE TypeOK
    OBVIOUS
  <2>1. queue # <<>> => Contains(queue, Head(queue))
    BY EmptySeq DEF ListenersIInv, Types, Contains
  <2> QED
    BY <2>1 DEF ListenersIInv, Types, Holding, TypeOK, Route
<1> QED
  BY <1>1, ListenersInvariant, PTL

(* However slots are reused and listeners come and go, the callback thread *)
(* hands a message to the listener of its expression or to none, unless a  *)
(* listener of that expression was removed while it was being added.       *)
THEOREM CallbackOfExpression == Spec => []RightListener
<1>1. ListenersIInv => RightListener
  BY DEF ListenersIInv, Holding, RightListener
<1> QED
  BY <1>1, ListenersInvariant, PTL

(* Each message the router forwarded is handled once, in order: the others *)
(* are in callback_message_list or on their way, and none is in between.   *)
THEOREM MessagesInOrder == Spec => []HandledInOrder
<1>1. ListenersIInv => HandledInOrder
  <2> SUFFICES ASSUME ListenersIInv PROVE HandledInOrder
    OBVIOUS
  <2> USE DEF ListenersIInv
  <2>1. /\ Len(queue \o wire) = Len(queue) + Len(wire)
        /\ DOMAIN (queue \o wire) = 1 .. Len(queue \o wire)
        /\ \A i \in 1 .. Len(queue) + Len(wire) :
             (queue \o wire)[i] = IF i <= Len(queue) THEN queue[i] ELSE wire[i - Len(queue)]
    BY ConcatProperties, LenProperties DEF Types
  <2>2. stop # "done" =>
          [i \in DOMAIN (queue \o wire) |-> (queue \o wire)[i].n]
            = [i \in 1 .. sent - handled |-> handled + i]
    BY <2>1 DEF InLine
  <2>3. cb = "calling" => item.n = handled + 1
    <3> SUFFICES ASSUME cb = "calling" PROVE item.n = handled + 1
      OBVIOUS
    <3>1. queue # <<>> /\ item = Head(queue) /\ stop # "done"
      BY DEF Holding
    <3>2. Len(queue) \in Nat \ {0} /\ Len(wire) \in Nat /\ item = queue[1]
      BY <3>1, EmptySeq DEF Types
    <3>3. (queue \o wire)[1] = queue[1] /\ 1 \in 1 .. Len(queue \o wire)
      BY <2>1, <3>2
    <3> QED
      BY <3>1, <3>2, <3>3 DEF InLine
  <2> QED
    BY <2>2, <2>3 DEF HandledInOrder
<1> QED
  BY <1>1, ListenersInvariant, PTL

-----------------------------------------------------------------------------
(* Listeners and routes.                                                   *)

\* The router's entries of an expression: their ids, that they differ, and the last.
RouteIds(list, x) == {list[k].id : k \in {k \in DOMAIN list : list[k].expression = x}}
Distinct(list, x) ==
  \A j, k \in DOMAIN list :
    list[j].expression = x /\ list[k].expression = x /\ list[j].id = list[k].id => j = k
LastAt(list, x, l, k) ==
  list[k] = l /\ \A j \in DOMAIN list : list[j].expression = x => j <= k
LastIs(list, x, l) == \E k \in DOMAIN list : LastAt(list, x, l, k)

\* An entry goes from the list.
LEMMA EntryGoes ==
  ASSUME NEW list \in Seq(Route), NEW k \in DOMAIN list, NEW x, Distinct(list, x)
  PROVE  /\ Distinct(RemoveAt(list, k), x)
         /\ RouteIds(RemoveAt(list, k), x)
              = {list[n].id : n \in {n \in DOMAIN list : n # k /\ list[n].expression = x}}
         /\ \A l : \A n \in DOMAIN list :
              n # k /\ LastAt(list, x, l, n) => LastIs(RemoveAt(list, k), x, l)
<1> DEFINE left == RemoveAt(list, k)
           from(i) == IF i < k THEN i ELSE i + 1
<1>1. Len(list) \in Nat /\ DOMAIN list = 1 .. Len(list)
  BY LenProperties
<1>2. /\ DOMAIN left = 1 .. Len(list) - 1
      /\ \A i \in 1 .. Len(list) - 1 : left[i] = IF i < k THEN list[i] ELSE list[i + 1]
  BY <1>1, RemoveAtProperties
<1> HIDE DEF left
<1>3. /\ \A i \in DOMAIN left : from(i) \in DOMAIN list /\ from(i) # k /\ left[i] = list[from(i)]
      /\ \A i, j \in DOMAIN left : (from(i) = from(j) => i = j) /\ (from(j) <= from(i) => j <= i)
  BY <1>1, <1>2
<1>4. \A n \in DOMAIN list : n # k => \E i \in DOMAIN left : from(i) = n
  <2> SUFFICES ASSUME NEW n \in DOMAIN list, n # k
               PROVE  \E i \in DOMAIN left : from(i) = n
    OBVIOUS
  <2>1. CASE n < k
    <3>1. n \in DOMAIN left /\ from(n) = n
      BY <2>1, <1>1, <1>2
    <3> QED
      BY <3>1
  <2>2. CASE n > k
    <3>1. n - 1 \in DOMAIN left /\ from(n - 1) = n
      BY <2>2, <1>1, <1>2
    <3> QED
      BY <3>1
  <2> QED
    BY <2>1, <2>2, <1>1
<1> HIDE DEF from
<1>5. Distinct(left, x)
  BY <1>3 DEF Distinct
<1>6. RouteIds(left, x) = {list[n].id : n \in {n \in DOMAIN list : n # k /\ list[n].expression = x}}
  <2>1. ASSUME NEW i \in DOMAIN left, left[i].expression = x
        PROVE  \E n \in {n \in DOMAIN list : n # k /\ list[n].expression = x} : left[i].id = list[n].id
    BY <1>3, <2>1
  <2>2. ASSUME NEW n \in DOMAIN list, n # k, list[n].expression = x
        PROVE  \E i \in {i \in DOMAIN left : left[i].expression = x} : list[n].id = left[i].id
    <3>1. PICK i \in DOMAIN left : from(i) = n
      BY <1>4, <2>2
    <3> QED
      BY <1>3, <2>2, <3>1
  <2> QED
    BY <2>1, <2>2 DEF RouteIds
<1>7. ASSUME NEW l, NEW n \in DOMAIN list, n # k, LastAt(list, x, l, n)
      PROVE  LastIs(left, x, l)
  <2>1. PICK i \in DOMAIN left : from(i) = n
    BY <1>4, <1>7
  <2>2. LastAt(left, x, l, i)
    BY <1>3, <1>7, <2>1 DEF LastAt
  <2> QED
    BY <2>2 DEF LastIs
<1> QED
  BY <1>5, <1>6, <1>7 DEF left

\* The router is told that a listener of another expression is gone.
LEMMA OtherRouteGoes ==
  ASSUME NEW list \in Seq(Route), NEW x, NEW y, y # x, Distinct(list, x)
  PROVE  /\ Distinct(Unsubscribed(list, y), x)
         /\ RouteIds(Unsubscribed(list, y), x) = RouteIds(list, x)
         /\ \A l : l.expression = x /\ LastIs(list, x, l) => LastIs(Unsubscribed(list, y), x, l)
<1>1. CASE Unsubscribed(list, y) = list
  BY <1>1
<1>2. ASSUME NEW k \in DOMAIN list, list[k].expression = y, Unsubscribed(list, y) = RemoveAt(list, k)
      PROVE  /\ Distinct(Unsubscribed(list, y), x)
             /\ RouteIds(Unsubscribed(list, y), x) = RouteIds(list, x)
             /\ \A l : l.expression = x /\ LastIs(list, x, l) => LastIs(Unsubscribed(list, y), x, l)
  <2> DEFINE left == RemoveAt(list, k)
  <2>1. /\ Distinct(left, x)
        /\ RouteIds(left, x)
             = {list[n].id : n \in {n \in DOMAIN list : n # k /\ list[n].expression = x}}
        /\ \A l : \A n \in DOMAIN list :
             n # k /\ LastAt(list, x, l, n) => LastIs(left, x, l)
    BY EntryGoes
  <2> HIDE DEF left
  <2>2. {n \in DOMAIN list : n # k /\ list[n].expression = x} = {n \in DOMAIN list : list[n].expression = x}
    BY <1>2
  <2>3. RouteIds(left, x) = RouteIds(list, x)
    BY <2>1, <2>2 DEF RouteIds
  <2>4. ASSUME NEW l, l.expression = x, LastIs(list, x, l) PROVE LastIs(left, x, l)
    <3>1. PICK n \in DOMAIN list : LastAt(list, x, l, n)
      BY <2>4 DEF LastIs
    <3>2. n # k
      BY <2>4, <3>1, <1>2 DEF LastAt
    <3> QED
      BY <2>1, <3>1, <3>2
  <2> QED
    BY <2>1, <2>3, <2>4, <1>2 DEF left
<1> QED
  BY <1>1, <1>2, FirstRouteGoes

\* The router is told that a listener of the expression is gone: the first entry goes.
LEMMA OwnRouteGoes ==
  ASSUME NEW list \in Seq(Route), NEW x, Distinct(list, x), RouteIds(list, x) # {}
  PROVE  /\ Distinct(Unsubscribed(list, x), x)
         /\ \E id \in RouteIds(list, x) : RouteIds(Unsubscribed(list, x), x) = RouteIds(list, x) \ {id}
         /\ \A l : /\ l.expression = x /\ LastIs(list, x, l) /\ RouteIds(list, x) # {l.id}
                   => LastIs(Unsubscribed(list, x), x, l)
<1>1. PICK k \in DOMAIN list :
        /\ list[k].expression = x
        /\ \A j \in DOMAIN list : list[j].expression = x => k <= j
        /\ Unsubscribed(list, x) = RemoveAt(list, k)
  BY FirstRouteGoes DEF RouteIds
<1> DEFINE left == RemoveAt(list, k)
<1>2. /\ Distinct(left, x)
      /\ RouteIds(left, x)
           = {list[n].id : n \in {n \in DOMAIN list : n # k /\ list[n].expression = x}}
      /\ \A l : \A n \in DOMAIN list :
           n # k /\ LastAt(list, x, l, n) => LastIs(left, x, l)
  BY EntryGoes
<1> HIDE DEF left
<1>3. list[k].id \in RouteIds(list, x) /\ RouteIds(left, x) = RouteIds(list, x) \ {list[k].id}
  BY <1>1, <1>2 DEF RouteIds, Distinct
<1>4. ASSUME NEW l, l.expression = x, LastIs(list, x, l), RouteIds(list, x) # {l.id}
      PROVE  LastIs(left, x, l)
  <2>1. PICK n \in DOMAIN list : LastAt(list, x, l, n)
    BY <1>4 DEF LastIs
  <2>2. n # k
    <3> SUFFICES ASSUME n = k PROVE FALSE
      OBVIOUS
    <3>1. \A j \in DOMAIN list : list[j].expression = x => j = k
      <4>1. DOMAIN list \subseteq Nat
        BY LenProperties
      <4> QED
        BY <4>1, <2>1, <1>1 DEF LastAt
    <3>2. RouteIds(list, x) = {list[k].id} /\ list[k] = l
      BY <3>1, <1>1, <2>1 DEF RouteIds, LastAt
    <3> QED
      BY <3>2, <1>4
  <2> QED
    BY <1>2, <2>1, <2>2
<1> QED
  BY <1>1, <1>2, <1>3, <1>4 DEF left

\* The router gets another entry.
LEMMA EntryComes ==
  ASSUME NEW list \in Seq(Route), NEW r \in Route, NEW x, Distinct(list, x)
  PROVE  /\ r.expression # x =>
              /\ Distinct(Append(list, r), x)
              /\ RouteIds(Append(list, r), x) = RouteIds(list, x)
              /\ \A l : l.expression = x /\ LastIs(list, x, l) => LastIs(Append(list, r), x, l)
         /\ r.expression = x /\ r.id \notin RouteIds(list, x) =>
              /\ Distinct(Append(list, r), x)
              /\ RouteIds(Append(list, r), x) = RouteIds(list, x) \cup {r.id}
              /\ LastIs(Append(list, r), x, r)
<1> DEFINE more == Append(list, r)
           end == Len(list) + 1
<1>1. Len(list) \in Nat /\ DOMAIN list = 1 .. Len(list)
  BY LenProperties
<1>2. /\ DOMAIN more = 1 .. Len(list) + 1
      /\ \A i \in 1 .. Len(list) : more[i] = list[i]
      /\ more[Len(list) + 1] = r
  BY <1>1, AppendProperties
<1> HIDE DEF more
<1>3. /\ end \notin DOMAIN list /\ DOMAIN more = DOMAIN list \cup {end}
      /\ \A i \in DOMAIN list : more[i] = list[i] /\ i <= end
      /\ more[end] = r /\ end <= end
  BY <1>1, <1>2
<1> HIDE DEF end
<1>4. ASSUME r.expression # x
      PROVE  /\ Distinct(more, x)
             /\ RouteIds(more, x) = RouteIds(list, x)
             /\ \A l : l.expression = x /\ LastIs(list, x, l) => LastIs(more, x, l)
  <2>1. Distinct(more, x)
    BY <1>3, <1>4 DEF Distinct
  <2>2. {k \in DOMAIN more : more[k].expression = x} = {k \in DOMAIN list : list[k].expression = x}
    BY <1>3, <1>4
  <2>3. RouteIds(more, x) = RouteIds(list, x)
    BY <2>2, <1>3 DEF RouteIds
  <2>4. ASSUME NEW l, LastIs(list, x, l) PROVE LastIs(more, x, l)
    <3>1. PICK n \in DOMAIN list : LastAt(list, x, l, n)
      BY <2>4 DEF LastIs
    <3>2. LastAt(more, x, l, n) /\ n \in DOMAIN more
      BY <3>1, <1>3, <1>4 DEF LastAt
    <3> QED
      BY <3>2 DEF LastIs
  <2> QED
    BY <2>1, <2>3, <2>4
<1>5. ASSUME r.expression = x, r.id \notin RouteIds(list, x)
      PROVE  /\ Distinct(more, x)
             /\ RouteIds(more, x) = RouteIds(list, x) \cup {r.id}
             /\ LastIs(more, x, r)
  <2>1. \A k \in DOMAIN list : list[k].expression = x => list[k].id # r.id
    BY <1>5 DEF RouteIds
  <2>2. Distinct(more, x)
    BY <2>1, <1>3 DEF Distinct
  <2>3. {k \in DOMAIN more : more[k].expression = x} = {k \in DOMAIN list : list[k].expression = x} \cup {end}
    BY <1>3, <1>5
  <2>4. RouteIds(more, x) = RouteIds(list, x) \cup {r.id}
    BY <2>3, <1>3 DEF RouteIds
  <2>5. LastAt(more, x, r, end)
    BY <1>3 DEF LastAt
  <2> QED
    BY <2>2, <2>4, <2>5, <1>3 DEF LastIs
<1> QED
  BY <1>4, <1>5 DEF more

\* No two listeners have the same expression or id, nor two that are being added.
ListenersDistinct ==
  /\ \A i, j \in InUse : listeners[i].expression = listeners[j].expression => i = j
  /\ \A i, j \in InUse : listeners[i].id = listeners[j].id => i = j
  /\ \A a, b \in Apps :
       app[a].at = "add" /\ app[b].at = "add" /\ app[a].id = app[b].id => a = b

\* The threads that have still to tell the router of expression x, and its listener.
Telling(what, x) == {a \in Apps : app[a].at = what /\ app[a].expression = x}
ListenersOf(x) == {l \in Listening : l.expression = x}
Told(x) == ListenersOf(x) # {} /\ Telling("add", x) = {}

\* There is one entry for the listener, if the router was told of it, and one for each
\* that it has still to be told is gone; and the listener's is the last.
RoutesOf(x) ==
  /\ Distinct(routes, x)
  /\ IsFiniteSet(RouteIds(routes, x)) /\ IsFiniteSet(Telling("remove", x))
  /\ Told(x) => Cardinality(RouteIds(routes, x)) = Cardinality(Telling("remove", x)) + 1
  /\ ~Told(x) => Cardinality(RouteIds(routes, x)) = Cardinality(Telling("remove", x))
  /\ \A a \in Telling("add", x), r \in Range(routes) : r.id # app[a].id
  /\ Told(x) => \A l \in ListenersOf(x) : LastIs(routes, x, l)

Sound == Exprs \ (overtaken \cup unsent)

RoutesIInv ==
  /\ ListenersIInv
  /\ ListenersDistinct
  /\ \A x \in Sound : RoutesOf(x)

LEMMA RoutesInit == Init => RoutesIInv
<1> SUFFICES ASSUME Init PROVE RoutesIInv
  OBVIOUS
<1>1. InUse = {} /\ DOMAIN routes = {} /\ \A a \in Apps : app[a] = Idle
  BY DEF Init, InUse
<1>2. Listening = {} /\ Range(routes) = {}
  BY <1>1 DEF Listening, Range
<1>3. ListenersDistinct
  BY <1>1 DEF ListenersDistinct, Idle
<1>4. ASSUME NEW x PROVE RoutesOf(x)
  <2>1. RouteIds(routes, x) = {} /\ ListenersOf(x) = {}
    BY <1>1, <1>2 DEF RouteIds, ListenersOf
  <2>2. \A what \in {"add", "remove"} : Telling(what, x) = {}
    BY <1>1 DEF Telling, Idle
  <2> QED
    BY <1>1, <2>1, <2>2, FS_EmptySet DEF RoutesOf, Told, Distinct
<1> QED
  BY <1>3, <1>4, ListenersInit DEF RoutesIInv

\* The thread that adds a sound expression is the only one, and its listener is in its
\* slot.
LEMMA OneAdder ==
  ASSUME RoutesIInv, NEW x \in Exprs, x \notin overtaken, NEW a \in Telling("add", x)
  PROVE  LET l == listeners[app[a].slot]
         IN  /\ Telling("add", x) = {a}
             /\ app[a].slot \in InUse /\ l.id = app[a].id
             /\ ListenersOf(x) = {l}
<1> USE DEF RoutesIInv, ListenersIInv
<1> DEFINE l == listeners[app[a].slot]
<1>1. ASSUME NEW b \in Telling("add", x)
      PROVE  /\ b \in Apps /\ app[b].at = "add" /\ app[b].slot \in InUse
             /\ listeners[app[b].slot].id = app[b].id
             /\ listeners[app[b].slot].expression = x
  <2>1. b \in Apps /\ app[b].at = "add" /\ app[b].expression = x
    BY <1>1 DEF Telling
  <2>2. app[b].slot \in InUse /\ listeners[app[b].slot].id = app[b].id
    BY <2>1 DEF OwnSlot, InUse, Types, AppStates, Idle
  <2>3. listeners[app[b].slot] \in Listening
    BY <2>2 DEF Listening
  <2> QED
    BY <2>1, <2>2, <2>3 DEF OwnSlot
<1>2. \A b \in Telling("add", x) : b = a
  BY <1>1 DEF ListenersDistinct
<1>3. l \in Listening /\ \A k \in Listening : k.expression = x => k = l
  BY <1>1 DEF Listening, ListenersDistinct
<1> QED
  BY <1>1, <1>2, <1>3 DEF ListenersOf

\* The calls of one thread for an expression leave the entries of the others.
LEMMA OthersStay ==
  ASSUME NEW x, RoutesOf(x),
         Telling("add", x)' = Telling("add", x), Telling("remove", x)' = Telling("remove", x),
         ListenersOf(x)' = ListenersOf(x),
         \A a \in Telling("add", x) : app'[a] = app[a],
         RouteIds(routes', x) = RouteIds(routes, x), Distinct(routes', x),
         \A a \in Telling("add", x), r \in Range(routes') : r.id # app[a].id,
         \A l : l.expression = x /\ LastIs(routes, x, l) => LastIs(routes', x, l)
  PROVE  RoutesOf(x)'
<1>1. Told(x)' <=> Told(x)
  BY DEF Told
<1>2. \A l \in ListenersOf(x) : l.expression = x
  BY DEF ListenersOf
<1>3. RouteIds(routes, x)' = RouteIds(routes, x) /\ Distinct(routes, x)'
  BY DEF RouteIds, Distinct
<1>4. \A a \in Telling("add", x)', r \in Range(routes)' : r.id # app'[a].id
  BY DEF Range
<1>5. Told(x)' => \A l \in ListenersOf(x)' : LastIs(routes, x, l)'
  BY <1>1, <1>2 DEF RoutesOf, LastIs, LastAt
<1> QED
  BY <1>1, <1>3, <1>4, <1>5 DEF RoutesOf

LEMMA RoutesAdd ==
  ASSUME RoutesIInv, NEW a \in Apps, NEW y \in Exprs, AddListener(a, y)
  PROVE  ListenersDistinct' /\ \A x \in Sound' : RoutesOf(x)'
<1> USE ConnListenersAssumption, NoneAssumption DEF RoutesIInv
<1> DEFINE i == Min(DOMAIN listeners \ InUse)
           l == [id |-> nextId, expression |-> y]
           call == [at |-> "add", expression |-> y, slot |-> i, id |-> nextId]
<1>1. /\ app[a] = Idle /\ nextId \in Ids
      /\ \A k \in Listening : k.expression # y
      /\ DOMAIN listeners \ InUse # {}
      /\ listeners' = [listeners EXCEPT ![i] = l]
      /\ app' = [app EXCEPT ![a] = call]
      /\ UNCHANGED <<routes, history>>
  BY DEF AddListener, ListenersIInv, Types, Ids
<1>2. DOMAIN listeners = 1 .. Slots
  BY DEF ListenersIInv, Types
<1>3. i \in 1 .. Slots /\ i \notin InUse
  <2>1. (1 .. Slots) \ InUse \subseteq Nat
    OBVIOUS
  <2> QED
    BY <1>1, <1>2, <2>1, MinIn
<1> HIDE DEF i
<1>4. l \in Listener /\ l # None /\ l.expression = y /\ l.id = nextId
  BY <1>1 DEF Listener
<1>5. call.at = "add" /\ call.expression = y /\ call.id = nextId
  OBVIOUS
<1> HIDE DEF l, call
<1>6. InUse' = InUse \cup {i} /\ listeners'[i] = l /\ \A j \in InUse : listeners'[j] = listeners[j]
  BY <1>1, <1>2, <1>3, <1>4 DEF InUse, ListenersIInv, Types
<1>7. Listening' = Listening \cup {l}
  BY <1>6 DEF Listening
<1>8. app'[a] = call /\ \A b \in Apps \ {a} : app'[b] = app[b]
  BY <1>1 DEF ListenersIInv, Types
<1>9. \A p \in Known : p.id # nextId
  BY <1>1 DEF ListenersIInv, IdsAgree, Ids
<1>10. \A b \in Apps : app[b].at = "add" => app[b].id # nextId
  BY <1>1 DEF ListenersIInv, OwnSlot, Ids
<1>11. ListenersDistinct'
  <2>1. \A k \in InUse : listeners[k] \in Known /\ listeners[k] \in Listening
    BY DEF Known, Listening
  <2>2. \A k \in InUse : listeners[k].id # nextId /\ listeners[k].expression # y
    BY <2>1, <1>1, <1>9
  <2>3. \A b, c \in Apps :
          app'[b].at = "add" /\ app'[c].at = "add" /\ app'[b].id = app'[c].id => b = c
    BY <1>5, <1>8, <1>10 DEF ListenersDistinct
  <2> QED
    BY <2>2, <2>3, <1>4, <1>6 DEF ListenersDistinct
<1>12. ASSUME NEW x \in Sound' PROVE RoutesOf(x)'
  <2>1. x \in Sound /\ RoutesOf(x)
    BY <1>1, <1>12 DEF Sound, history
  <2>2. Telling("remove", x)' = Telling("remove", x)
    BY <1>1, <1>5, <1>8 DEF Telling, Idle
  <2>3. CASE x # y
    <3>1. Telling("add", x)' = Telling("add", x) /\ a \notin Telling("add", x)
      BY <2>3, <1>1, <1>5, <1>8 DEF Telling, Idle
    <3>2. ListenersOf(x)' = ListenersOf(x)
      BY <2>3, <1>4, <1>7 DEF ListenersOf
    <3>3. \A b \in Telling("add", x) : app'[b] = app[b]
      BY <3>1, <1>8 DEF Telling
    <3> QED
      BY <2>1, <2>2, <3>1, <3>2, <3>3, <1>1, OthersStay DEF RoutesOf
  <2>4. CASE x = y
    <3>1. ListenersOf(x) = {}
      BY <2>4, <1>1 DEF ListenersOf
    <3>2. Telling("add", x)' = {a}
      <4>1. Telling("add", x) = {}
        BY <2>1, <3>1, OneAdder DEF Sound
      <4> QED
        BY <2>4, <4>1, <1>5, <1>8 DEF Telling
    <3>3. ~Told(x) /\ ~Told(x)'
      BY <3>1, <3>2 DEF Told
    <3>4. RouteIds(routes, x)' = RouteIds(routes, x) /\ Distinct(routes, x)'
      BY <2>1, <1>1 DEF RouteIds, Distinct, RoutesOf
    <3>5. \A r \in Range(routes)' : r.id # app'[a].id
      BY <1>1, <1>5, <1>8, <1>9 DEF Known
    <3> QED
      BY <2>1, <2>2, <3>2, <3>3, <3>4, <3>5 DEF RoutesOf
  <2> QED
    BY <2>3, <2>4
<1> QED
  BY <1>11, <1>12

LEMMA RoutesRemove ==
  ASSUME RoutesIInv, NEW a \in Apps, NEW y \in Exprs, RemoveListener(a, y)
  PROVE  ListenersDistinct' /\ \A x \in Sound' : RoutesOf(x)'
<1> USE ConnListenersAssumption, NoneAssumption DEF RoutesIInv
<1>1. PICK i \in InUse :
        /\ listeners[i].expression = y
        /\ listeners' = [listeners EXCEPT ![i] = None]
        /\ overtaken' = IF \E b \in Apps : app[b].at = "add" /\ app[b].id = listeners[i].id
                        THEN overtaken \cup {y} ELSE overtaken
  BY DEF RemoveListener
<1>2. app[a] = Idle /\ app' = [app EXCEPT ![a] = [at |-> "remove", expression |-> y]]
      /\ UNCHANGED <<routes, unsent>>
  BY DEF RemoveListener
<1>3. InUse' = InUse \ {i} /\ \A j \in InUse' : listeners'[j] = listeners[j]
  BY <1>1 DEF InUse, ListenersIInv, Types
<1>4. Listening' = {k \in Listening : k.expression # y}
  BY <1>1, <1>3 DEF Listening, ListenersDistinct
<1>5. app'[a] = [at |-> "remove", expression |-> y] /\ \A b \in Apps \ {a} : app'[b] = app[b]
  BY <1>2 DEF ListenersIInv, Types
<1>6. ListenersDistinct'
  <2>1. \A b, c \in Apps :
          app'[b].at = "add" /\ app'[c].at = "add" /\ app'[b].id = app'[c].id => b = c
    BY <1>5 DEF ListenersDistinct
  <2> QED
    BY <2>1, <1>3 DEF ListenersDistinct
<1>7. ASSUME NEW x \in Sound' PROVE RoutesOf(x)'
  <2>1. x \in Sound /\ RoutesOf(x) /\ x \notin overtaken'
    BY <1>1, <1>2, <1>7 DEF Sound
  <2>2. Telling("add", x)' = Telling("add", x)
    BY <1>2, <1>5 DEF Telling, Idle
  <2>3. CASE x # y
    <3>1. Telling("remove", x)' = Telling("remove", x) /\ a \notin Telling("add", x)
      BY <2>3, <1>2, <1>5 DEF Telling, Idle
    <3>2. ListenersOf(x)' = ListenersOf(x)
      BY <2>3, <1>4 DEF ListenersOf
    <3>3. \A b \in Telling("add", x) : app'[b] = app[b]
      BY <3>1, <1>5 DEF Telling
    <3> QED
      BY <2>1, <2>2, <3>1, <3>2, <3>3, <1>2, OthersStay DEF RoutesOf
  <2>4. CASE x = y
    <3>1. ListenersOf(x)' = {} /\ ListenersOf(x) # {}
      BY <2>4, <1>1, <1>4 DEF ListenersOf, Listening
    <3>2. Telling("add", x) = {}
      <4> SUFFICES ASSUME NEW b \in Telling("add", x) PROVE FALSE
        OBVIOUS
      <4>1. app[b].slot \in InUse /\ listeners[app[b].slot].id = app[b].id
            /\ ListenersOf(x) = {listeners[app[b].slot]}
        BY <2>1, OneAdder DEF Sound
      <4>2. listeners[i].id = app[b].id
        <5>1. listeners[i] \in ListenersOf(x)
          BY <2>4, <1>1 DEF ListenersOf, Listening
        <5> QED
          BY <4>1, <5>1
      <4> QED
        BY <2>1, <2>4, <4>2, <1>1 DEF Telling
    <3>3. Told(x) /\ ~Told(x)'
      BY <3>1, <3>2 DEF Told
    <3>4. a \notin Telling("remove", x) /\ Telling("remove", x)' = Telling("remove", x) \cup {a}
      BY <2>4, <1>2, <1>5 DEF Telling, Idle
    <3>5. RouteIds(routes, x)' = RouteIds(routes, x) /\ Distinct(routes, x)'
      BY <2>1, <1>2 DEF RouteIds, Distinct, RoutesOf
    <3>6. /\ IsFiniteSet(Telling("remove", x)')
          /\ Cardinality(Telling("remove", x)') = Cardinality(Telling("remove", x)) + 1
      BY <2>1, <3>4, FS_AddElement DEF RoutesOf
    <3> QED
      BY <2>1, <2>2, <3>2, <3>3, <3>5, <3>6 DEF RoutesOf
  <2> QED
    BY <2>3, <2>4
<1> QED
  BY <1>6, <1>7

\* The entry the router gets is that of the listener, which was not overtaken.
LEMMA RoutesTellAdd ==
  ASSUME RoutesIInv, NEW a \in Apps, SendAdd(a)
  PROVE  ListenersDistinct' /\ \A x \in Sound' : RoutesOf(x)'
<1> USE ConnListenersAssumption, NoneAssumption DEF RoutesIInv
<1> DEFINE y == app[a].expression
           l == listeners[app[a].slot]
           id == IF l = None THEN NoId ELSE l.id
           r == [id |-> id, expression |-> y]
<1>1. /\ app[a].at = "add" /\ app' = [app EXCEPT ![a] = Idle] /\ listeners' = listeners
      /\ overtaken' = IF id = app[a].id \/ l = None THEN overtaken ELSE overtaken \cup {l.expression}
      /\ \/ /\ routes' = Append(routes, r) \/ ((\E e \in Range(routes) : e.id = id) /\ routes' = routes)
            /\ unsent' = unsent
         \/ routes' = routes /\ unsent' = unsent \cup {y}
  BY DEF SendAdd, Subscribed
<1>2. y \in Exprs /\ app[a].slot \in 1 .. Slots
  BY <1>1 DEF ListenersIInv, Types, AppStates, Idle
<1>3. l \in Listener \cup {None} /\ (l # None => app[a].slot \in InUse /\ l \in Listening)
  BY <1>2 DEF ListenersIInv, Types, Listening, InUse
<1>4. r \in Route /\ r.id = id /\ r.expression = y
  BY <1>2, <1>3 DEF Route, Listener
<1>5. app'[a] = Idle /\ \A b \in Apps \ {a} : app'[b] = app[b]
  BY <1>1 DEF ListenersIInv, Types
<1>6. InUse' = InUse /\ Listening' = Listening
  BY <1>1 DEF InUse, Listening
<1>7. ListenersDistinct'
  BY <1>1, <1>5, <1>6 DEF ListenersDistinct, Idle
<1>8. routes \in Seq(Route)
  BY DEF ListenersIInv, Types
<1>9. ASSUME NEW x \in Sound' PROVE RoutesOf(x)'
  <2>1. x \in Sound /\ RoutesOf(x) /\ x \notin overtaken' /\ x \notin unsent'
    BY <1>1, <1>9 DEF Sound
  <2>2. Telling("remove", x)' = Telling("remove", x) /\ ListenersOf(x)' = ListenersOf(x)
    BY <1>1, <1>5, <1>6 DEF Telling, ListenersOf, Idle
  <2>3. ASSUME x # y PROVE RoutesOf(x)'
    <3>1. Telling("add", x)' = Telling("add", x) /\ a \notin Telling("add", x)
      BY <2>3, <1>5 DEF Telling, Idle
    <3>2. \A b \in Telling("add", x) : app'[b] = app[b]
      BY <3>1, <1>5 DEF Telling
    <3>3. ASSUME NEW b \in Telling("add", x) PROVE id # app[b].id
      <4> SUFFICES ASSUME id = app[b].id PROVE FALSE
        OBVIOUS
      <4>1. b \in Apps /\ app[b].at = "add" /\ app[b].id \in Ids
        BY DEF Telling, ListenersIInv, Types, AppStates, Idle
      <4>2. l # None /\ l.id = app[b].id
        BY <4>1 DEF Ids, NoId
      <4>3. app[b].slot \in InUse /\ listeners[app[b].slot].id = app[b].id
            /\ ListenersOf(x) = {listeners[app[b].slot]}
        BY <2>1, OneAdder DEF Sound
      <4>4. app[a].slot = app[b].slot
        BY <4>2, <4>3, <1>3 DEF ListenersDistinct
      <4>5. l.expression = x
        BY <4>3, <4>4 DEF ListenersOf
      <4>6. app[a].id # app[b].id
        BY <4>1, <3>1, <1>1 DEF ListenersDistinct
      <4> QED
        BY <4>2, <4>5, <4>6, <2>1, <1>1
    <3> HIDE DEF r, id
    <3>4. CASE routes' = routes
      BY <2>1, <2>2, <3>1, <3>2, <3>4, OthersStay DEF RoutesOf
    <3>5. CASE routes' = Append(routes, r)
      <4>1. /\ Distinct(routes', x) /\ RouteIds(routes', x) = RouteIds(routes, x)
            /\ \A k : k.expression = x /\ LastIs(routes, x, k) => LastIs(routes', x, k)
        BY <2>1, <2>3, <3>5, <1>4, <1>8, EntryComes DEF RoutesOf
      <4>2. \A e \in Range(routes') : e \in Range(routes) \/ e = r
        BY <3>5, <1>4, <1>8, AppendRange
      <4>3. \A b \in Telling("add", x), e \in Range(routes') : e.id # app[b].id
        BY <4>2, <2>1, <3>3, <1>4 DEF RoutesOf
      <4> QED
        BY <2>1, <2>2, <3>1, <3>2, <4>1, <4>3, OthersStay
    <3> QED
      BY <3>4, <3>5, <1>1
  <2>4. ASSUME x = y PROVE RoutesOf(x)'
    <3>1. a \in Telling("add", x)
      BY <2>4, <1>1 DEF Telling
    <3>2. Telling("add", x) = {a} /\ ListenersOf(x) = {l} /\ app[a].slot \in InUse /\ l.id = app[a].id
      BY <3>1, <2>1, OneAdder DEF Sound
    <3>3. l # None /\ id = l.id /\ l.expression = x
      BY <3>2 DEF InUse, ListenersOf
    <3>4. r = l
      BY <3>3, <2>4, <1>3 DEF Listener
    <3>5. \A e \in Range(routes) : e.id # id
      BY <3>1, <3>2, <3>3, <2>1 DEF RoutesOf
    <3>6. routes' = Append(routes, r)
      BY <3>5, <2>1, <2>4, <1>1
    <3>7. r.id \notin RouteIds(routes, x)
      BY <3>5, <1>4 DEF RouteIds, Range
    <3> HIDE DEF r, id, l
    <3>8. /\ Distinct(routes', x) /\ RouteIds(routes', x) = RouteIds(routes, x) \cup {r.id}
          /\ LastIs(routes', x, r)
      BY <2>1, <2>4, <3>6, <3>7, <1>4, <1>8, EntryComes DEF RoutesOf
    <3>9. /\ IsFiniteSet(RouteIds(routes', x))
          /\ Cardinality(RouteIds(routes', x)) = Cardinality(RouteIds(routes, x)) + 1
      BY <3>7, <3>8, <2>1, FS_AddElement DEF RoutesOf
    <3>10. Telling("add", x)' = {}
      BY <3>2, <1>5 DEF Telling, Idle
    <3>11. Told(x)' /\ ~Told(x)
      BY <3>2, <3>10, <2>2 DEF Told
    <3>12. RouteIds(routes, x)' = RouteIds(routes', x) /\ (Distinct(routes, x)' <=> Distinct(routes', x))
      BY DEF RouteIds, Distinct
    <3>13. \A k \in ListenersOf(x)' : LastIs(routes, x, k)'
      BY <2>2, <3>2, <3>4, <3>8 DEF LastIs, LastAt
    <3> QED
      BY <2>1, <2>2, <3>8, <3>9, <3>10, <3>11, <3>12, <3>13 DEF RoutesOf
  <2> QED
    BY <2>3, <2>4
<1> QED
  BY <1>7, <1>9

\* The first entry of the expression goes, which is not the listener's.
LEMMA RoutesTellRemove ==
  ASSUME RoutesIInv, NEW a \in Apps, SendRemove(a)
  PROVE  ListenersDistinct' /\ \A x \in Sound' : RoutesOf(x)'
<1> USE ConnListenersAssumption, NoneAssumption DEF RoutesIInv
<1> DEFINE y == app[a].expression
           once == Unsubscribed(routes, y)
           twice == Unsubscribed(once, y)
<1>1. /\ app[a].at = "remove" /\ app' = [app EXCEPT ![a] = Idle]
      /\ listeners' = listeners /\ overtaken' = overtaken
      /\ \/ routes' = once /\ unsent' = unsent
         \/ (routes' = routes \/ routes' = twice) /\ unsent' = unsent \cup {y}
  BY DEF SendRemove
<1>2. routes \in Seq(Route)
  BY DEF ListenersIInv, Types
<1>3. app'[a] = Idle /\ \A b \in Apps \ {a} : app'[b] = app[b]
  BY <1>1 DEF ListenersIInv, Types
<1>4. InUse' = InUse /\ Listening' = Listening
  BY <1>1 DEF InUse, Listening
<1>5. ListenersDistinct'
  BY <1>1, <1>3, <1>4 DEF ListenersDistinct, Idle
<1>6. once \in Seq(Route) /\ Range(once) \subseteq Range(routes)
  BY <1>2, UnsubscribedRange
<1>7. twice \in Seq(Route) /\ Range(twice) \subseteq Range(once)
  <2> HIDE DEF once
  <2> QED
    BY <1>6, UnsubscribedRange
<1>8. ASSUME NEW x \in Sound' PROVE RoutesOf(x)'
  <2>1. x \in Sound /\ RoutesOf(x) /\ x \notin unsent'
    BY <1>1, <1>8 DEF Sound
  <2>2. Telling("add", x)' = Telling("add", x) /\ ListenersOf(x)' = ListenersOf(x)
        /\ (\A b \in Telling("add", x) : app'[b] = app[b])
    BY <1>1, <1>3, <1>4 DEF Telling, ListenersOf, Idle
  <2>3. Range(routes') \subseteq Range(routes)
    BY <1>1, <1>6, <1>7
  <2>4. \A b \in Telling("add", x), e \in Range(routes') : e.id # app[b].id
    BY <2>1, <2>3 DEF RoutesOf
  <2>5. ASSUME x # y PROVE RoutesOf(x)'
    <3>1. Telling("remove", x)' = Telling("remove", x)
      BY <2>5, <1>3 DEF Telling, Idle
    <3>2. /\ Distinct(once, x) /\ RouteIds(once, x) = RouteIds(routes, x)
          /\ \A k : k.expression = x /\ LastIs(routes, x, k) => LastIs(once, x, k)
      BY <2>1, <2>5, <1>2, OtherRouteGoes DEF RoutesOf
    <3>3. /\ Distinct(twice, x) /\ RouteIds(twice, x) = RouteIds(once, x)
          /\ \A k : k.expression = x /\ LastIs(once, x, k) => LastIs(twice, x, k)
      <4> HIDE DEF once
      <4> QED
        BY <3>2, <2>5, <1>6, OtherRouteGoes
    <3> HIDE DEF once, twice
    <3>4. /\ Distinct(routes', x) /\ RouteIds(routes', x) = RouteIds(routes, x)
          /\ \A k : k.expression = x /\ LastIs(routes, x, k) => LastIs(routes', x, k)
      BY <2>1, <3>2, <3>3, <1>1 DEF RoutesOf
    <3> QED
      BY <2>1, <2>2, <2>4, <3>1, <3>4, OthersStay
  <2>6. ASSUME x = y PROVE RoutesOf(x)'
    <3>1. routes' = once
      BY <2>1, <2>6, <1>1
    <3> DEFINE P == Telling("remove", x)
               R == RouteIds(routes, x)
    <3>2. a \in P /\ Telling("remove", x)' = P \ {a}
      BY <2>6, <1>1, <1>3 DEF Telling, Idle
    <3>3. IsFiniteSet(P) /\ IsFiniteSet(R)
      BY <2>1 DEF RoutesOf
    <3>4. (Told(x) => Cardinality(R) = Cardinality(P) + 1) /\ (~Told(x) => Cardinality(R) = Cardinality(P))
      BY <2>1 DEF RoutesOf
    <3> HIDE DEF P, R
    <3>5. Cardinality(P) \in Nat /\ Cardinality(R) \in Nat /\ Cardinality(P) > 0
      <4>1. Cardinality(P) \in Nat /\ Cardinality(R) \in Nat
        BY <3>3, FS_CardinalityType
      <4>2. Cardinality(P) # 0
        BY <3>2, <3>3, FS_EmptySet
      <4> QED
        BY <4>1, <4>2
    <3>6. IsFiniteSet(P \ {a}) /\ Cardinality(P \ {a}) = Cardinality(P) - 1
      BY <3>2, <3>3, FS_RemoveElement
    <3>7. R # {} /\ (Told(x) => \A e : R # {e})
      <4>1. R # {}
        BY <3>4, <3>5, FS_EmptySet
      <4>2. \A e : R = {e} => Cardinality(R) = 1
        BY FS_Singleton
      <4> QED
        BY <4>1, <4>2, <3>4, <3>5
    <3>8. PICK id \in R : RouteIds(once, x) = R \ {id}
      BY <2>1, <2>6, <3>7, <1>2, OwnRouteGoes DEF R, RoutesOf
    <3>9. Distinct(once, x)
          /\ (Told(x) => \A k : k.expression = x /\ LastIs(routes, x, k) => LastIs(once, x, k))
      BY <2>1, <2>6, <3>7, <1>2, OwnRouteGoes DEF R, RoutesOf
    <3>10. IsFiniteSet(R \ {id}) /\ Cardinality(R \ {id}) = Cardinality(R) - 1
      BY <3>3, FS_RemoveElement
    <3>11. Told(x)' <=> Told(x)
      BY <2>2 DEF Told
    <3> HIDE DEF once, twice
    <3>12. RouteIds(routes, x)' = RouteIds(once, x) /\ (Distinct(routes, x)' <=> Distinct(once, x))
      BY <3>1 DEF RouteIds, Distinct
    <3>13. Told(x) => \A k \in ListenersOf(x)' : LastIs(routes, x, k)'
      <4>1. \A k \in ListenersOf(x) : k.expression = x
        BY DEF ListenersOf
      <4> QED
        BY <4>1, <2>1, <2>2, <3>1, <3>9 DEF LastIs, LastAt, RoutesOf
    <3>14. \A b \in Telling("add", x)', e \in Range(routes)' : e.id # app'[b].id
      BY <2>2, <2>4 DEF Range
    <3>15. /\ Told(x) => Cardinality(R \ {id}) = Cardinality(P \ {a}) + 1
           /\ ~Told(x) => Cardinality(R \ {id}) = Cardinality(P \ {a})
      BY <3>4, <3>5, <3>6, <3>10
    <3> QED
      BY <3>2, <3>6, <3>8, <3>9, <3>10, <3>11, <3>12, <3>13, <3>14, <3>15 DEF RoutesOf
  <2> QED
    BY <2>5, <2>6
<1> QED
  BY <1>5, <1>8

LEMMA RoutesStep == RoutesIInv /\ [Next]_vars => RoutesIInv'
<1> SUFFICES ASSUME RoutesIInv, [Next]_vars
             PROVE  ListenersDistinct' /\ \A x \in Sound' : RoutesOf(x)'
  BY ListenersStep DEF RoutesIInv
<1>1. ASSUME NEW a \in Apps,
             \/ \E x \in Exprs : AddListener(a, x) \/ RemoveListener(a, x)
             \/ SendAdd(a) \/ SendRemove(a)
      PROVE  ListenersDistinct' /\ \A x \in Sound' : RoutesOf(x)'
  BY <1>1, RoutesAdd, RoutesRemove, RoutesTellAdd, RoutesTellRemove
<1>2. ASSUME UNCHANGED <<appVars, history>>
      PROVE  ListenersDistinct' /\ \A x \in Sound' : RoutesOf(x)'
  <2>1. ListenersDistinct' /\ Sound' = Sound
    BY <1>2 DEF RoutesIInv, ListenersDistinct, InUse, Sound, appVars, history
  <2>2. ASSUME NEW x, RoutesOf(x) PROVE RoutesOf(x)'
    BY <1>2, <2>2, OthersStay DEF RoutesOf, Telling, ListenersOf, Listening, InUse, appVars
  <2> QED
    BY <2>1, <2>2 DEF RoutesIInv
<1>3. CASE \/ \E r \in Range(routes) : Forward(r)
           \/ ReadMessage \/ ReaderEnds \/ CallbackThread \/ SpuriousWakeup
           \/ Stop \/ SignalStop \/ Joined \/ UNCHANGED vars
  BY <1>2, <1>3 DEF Forward, ReadMessage, ReaderEnds, CallbackThread, LockList, Wake, Fetch,
     CallbackReturns, SpuriousWakeup, Stop, SignalStop, Joined, vars
<1> QED
  BY <1>1, <1>3 DEF Next

(* When no application thread is inside rtConnection_AddListener or        *)
(* rtConnection_RemoveListener the router has routes for exactly the       *)
(* listeners of the connection, in whatever order the calls of threads     *)
(* that share expressions and their sends outside con->mutex were          *)
(* interleaved, of every expression but those whose messages were not      *)
(* written as they should and those with a listener that was removed while *)
(* it was being added.                                                     *)
THEOREM RoutesComplete == Spec => []RoutesFollowListeners
<1>1. RoutesIInv => RoutesFollowListeners
  <2> SUFFICES ASSUME RoutesIInv, \A a \in Apps : app[a] = Idle
               PROVE  \A e : e.expression \notin overtaken \cup unsent =>
                        (e \in Range(routes) <=> e \in Listening)
    BY DEF RoutesFollowListeners
  <2> USE DEF RoutesIInv
  <2>1. \A x : Telling("add", x) = {} /\ Telling("remove", x) = {}
    BY DEF Telling, Idle
  <2>2. ASSUME NEW e \in Listening, e.expression \notin overtaken \cup unsent
        PROVE  e \in Range(routes)
    <3>1. e.expression \in Sound
      BY <2>2 DEF Sound, Listening, InUse, Listener, ListenersIInv, Types
    <3>2. e \in ListenersOf(e.expression) /\ Told(e.expression)
      BY <2>1 DEF ListenersOf, Told
    <3> QED
      BY <3>1, <3>2 DEF RoutesOf, LastIs, LastAt, Range
  <2>3. ASSUME NEW e \in Range(routes), e.expression \notin overtaken \cup unsent
        PROVE  e \in Listening
    <3> DEFINE x == e.expression
               R == RouteIds(routes, x)
    <3>1. Range(routes) \subseteq Route
      BY RangeOfSeq DEF ListenersIInv, Types
    <3>2. x \in Sound /\ RoutesOf(x)
      BY <2>3, <3>1 DEF Sound, Route
    <3>3. e.id \in R /\ IsFiniteSet(R)
      BY <3>2 DEF RouteIds, Range, RoutesOf
    <3>4. Cardinality(R) # 0
      <4> HIDE DEF R
      <4> QED
        BY <3>3, FS_EmptySet
    <3>5. Cardinality(Telling("remove", x)) = 0
      BY <2>1, FS_EmptySet
    <3>6. Told(x) /\ Cardinality(R) = 1
      BY <3>2, <3>4, <3>5 DEF RoutesOf
    <3>7. PICK l \in ListenersOf(x) : LastIs(routes, x, l)
      BY <3>2, <3>6 DEF Told, RoutesOf
    <3>8. PICK k \in DOMAIN routes : routes[k] = l /\ l \in Listening /\ l.expression = x
      BY <3>7 DEF LastIs, LastAt, ListenersOf
    <3>9. l.id \in R
      BY <3>8 DEF RouteIds
    <3>10. l.id = e.id
      <4> HIDE DEF R
      <4>1. \E i : R = {i}
        BY <3>3, <3>6, FS_Singleton
      <4> QED
        BY <4>1, <3>3, <3>9
    <3>11. PICK j \in DOMAIN routes : routes[j] = e
      BY DEF Range
    <3>12. j = k
      BY <3>2, <3>8, <3>10, <3>11 DEF RoutesOf, Distinct
    <3> QED
      BY <3>8, <3>11, <3>12
  <2> QED
    BY <2>2, <2>3
<1>2. Spec => []RoutesIInv
  BY RoutesInit, RoutesStep, PTL DEF Spec
<1> QED
  BY <1>1, <1>2, PTL
=============================================================================
