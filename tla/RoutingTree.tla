---------------------------- MODULE RoutingTree ----------------------------
(***************************************************************************)
(* The topic tree of the router, rtRoutingTree.c.                          *)
(*                                                                         *)
(* An expression "A.B.{i}" is the sequence of its tokens, and a topic of   *)
(* the tree (rtTreeTopic) is named by the path of names from the root,     *)
(* which is <<>>.  A tree (struct _rtRoutingTree) is a record              *)
(*                                                                         *)
(*   topic     : path -> [childList, listed, routeList, routeList2,        *)
(*                        isTable], a function on the topics that exist    *)
(*   topicList : handle -> sequence of paths, a function on the            *)
(*               rtTreeRoute structures that are allocated (rt->routeList) *)
(*                                                                         *)
(* "listed" tells a routeList that was never created (NULL) from an empty  *)
(* one.  A handle <<route, n>> is the address of an rtTreeRoute for the    *)
(* caller's route; the number tells a structure from an earlier one for    *)
(* the same route that was freed while something still points to it.  The  *)
(* operations are functions from trees to trees, so that the modules of    *)
(* the programs that own a tree can use them in their actions.             *)
(***************************************************************************)
EXTENDS Naturals, Sequences, FiniteSets, SequencesExt

CONSTANTS
  Row,        \* the token "{i}": the name of a table's row template
  RowTokens,  \* tokens that begin with a digit, '[' or '*': they address a row
  Advisory,   \* the expression _RTROUTED.ADVISORY
  NoTopic     \* the NULL a lookup returns

ASSUME RowAssumption == Row \notin RowTokens

-----------------------------------------------------------------------------
(* Lists of pointers.                                                      *)

\* The elements of s that are in S, in their order.
Keep(s, S) ==
  LET kept[i \in 0..Len(s)] ==
        IF i = 0 THEN <<>>
        ELSE IF s[i] \in S THEN Append(kept[i-1], s[i]) ELSE kept[i-1]
  IN  kept[Len(s)]

\* addPointerToListOnce
AppendOnce(s, e) == IF Contains(s, e) THEN s ELSE Append(s, e)

-----------------------------------------------------------------------------
(* Topics, tree routes and the search for them.                            *)

NewTopic == [childList |-> <<>>, listed |-> FALSE, routeList |-> <<>>,
             routeList2 |-> <<>>, isTable |-> FALSE]

EmptyTree == [topic |-> [p \in {<<>>} |-> NewTopic],
              topicList |-> [h \in {} |-> <<>>]]

\* Variant: a row template answers only for its own name.
MatchesName(name, token) == name = token

\* A registered row template answers for every token that addresses a row.
Matches(name, token) == name = token \/ (name = Row /\ token \in RowTokens)

\* The first child of topic p, in creation order, that answers to the token.
getChildByName(t, p, token) ==
  LET children == t.topic[p].childList
      hits     == {i \in DOMAIN children : Matches(children[i], token)}
  IN  IF hits = {} THEN NoTopic ELSE Append(p, children[Min(hits)])

\* The walk every lookup makes, token by token from the root.
Walk(t, expression) ==
  LET at[i \in 0..Len(expression)] ==
        IF i = 0 THEN <<>>
        ELSE IF at[i-1] = NoTopic THEN NoTopic
        ELSE getChildByName(t, at[i-1], expression[i])
  IN  at[Len(expression)]

HasTreeRoute(t, route) == \E h \in DOMAIN t.topicList : h[1] = route

getTreeRoute(t, route) == CHOOSE h \in DOMAIN t.topicList : h[1] = route

\* Every address of a tree route that the tree still holds somewhere.
Referenced(t) ==
  DOMAIN t.topicList \cup
  UNION {Range(t.topic[p].routeList) \cup Range(t.topic[p].routeList2) :
           p \in DOMAIN t.topic}

\* malloc of a tree route: an address nothing in the tree refers to.  malloc may also
\* give out one that a routeList2 still holds from a tree route freed since, which then
\* stands for the new one; what a routeList2 holds too much is told by RouteList2Exact.
NewTreeRoute(t, route) ==
  LET used == Referenced(t)
  IN  <<route, Min({n \in 1..Cardinality(used) + 1 : <<route, n>> \notin used})>>

-----------------------------------------------------------------------------
(* rtRoutingTree_AddTopicRoute                                             *)

\* The topics the walk of an insertion passes: existing ones as long as a
\* child answers to the token, topics named by the tokens from there on.
Branch(t, expression) ==
  LET at[i \in 0..Len(expression)] ==
        IF i = 0 THEN <<>>
        ELSE LET child == IF at[i-1] \in DOMAIN t.topic
                          THEN getChildByName(t, at[i-1], expression[i])
                          ELSE NoTopic
             IN  IF child = NoTopic THEN Append(at[i-1], expression[i]) ELSE child
  IN  [i \in 1..Len(expression) |-> at[i]]

\* createTreeTopic for every topic of the branch that is missing.
CreateTopics(t, branch) ==
  LET made == Range(branch) \ DOMAIN t.topic
      Grown(p) == LET old == IF p \in made THEN NewTopic ELSE t.topic[p]
                      new == {q \in made : Front(q) = p}
                  IN  IF new = {} THEN old
                      ELSE LET name == Last(CHOOSE q \in new : TRUE)
                           IN  [old EXCEPT !.childList = Append(@, name),
                                           !.isTable = @ \/ name = Row]
  IN  [t EXCEPT !.topic = [p \in DOMAIN t.topic \cup made |-> Grown(p)]]

\* Variant: the walk up stops at the parent of the topic.
BackpropagateToParent(t, target, h) ==
  [t EXCEPT !.topic = [p \in DOMAIN t.topic |->
     IF p # <<>> /\ target = Append(p, Last(target))
     THEN [t.topic[p] EXCEPT !.routeList2 = AppendOnce(@, h)]
     ELSE t.topic[p]]]

\* optimizeTopicsBackpropagate: the route joins routeList2 of every topic
\* strictly between the root and the topic it was assigned to.
Backpropagate(t, target, h) ==
  [t EXCEPT !.topic = [p \in DOMAIN t.topic |->
     IF p # <<>> /\ IsStrictPrefix(p, target)
     THEN [t.topic[p] EXCEPT !.routeList2 = AppendOnce(@, h)]
     ELSE t.topic[p]]]

Assign(t, target, h) ==
  [topic     |-> [t.topic EXCEPT ![target].listed = TRUE,
                                 ![target].routeList = Append(@, h)],
   topicList |-> [t.topicList EXCEPT ![h] = AppendOnce(@, target)]]

\* Variant: only a topic with children is a duplicate.
RefusedIfParent(t, expression, target, errOnDup) ==
  errOnDup /\ target \in DOMAIN t.topic /\ t.topic[target].childList # <<>>

\* A registration that asks for it (errOnDup) is refused when its topic
\* exists and a list of routes was ever created for it.
Refused(t, expression, target, errOnDup) ==
  /\ errOnDup
  /\ target \in DOMAIN t.topic
  /\ t.topic[target].listed
  /\ expression # Advisory

AddTopicRoute(t, expression, route, errOnDup) ==
  IF expression = <<>> THEN [tree |-> t, rc |-> "OK"] ELSE
  LET known  == HasTreeRoute(t, route)
      h      == IF known THEN getTreeRoute(t, route) ELSE NewTreeRoute(t, route)
      t1     == IF known THEN t
                ELSE [t EXCEPT !.topicList =
                        [x \in DOMAIN @ \cup {h} |-> IF x = h THEN <<>> ELSE @[x]]]
      branch == Branch(t, expression)
      target == Last(branch)
  IN  IF Refused(t, expression, target, errOnDup)
      THEN [tree |-> t1, rc |-> "DUPLICATE_ENTRY"]
      ELSE [tree |-> Backpropagate(Assign(CreateTopics(t1, branch), target, h),
                                   target, h),
            rc   |-> "OK"]

-----------------------------------------------------------------------------
(* rtRoutingTree_RemoveRoute                                               *)

\* Variant: a topic without routes of its own is freed with its children.
RemoveRouteAndChildren(t, route) ==
  IF ~HasTreeRoute(t, route) THEN t ELSE
  LET h       == getTreeRoute(t, route)
      left(p) == RemoveFirst(t.topic[p].routeList, h)
      kept    == {p \in DOMAIN t.topic : \A q \in DOMAIN t.topic :
                    IsPrefix(q, p) /\ Len(q) > 1 => left(q) # <<>>}
  IN  [topic |-> [p \in kept |->
         [t.topic[p] EXCEPT
            !.childList  = Keep(@, {name \in Range(@) : Append(p, name) \in kept}),
            !.routeList  = left(p),
            !.routeList2 = RemoveFirst(@, h)]],
       topicList |-> Restrict(t.topicList, DOMAIN t.topicList \ {h})]

\* removeRouteFromTopicTree: bottom up, the first occurrence of the route
\* leaves both lists of every topic, and a topic left with neither children
\* nor routes is freed.  A topic therefore stays exactly when it or a topic
\* below it still has a route.
RemoveRoute(t, route) ==
  IF ~HasTreeRoute(t, route) THEN t ELSE
  LET h       == getTreeRoute(t, route)
      left(p) == RemoveFirst(t.topic[p].routeList, h)
      kept    == {<<>>} \cup UNION {{p \in DOMAIN t.topic : IsPrefix(p, q)} :
                                      q \in {q \in DOMAIN t.topic : left(q) # <<>>}}
  IN  [topic |-> [p \in kept |->
         [t.topic[p] EXCEPT
            !.childList  = Keep(@, {name \in Range(@) : Append(p, name) \in kept}),
            !.routeList  = left(p),
            !.routeList2 = RemoveFirst(@, h)]],
       topicList |-> Restrict(t.topicList, DOMAIN t.topicList \ {h})]

-----------------------------------------------------------------------------
(* rtRoutingTree_RemoveTopic                                               *)

\* removeTopicFromRoutes and freeTreeTopic for the topic and all below it:
\* each of their routes forgets them, and a route left without topics is
\* freed.  The lists of the topics above are not touched.
FreeTopic(t, topic) ==
  LET gone    == {p \in DOMAIN t.topic : IsPrefix(topic, p)}
      hit     == UNION {Range(t.topic[p].routeList) : p \in gone}
      left(h) == Keep(t.topicList[h], DOMAIN t.topic \ gone)
      freed   == {h \in hit \cap DOMAIN t.topicList : left(h) = <<>>}
  IN  [topic |-> [p \in DOMAIN t.topic \ gone |->
         IF p = Front(topic)
         THEN [t.topic[p] EXCEPT !.childList = Keep(@, Range(@) \ {Last(topic)})]
         ELSE t.topic[p]],
       topicList |-> [h \in DOMAIN t.topicList \ freed |->
         IF h \in hit THEN left(h) ELSE t.topicList[h]]]

\* Only an exact match of the last token is removed.
RemoveTopic(t, expression) ==
  IF expression = <<>> THEN t ELSE
  LET parent == Walk(t, Front(expression))
      topic  == IF parent = NoTopic THEN NoTopic
                ELSE getChildByName(t, parent, Last(expression))
  IN  IF topic = NoTopic THEN t
      ELSE IF Last(topic) # Last(expression) THEN t
      ELSE FreeTopic(t, topic)

-----------------------------------------------------------------------------
(* Lookups: rtRoutingTree_GetTopicRoutes, _GetRouteTopics and              *)
(* _ResolvePartialPath.  "partial" is a trailing dot.                      *)

GetTopicRoutes(t, expression, partial) ==
  LET topic == Walk(t, expression)
      row   == getChildByName(t, topic, Row)
  IN  IF expression = <<>> \/ topic = NoTopic THEN <<>>
      ELSE IF partial THEN t.topic[topic].routeList2
      ELSE IF ~t.topic[topic].isTable THEN t.topic[topic].routeList
      ELSE IF row = NoTopic THEN <<>> ELSE t.topic[row].routeList

GetRouteTopics(t, route) ==
  IF HasTreeRoute(t, route) THEN t.topicList[getTreeRoute(t, route)] ELSE <<>>

\* For each route below the path, the first topic it was assigned to.
ResolvePartialPath(t, expression) ==
  LET topic == Walk(t, expression)
      below == IF expression = <<>> \/ topic = NoTopic THEN <<>>
               ELSE SelectSeq(t.topic[topic].routeList2,
                              LAMBDA h : h \in DOMAIN t.topicList)
  IN  [i \in DOMAIN below |-> Head(t.topicList[below[i]])]

-----------------------------------------------------------------------------
(* What the operations promise each other.                                 *)

AllTopics(t) == DOMAIN t.topic \ {<<>>}

TreeTypeOK(t, Routes) ==
  /\ <<>> \in DOMAIN t.topic
  /\ \A p \in DOMAIN t.topic :
       /\ Range(t.topic[p].childList) = {Last(q) : q \in {q \in AllTopics(t) : Front(q) = p}}
       /\ p # <<>> => Front(p) \in DOMAIN t.topic
       /\ t.topic[p].routeList # <<>> => t.topic[p].listed
  /\ \A h \in DOMAIN t.topicList : h[1] \in Routes

\* A tree route and the topics it is assigned to agree about each other.
ListsAgree(t) ==
  \A h \in DOMAIN t.topicList :
    Range(t.topicList[h]) = {p \in AllTopics(t) : Contains(t.topic[p].routeList, h)}

\* No topic lists a tree route that was freed.
RouteListsLive(t) ==
  \A p \in AllTopics(t) : Range(t.topic[p].routeList) \subseteq DOMAIN t.topicList

\* A partial path query reaches every route assigned below the path.
PartialCovers(t) ==
  \A p \in AllTopics(t), q \in AllTopics(t) :
    IsStrictPrefix(p, q) =>
      Range(t.topic[q].routeList) \subseteq Range(t.topic[p].routeList2)
=============================================================================
