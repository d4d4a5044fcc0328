------------------------------- MODULE Routed -------------------------------
(***************************************************************************)
(* The router daemon, rtrouted.c: the clients it accepted, its vector of   *)
(* routes, the topic tree, and one action per control message, dispatched  *)
(* message and connection event.  The daemon is one thread: its select     *)
(* loop handles one complete message of one client at a time, so each      *)
(* handler is one step.                                                    *)
(*                                                                         *)
(* A route entry is the record [client, id, expression] of its             *)
(* subscription and its expression; the subscribe handler keeps <<client,  *)
(* id>> unique, and that pair names the entry in the tree.  The daemon's   *)
(* own entry "_RTROUTED.>" and its control topics are left out of the      *)
(* vector and the tree: control messages are the actions below.            *)
(***************************************************************************)
EXTENDS RoutingTree

CONSTANTS
  Clients,      \* the client processes
  RouteIds,     \* listener ids the clients use
  InboxOf,      \* InboxOf[c]: the expression of client c's inbox
  Workloads,    \* what the clients of one behaviour use: records of the listener
                \* ids, the expressions they register listeners for, those they
                \* register as aliases, and the topics they publish to and ask about
  MaxRoutes,    \* bound: length of the vector of routes
  MaxStale      \* bound: tree routes of one entry, freed ones still pointed to
                \* included

ASSUME InboxAssumption ==
  /\ DOMAIN InboxOf = Clients
  /\ IsInjective(InboxOf)
  /\ \A w \in Workloads : w.ids \subseteq RouteIds

VARIABLES
  clients,  \* the vector of connected clients
  inboxes,  \* clients whose inbox field is set
  routes,   \* the vector of route entries, in order of registration
  tree,     \* routingTree
  handled,  \* the event the select loop handled last: its kind, client and contents
  sent,     \* what the last handler handed to sendmsg
  uses      \* the workload of this behaviour

vars == <<clients, inboxes, routes, tree, handled, sent, uses>>

Inboxes == Range(InboxOf)
Topics == UNION {w.topics : w \in Workloads}
Expressions == (UNION {w.listeners \cup w.aliases : w \in Workloads}) \cup Inboxes \cup Topics

\* What tokenizeExpression makes of the expressions; the null pointer is none of them.
Tokens == UNION {Range(x) : x \in Expressions}

ASSUME ExpressionAssumption ==
  /\ Expressions \subseteq Seq(Tokens)
  /\ NoTopic \notin Seq(Tokens)

Key(r) == <<r.client, r.id>>
Keys == {Key(r) : r \in Range(routes)}

-----------------------------------------------------------------------------
(* Sending.  A message is recorded as <<client, listener id, content>>,    *)
(* and a content as a tuple of its kind and what the kind has.             *)

\* Every route in a list of tree routes gets the message.  What following a freed
\* tree route does is undefined and not followed here: a routeList holds none
\* (NoStaleRoute), a routeList2 may (RouteList2Exact).
ToRoutes(t, list, content, skip) ==
  {<<h[1][1], h[1][2], content>> :
     h \in {h \in Range(list) \cap DOMAIN t.topicList : h[1][1] \notin skip}}

\* rtRouted_SendMessage: a message of the daemon itself, by topic.
SendMessage(t, topic, content, skip) ==
  ToRoutes(t, GetTopicRoutes(t, topic, FALSE), content, skip)

\* A reply goes to the reply topic of the request, the sender's inbox.
Reply(t, c, content) == SendMessage(t, InboxOf[c], content, {})

\* Variant: the client the event is about is told, the others are not.
SendAdvisoryToSubject(t, c, event) ==
  SendMessage(t, Advisory, <<event, c>>, Clients \ {c})

\* The client the event is about is skipped.
SendAdvisory(t, c, event) == SendMessage(t, Advisory, <<event, c>>, {c})

-----------------------------------------------------------------------------
(* Connections.                                                            *)

\* rtRouted_AcceptClientConnection, rtRouted_RegisterNewClient
Accept(c) ==
  /\ c \notin clients
  /\ clients' = clients \cup {c}
  /\ sent' = {}
  /\ UNCHANGED <<inboxes, routes, tree>>

\* Variant: the routes of the client leave the vector but stay in the tree.
KeepTreeRoutes(t, c) == t

\* rtRouted_ClearClientRoutes: ClearRoute for each route of the client.
ClearClientRoutes(t, c) ==
  LET after[i \in 0..Len(routes)] ==
        IF i = 0 THEN t
        ELSE IF routes[i].client = c THEN RemoveRoute(after[i-1], Key(routes[i]))
        ELSE after[i-1]
  IN  after[Len(routes)]

\* A read that fails or reports the end of the stream: the client leaves the
\* vector, the others are advised, and rtConnectedClient_Destroy clears it.
Disconnect(c) ==
  /\ c \in clients
  /\ clients' = clients \ {c}
  /\ inboxes' = inboxes \ {c}
  /\ sent' = SendAdvisory(tree, c, "disconnect")
  /\ routes' = Keep(routes, {r \in Range(routes) : r.client # c})
  /\ tree' = ClearClientRoutes(tree, c)

Bounded(t) == \A h \in Referenced(t) : h[2] <= MaxStale

-----------------------------------------------------------------------------
(* rtRouted_OnMessageSubscribe.                                            *)

\* add = 1 for a listener id the sender has no route for.  The first inbox
\* a client registers is announced to the listeners of the advisory topic.
AddRoute(c, expression, id, request) ==
  LET added == AddTopicRoute(tree, expression, <<c, id>>, FALSE)
      fresh == expression \in Inboxes /\ c \notin inboxes
  IN  /\ c \in clients
      /\ <<c, id>> \notin Keys
      /\ Len(routes) < MaxRoutes
      /\ routes' = Append(routes, [client |-> c, id |-> id, expression |-> expression])
      /\ tree' = added.tree
      /\ Bounded(tree')
      /\ inboxes' = IF fresh THEN inboxes \cup {c} ELSE inboxes
      /\ sent' = (IF fresh THEN SendAdvisory(added.tree, c, "connect") ELSE {})
                 \cup (IF request THEN Reply(added.tree, c, <<"OK">>) ELSE {})
      /\ UNCHANGED clients

\* add = 1 for a listener id of a route the sender has: the expression becomes
\* an alias of that route, unless the tree refuses it as a duplicate.
AddAlias(c, expression, id, request) ==
  LET added == AddTopicRoute(tree, expression, <<c, id>>, TRUE)
  IN  /\ c \in clients
      /\ <<c, id>> \in Keys
      /\ UNCHANGED <<clients, inboxes, routes>>
      /\ tree' = added.tree
      /\ Bounded(tree')
      /\ sent' = IF request THEN Reply(added.tree, c, <<added.rc>>) ELSE {}

\* add = 0.  The sender's first route with that expression is cleared, with
\* all its aliases; without one the topic itself is removed from the tree.
OwnRoutes(c, expression) ==
  Keep(routes, {r \in Range(routes) : r.client = c /\ r.expression = expression})

ClearRoute(r) ==
  /\ routes' = Keep(routes, Range(routes) \ {r})
  /\ tree' = RemoveRoute(tree, Key(r))

Unsubscribe(c, expression, request) ==
  /\ c \in clients
  /\ IF OwnRoutes(c, expression) # <<>>
     THEN ClearRoute(Head(OwnRoutes(c, expression)))
     ELSE /\ tree' = RemoveTopic(tree, expression)
          /\ UNCHANGED routes
  /\ sent' = IF request THEN Reply(tree', c, <<"OK">>) ELSE {}
  /\ UNCHANGED <<clients, inboxes>>

\* A subscribe message that does not parse: only the reply to a request.
BadSubscribe(c) ==
  /\ c \in clients
  /\ sent' = Reply(tree, c, <<"INVALID_ARG">>)
  /\ UNCHANGED <<clients, inboxes, routes, tree>>

-----------------------------------------------------------------------------
(* rtRouter_DispatchMessageFromClient and rtRouted_ForwardMessage.         *)

\* Variant: the request is turned around without setting its reply topic.
DispatchBackToTopic(c, topic, partial, request) ==
  LET list == GetTopicRoutes(tree, topic, partial)
  IN  /\ c \in clients
      /\ sent' = IF list # <<>>
                 THEN ToRoutes(tree, list, <<IF partial THEN "below" ELSE "message">>, {})
                 ELSE IF request THEN SendMessage(tree, topic, <<"undeliverable">>, {})
                 ELSE {}
      /\ UNCHANGED <<clients, inboxes, routes, tree>>

\* A message is forwarded to every route of its topic.  Without one a request
\* is turned around, once, to its reply topic as undeliverable.  A forward that fails
\* is not followed; one that fails with EBADF would clear the sender's routes, but
\* the descriptor of a client whose routes are in the tree is open: only
\* rtConnectedClient_Destroy closes it, with the client's routes.
Dispatch(c, topic, partial, request) ==
  LET list == GetTopicRoutes(tree, topic, partial)
  IN  /\ c \in clients
      /\ UNCHANGED <<clients, inboxes, routes, tree>>
      /\ sent' = IF list # <<>>
                 THEN ToRoutes(tree, list, <<IF partial THEN "below" ELSE "message">>, {})
                 ELSE IF request THEN Reply(tree, c, <<"undeliverable">>)
                 ELSE {}

-----------------------------------------------------------------------------
(* The discovery requests.                                                 *)

RouteNamed(expression) ==
  SelectSeq(routes, LAMBDA r : r.expression = expression)

\* rtRouted_OnMessageDiscoverRegisteredComponents: without the empty expressions and
\* those that begin with '_', of which the advisory topic's is the one clients use.
Components ==
  LET named == SelectSeq(routes, LAMBDA r : r.expression \notin {<<>>, Advisory})
  IN  [i \in DOMAIN named |-> named[i].expression]

\* rtRouted_OnMessageDiscoverObjectElements
ObjectElements(expression) ==
  IF RouteNamed(expression) = <<>> THEN <<>>
  ELSE GetRouteTopics(tree, Key(Head(RouteNamed(expression))))

\* rtRouted_OnMessageDiscoverElementObjects: the owners' own expressions.
ElementObjects(topic) ==
  {r.expression : r \in {r \in Range(routes) :
     \E h \in Range(GetTopicRoutes(tree, topic, FALSE)) : h[1] = Key(r)}}

Discover(c, expression) ==
  /\ c \in clients
  /\ UNCHANGED <<clients, inboxes, routes, tree>>
  /\ \/ sent' = Reply(tree, c, <<"components", Components>>)
     \/ sent' = Reply(tree, c, <<"destinations", ResolvePartialPath(tree, expression)>>)
     \/ sent' = Reply(tree, c, <<"elements", ObjectElements(expression)>>)
     \/ sent' = Reply(tree, c, <<"objects", ElementObjects(expression)>>)

-----------------------------------------------------------------------------
(* The clients use the library: AddListener and RemoveListener send plain  *)
(* messages and RemoveListener only for an expression it has, AddAlias     *)
(* sends a request, RemoveAlias a plain message for any alias its caller   *)
(* names, refused or not, as long as there is a listener.                  *)

Removable(c) ==
  LET mine == {r \in Range(routes) : r.client = c}
  IN  {r.expression : r \in mine} \cup (IF mine = {} THEN {} ELSE uses.aliases)

Init ==
  /\ clients = {}
  /\ inboxes = {}
  /\ routes = <<>>
  /\ tree = EmptyTree
  /\ handled = <<>>
  /\ sent = {}
  /\ uses \in Workloads

Step ==
  \E c \in Clients :
    \/ Accept(c) /\ handled' = <<"accept", c>>
    \/ Disconnect(c) /\ handled' = <<"disconnect", c>>
    \/ BadSubscribe(c) /\ handled' = <<"invalid", c>>
    \/ \E id \in uses.ids, x \in uses.listeners \cup {InboxOf[c]} :
         AddRoute(c, x, id, FALSE) /\ handled' = <<"listener", c, x, id>>
    \/ \E id \in uses.ids, x \in uses.aliases :
         AddAlias(c, x, id, TRUE) /\ handled' = <<"alias", c, x, id>>
    \/ \E x \in Removable(c) : Unsubscribe(c, x, FALSE) /\ handled' = <<"unsubscribe", c, x>>
    \/ \E x \in uses.topics, partial, request \in BOOLEAN :
         Dispatch(c, x, partial, request) /\ handled' = <<"dispatch", c, x, partial, request>>
    \/ \E x \in uses.topics : Discover(c, x) /\ handled' = <<"discover", c, x>>

Next == Step /\ UNCHANGED uses

Spec == Init /\ [][Next]_vars

-----------------------------------------------------------------------------
(* Properties.                                                             *)

\* Nobody registers a row template.
NoRows == \A x \in uses.listeners \cup uses.aliases : Row \notin Range(x)

\* Types of the variables and the shape of the tree.
TypeOK ==
  /\ clients \subseteq Clients
  /\ inboxes \subseteq clients
  /\ routes \in Seq([client : Clients, id : RouteIds, expression : Expressions])
  /\ TreeTypeOK(tree, Clients \X RouteIds)
  /\ uses \in Workloads

\* Nothing a lookup can return is freed memory: every tree route listed at a
\* topic is allocated, stands for an entry of the vector, and that entry's
\* subscription belongs to a client that is still connected (the pointers
\* rtRouted_SendMessage and rtRouter_DispatchMessageFromClient follow).
NoStaleRoute ==
  /\ RouteListsLive(tree)
  /\ \A h \in DOMAIN tree.topicList : h[1] \in Keys
  /\ \A k \in Keys : k[1] \in clients

\* rtTreeRoute.topicList and rtTreeTopic.routeList describe one relation.
TopicListsAgree == ListsAgree(tree)

\* After any registrations, removals and crashes the tree and the tables of the daemon
\* are of their types, no lookup returns freed memory, and topics and tree routes
\* list each other.
TreeConsistent == TypeOK /\ NoStaleRoute /\ TopicListsAgree

\* The routeList2 caches never miss a route: a query for "A." reaches every
\* route assigned to a topic below A, whatever was removed before.
PartialQueryComplete == PartialCovers(tree)

\* A listener is reachable under its own expression as long as its entry is in
\* the vector, unless its expression is at or below one that clients use as an
\* alias (an alias is removed with all below it, whoever asks) or it is a table,
\* whose messages go to its row template: nobody else's registrations and removals
\* can take it out of the tree.
ListenerReachable ==
  \A r \in Range(routes) : NoRows /\ (\A x \in uses.aliases : ~IsPrefix(x, r.expression)) =>
    \E h \in Range(GetTopicRoutes(tree, r.expression, FALSE)) : h[1] = Key(r)

\* A request is never dropped without a trace: when a client whose inbox is registered
\* sends one, somebody gets it or the client gets it back as undeliverable.
RequestNeverDropped ==
  [][ \A c \in Clients, x \in uses.topics :
        /\ handled' = <<"dispatch", c, x, FALSE, TRUE>>
        /\ \E r \in Range(routes) : r.client = c /\ r.expression = InboxOf[c]
        => sent' # {} ]_vars

\* Every client that listens to the advisory topic is told when another one
\* goes away, whatever else was registered and removed meanwhile.
DisconnectAdvised ==
  [][ \A c \in clients \ clients' : \A r \in Range(routes) :
        r.expression = Advisory /\ r.client # c
        => <<r.client, r.id, <<"disconnect", c>>>> \in sent' ]_vars

\* routeList2 is exactly what rtRoutingTree.h says it is: a route listed there
\* is assigned to the topic or to a topic below it.
RouteList2Exact ==
  \A p \in AllTopics(tree) : \A h \in Range(tree.topic[p].routeList2) :
    \E q \in AllTopics(tree) :
      IsPrefix(p, q) /\ Contains(tree.topic[q].routeList, h)

\* With no literal row registered, a message to a row of a table reaches
\* exactly the routes of the row template's topic.
InstanceOf(x) == [i \in DOMAIN x |-> IF x[i] \in RowTokens THEN Row ELSE x[i]]

RowsReachTemplate ==
  \A x \in uses.topics :
    Last(x) \in RowTokens =>
      GetTopicRoutes(tree, x, FALSE) = GetTopicRoutes(tree, InstanceOf(x), FALSE)

-----------------------------------------------------------------------------
(* The daemon implements the table of registrations.                       *)

Registered ==
  UNION {{[client |-> h[1][1], id |-> h[1][2], topic |-> p] :
            p \in Range(tree.topicList[h])} : h \in DOMAIN tree.topicList}

\* The topics a list of routes was created for.
ClosedTopics == {p \in AllTopics(tree) : tree.topic[p].listed}

Delivered ==
  {[client |-> m[1], id |-> m[2]] : m \in {m \in sent : m[3] = <<"message">>}}

Table == INSTANCE PubSub WITH
           connected <- clients, registered <- Registered, closed <- ClosedTopics,
           delivered <- Delivered

\* Without row templates every event is handled as the step of the table it is meant
\* to be: a listener is in the table afterwards, an alias is refused exactly while its
\* topic is closed, a removal takes out its own, and a message is handed to exactly
\* the holders of its topic.  The tree, its caches and the pruning of topics never
\* lose, invent or misdirect a registration.
ConnectionsOfTable(c) ==
  /\ handled' = <<"accept", c>> => Table!Join(c)
  /\ handled' = <<"disconnect", c>> => Table!Leave(c)

RegistrationsOfTable(c) ==
  /\ \A x \in Expressions, id \in RouteIds :
       /\ handled' = <<"listener", c, x, id>> => Table!Register(c, id, x)
       /\ handled' = <<"alias", c, x, id>> => Table!RegisterAlias(c, id, x)
  /\ \A x \in Expressions : handled' = <<"unsubscribe", c, x>> =>
       IF OwnRoutes(c, x) # <<>> THEN Table!Withdraw(c, Head(OwnRoutes(c, x)).id)
       ELSE Table!WithdrawTopic(x)

MessagesOfTable(c) ==
  /\ handled' = <<"invalid", c>> => Table!Answer
  /\ \A x \in Expressions :
       /\ \A partial, request \in BOOLEAN :
            handled' = <<"dispatch", c, x, partial, request>> =>
              IF partial THEN Table!Answer ELSE Table!Publish(x)
       /\ handled' = <<"discover", c, x>> => Table!Answer

ImplementsTable ==
  /\ Table!Init
  /\ [][ NoRows => \A c \in Clients :
           ConnectionsOfTable(c) /\ RegistrationsOfTable(c) /\ MessagesOfTable(c) ]_vars
=============================================================================
