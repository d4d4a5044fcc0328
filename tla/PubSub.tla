------------------------------- MODULE PubSub -------------------------------
(***************************************************************************)
(* What the router promises its clients, without the tree, the caches or   *)
(* the vectors that implement it: a table of registrations.  A client      *)
(* registers a topic under the id of one of its listeners, and a message   *)
(* published to a topic is handed to exactly the registrations of that     *)
(* topic.  An additional topic for a listener (an alias) is accepted only  *)
(* while its topic is open.  A topic is closed by the first registration   *)
(* of it, and opens again, at the latest when its last registration or one *)
(* below it is withdrawn with all topics of a listener or of a client.     *)
(*                                                                         *)
(* The expressions are sequences of tokens: withdrawing a topic that is    *)
(* not a listener's own expression withdraws everything at or below it.    *)
(***************************************************************************)
EXTENDS Naturals, Sequences, SequencesExt

CONSTANTS Clients, RouteIds, Expressions

VARIABLES
  connected,   \* the clients that are connected
  registered,  \* the registrations in force
  closed,      \* the topics no alias is accepted for
  delivered    \* the registrations the last publication was handed to

vars == <<connected, registered, closed, delivered>>

Registration == [client : Clients, id : RouteIds, topic : Expressions]

Holders(topic) == {[client |-> g.client, id |-> g.id] :
                     g \in {g \in registered : g.topic = topic}}

OwnedBy(c, id) == {g \in registered : g.client = c /\ g.id = id}

\* The closed topics that have a registration, or one below them.
StillUsed(grants) == {t \in closed : \E g \in grants : IsPrefix(t, g.topic)}

Init ==
  /\ connected = {}
  /\ registered = {}
  /\ closed = {}
  /\ delivered = {}

Join(c) ==
  /\ c \notin connected
  /\ connected' = connected \cup {c}
  /\ delivered' = {}
  /\ UNCHANGED <<registered, closed>>

\* A listener's own expression is always accepted, from any number of clients.
Register(c, id, topic) ==
  /\ c \in connected
  /\ OwnedBy(c, id) = {}
  /\ registered' = registered \cup {[client |-> c, id |-> id, topic |-> topic]}
  /\ closed' = closed \cup {topic}
  /\ delivered' = {}
  /\ UNCHANGED connected

\* A further topic of a listener is accepted exactly when it is open, and then
\* nobody holds it.
RegisterAlias(c, id, topic) ==
  /\ c \in connected
  /\ IF topic \in closed
     THEN UNCHANGED registered
     ELSE /\ Holders(topic) = {}
          /\ registered' = registered \cup {[client |-> c, id |-> id, topic |-> topic]}
  /\ closed' = closed \cup {topic}
  /\ delivered' = {}
  /\ UNCHANGED connected

\* All topics of one listener: a topic nothing is left of is open again.
Withdraw(c, id) ==
  /\ c \in connected
  /\ registered' = registered \ OwnedBy(c, id)
  /\ \/ closed' = StillUsed(registered')
     \/ OwnedBy(c, id) = {} /\ UNCHANGED closed
  /\ delivered' = {}
  /\ UNCHANGED connected

\* A topic and everything below it, whoever registered it.
WithdrawTopic(topic) ==
  /\ registered' = {g \in registered : ~IsPrefix(topic, g.topic)}
  /\ closed' = {t \in closed : ~IsPrefix(topic, t)}
  /\ delivered' = {}
  /\ UNCHANGED connected

Leave(c) ==
  /\ c \in connected
  /\ connected' = connected \ {c}
  /\ registered' = {g \in registered : g.client # c}
  /\ \/ closed' = StillUsed(registered')
     \/ UNCHANGED <<registered, closed>>
  /\ delivered' = {}

\* Everyone at the topic, and nobody else.
Publish(topic) ==
  /\ delivered' = Holders(topic)
  /\ UNCHANGED <<connected, registered, closed>>

\* A query, a message that does not parse: nothing but the reply.
Answer ==
  /\ delivered' = {}
  /\ UNCHANGED <<connected, registered, closed>>

Next ==
  \/ Answer
  \/ \E topic \in Expressions : Publish(topic)
  \/ \E c \in Clients : Join(c) \/ Leave(c)
  \/ \E c \in Clients, id \in RouteIds : Withdraw(c, id)
  \/ \E topic \in Expressions : WithdrawTopic(topic)
  \/ \E c \in Clients, id \in RouteIds, topic \in Expressions :
       Register(c, id, topic) \/ RegisterAlias(c, id, topic)

Spec == Init /\ [][Next]_vars
=============================================================================
