---------------------------- MODULE ConnListeners ----------------------------
(***************************************************************************)
(* Listeners and callbacks of one connection, rtConnection.c: application  *)
(* threads add and remove listeners, the reader thread queues what the     *)
(* router forwards, the callback thread hands it to the listeners, and     *)
(* rtConnection_Destroy stops both threads.                                *)
(*                                                                         *)
(* A step is one region under con->mutex or callback_message_mutex, or one *)
(* send.  The router is external: it keeps the routes of this client, in   *)
(* the order it was told of them, and puts the listener id of the route    *)
(* into what it forwards.  A listener's callback and closure are those of  *)
(* its subscription id, which is never used again.                         *)
(*                                                                         *)
(* Places of the callback thread:                                          *)
(*   loop     at the head of its loop                                      *)
(*   waiting  in pthread_cond_wait on callback_message_cond                *)
(*   woken    woken, has to take callback_message_mutex again              *)
(*   item     has taken an item, or NULL, from the front of the list       *)
(*   calling  in the callback, or past it if there was none                *)
(*   ended                                                                 *)
(***************************************************************************)
EXTENDS Naturals, Sequences, SequencesExt, FiniteSetsExt

CONSTANTS
  Apps,         \* application threads
  Exprs,        \* expressions of the listeners they add and remove
  Slots,        \* number of slots (RTMSG_LISTENERS_MAX)
  MaxIds,       \* bound: subscription ids given out
  MaxMessages,  \* bound: messages forwarded to this client
  None          \* no listener, no item

ASSUME ConnListenersAssumption ==
  Slots \in Nat /\ MaxIds \in Nat /\ MaxMessages \in Nat

Ids == 1 .. MaxIds
NoId == 0  \* the id of a slot that is not in use

Listener == [id : Ids, expression : Exprs]
Message == [n : 1 .. MaxMessages, id : Ids \cup {NoId}, expression : Exprs]

ASSUME NoneAssumption == None \notin Listener \cup Message

VARIABLES
  listeners,   \* slot -> its listener [id, expression], or None
  nextId,      \* next_id of rtConnection_GetNextSubscriptionId
  app,         \* thread -> where it is in AddListener or RemoveListener
  routes,      \* the router's routes for this client
  sent,        \* number of messages forwarded
  wire,        \* forwarded messages on the way
  queue,       \* callback_message_list
  cb,          \* the place of the callback thread
  item,        \* its listItem: the message, or None
  callback,    \* the listener whose callback it fetched, or None
  handled,     \* number of callbacks that returned
  run,         \* run_threads
  reader,      \* the reader thread: "reading" or "ended"
  stop,        \* rtConnection_Destroy: "none", "stopping", "joining", "done"
  overtaken,   \* expressions with a listener removed while it was being added, or
               \* whose listener's id was sent for such a one
  unsent       \* expressions of which a message to the router failed: it was not
               \* written, or a second time with effect

appVars == <<listeners, nextId, app, routes>>
msgVars == <<sent, wire>>
cbVars == <<cb, item, callback, handled>>
stopVars == <<run, reader, stop>>
history == <<overtaken, unsent>>
vars == <<appVars, msgVars, queue, cbVars, stopVars, history>>

Idle == [at |-> "idle"]
InUse == {i \in DOMAIN listeners : listeners[i] # None}
Listening == {listeners[i] : i \in InUse}

-----------------------------------------------------------------------------
(* rtConnection_AddListener                                                *)

\* Variant: a listener of the expression is replaced by the new one.
AddListenerReplaces(a, x) ==
  LET free == DOMAIN listeners \ InUse
      same == {i \in InUse : listeners[i].expression = x}
      i    == Min(IF same = {} THEN free ELSE same)
  IN  /\ app[a] = Idle /\ run
      /\ free \cup same # {}
      /\ nextId <= MaxIds
      /\ listeners' = [listeners EXCEPT ![i] = [id |-> nextId, expression |-> x]]
      /\ nextId' = nextId + 1
      /\ app' = [app EXCEPT ![a] = [at |-> "add", expression |-> x, slot |-> i, id |-> nextId]]
      /\ UNCHANGED <<routes, msgVars, queue, cbVars, stopVars, history>>

\* Under the mutex: refused for an expression that has a listener, or without a
\* free slot; otherwise the first free slot is filled.
AddListener(a, x) ==
  LET free == DOMAIN listeners \ InUse
      i    == Min(free)
  IN  /\ app[a] = Idle /\ run
      /\ \A l \in Listening : l.expression # x
      /\ free # {}
      /\ nextId <= MaxIds
      /\ listeners' = [listeners EXCEPT ![i] = [id |-> nextId, expression |-> x]]
      /\ nextId' = nextId + 1
      /\ app' = [app EXCEPT ![a] = [at |-> "add", expression |-> x, slot |-> i, id |-> nextId]]
      /\ UNCHANGED <<routes, msgVars, queue, cbVars, stopVars, history>>

\* The router's handler: an id it knows gets the expression as an alias, which is
\* another route to the same listener, or is refused if the topic has a route.
Subscribed(id, x) ==
  \/ routes' = Append(routes, [id |-> id, expression |-> x])
  \/ (\E r \in Range(routes) : r.id = id) /\ routes' = routes

\* The message to the router, with the id read from the slot without the mutex: the
\* slot may have been given away by then.  The return of the send is ignored.  A send
\* that fails has written the message up to twice, and a second copy is refused.
SendAdd(a) ==
  LET x == app[a].expression
      l == listeners[app[a].slot]
      id == IF l = None THEN NoId ELSE l.id
  IN  /\ app[a].at = "add"
      /\ \/ Subscribed(id, x) /\ unsent' = unsent
         \/ routes' = routes /\ unsent' = unsent \cup {x}
      /\ overtaken' = IF id = app[a].id \/ l = None THEN overtaken
                      ELSE overtaken \cup {l.expression}
      /\ app' = [app EXCEPT ![a] = Idle]
      /\ UNCHANGED <<listeners, nextId, msgVars, queue, cbVars, stopVars>>

(* rtConnection_RemoveListener                                             *)

RemoveListener(a, x) ==
  /\ app[a] = Idle /\ run
  /\ \E i \in InUse :
       /\ listeners[i].expression = x
       /\ listeners' = [listeners EXCEPT ![i] = None]
       /\ overtaken' = IF \E b \in Apps : app[b].at = "add" /\ app[b].id = listeners[i].id
                       THEN overtaken \cup {x} ELSE overtaken
  /\ app' = [app EXCEPT ![a] = [at |-> "remove", expression |-> x]]
  /\ UNCHANGED <<nextId, routes, msgVars, queue, cbVars, stopVars, unsent>>

\* The router's handler: the client's first route with the expression is cleared.  If
\* there is none the topic is removed, which takes an alias; an alias is kept here as a
\* route of its own, and the expressions are not below each other.
Unsubscribed(list, x) == RemoveFirstMatch(list, LAMBDA r : r.expression = x)

\* The message to the router; here too the return is ignored, and a send that fails
\* has written it up to twice.
SendRemove(a) ==
  LET x == app[a].expression
      once == Unsubscribed(routes, x)
      twice == Unsubscribed(once, x)
  IN  /\ app[a].at = "remove"
      /\ \/ routes' = once /\ unsent' = unsent
         \/ routes' = routes /\ unsent' = unsent \cup {x}
         \/ twice # once /\ routes' = twice /\ unsent' = unsent \cup {x}
      /\ app' = [app EXCEPT ![a] = Idle]
      /\ UNCHANGED <<listeners, nextId, msgVars, queue, cbVars, stopVars, overtaken>>

-----------------------------------------------------------------------------
(* The router forwards a message for each of the routes of its topic.      *)

Forward(r) ==
  /\ sent < MaxMessages
  /\ sent' = sent + 1
  /\ wire' = Append(wire, [n |-> sent', id |-> r.id, expression |-> r.expression])
  /\ UNCHANGED <<appVars, queue, cbVars, stopVars, history>>

-----------------------------------------------------------------------------
(* rtConnection_ReaderThread and the second half of rtConnection_Read      *)

\* pthread_cond_signal: the callback thread is the only one that waits.
Signal == IF cb = "waiting" THEN "woken" ELSE cb

\* Variant: a message is queued without waking the callback thread.
ReadMessageSilently ==
  /\ reader = "reading" /\ wire # <<>>
  /\ wire' = Tail(wire)
  /\ queue' = Append(queue, Head(wire))
  /\ UNCHANGED <<appVars, sent, cbVars, stopVars, history>>

ReadMessage ==
  /\ reader = "reading" /\ wire # <<>>
  /\ wire' = Tail(wire)
  /\ queue' = Append(queue, Head(wire))
  /\ cb' = Signal
  /\ UNCHANGED <<appVars, sent, item, callback, handled, stopVars, history>>

\* The socket is shut down, or a message was read, and the threads shall not run.
ReaderEnds ==
  /\ reader = "reading" /\ ~run
  /\ reader' = "ended"
  /\ UNCHANGED <<appVars, msgVars, queue, cbVars, run, stop, history>>

-----------------------------------------------------------------------------
(* rtConnection_CallbackThread                                             *)

Front0(list) == IF list = <<>> THEN None ELSE Head(list)

\* Variant: run_threads is not read again once the list is locked.
LockListUnchecked ==
  /\ cb = "loop"
  /\ IF queue = <<>>
     THEN cb' = "waiting" /\ UNCHANGED item
     ELSE cb' = "item" /\ item' = Front0(queue)
  /\ UNCHANGED <<appVars, msgVars, queue, callback, handled, stopVars, history>>

\* Under callback_message_mutex, with run_threads read again.
LockList ==
  /\ cb = "loop"
  /\ IF ~run THEN cb' = "ended" /\ UNCHANGED item
     ELSE IF queue = <<>> THEN cb' = "waiting" /\ UNCHANGED item
     ELSE cb' = "item" /\ item' = Front0(queue)
  /\ UNCHANGED <<appVars, msgVars, queue, callback, handled, stopVars, history>>

\* pthread_cond_wait may return for no reason.
SpuriousWakeup ==
  /\ cb = "waiting"
  /\ cb' = "woken"
  /\ UNCHANGED <<appVars, msgVars, queue, item, callback, handled, stopVars, history>>

Wake ==
  /\ cb = "woken"
  /\ cb' = "item"
  /\ item' = Front0(queue)
  /\ UNCHANGED <<appVars, msgVars, queue, callback, handled, stopVars, history>>

\* Variant: the listener is looked up by the number of its slot.
LookupBySlot(m) == IF m.id \in InUse THEN listeners[m.id] ELSE None

\* The listener with the id the router put into the header.
Lookup(m) ==
  IF \E l \in Listening : l.id = m.id
  THEN CHOOSE l \in Listening : l.id = m.id ELSE None

\* Under con->mutex, with run_threads: the callback and closure are fetched.
Fetch ==
  /\ cb = "item"
  /\ cb' = IF ~run THEN "ended" ELSE IF item = None THEN "loop" ELSE "calling"
  /\ callback' = IF cb' = "calling" THEN Lookup(item) ELSE None
  /\ UNCHANGED <<appVars, msgVars, queue, item, handled, stopVars, history>>

\* Variant: the item is left in the list.
CallbackReturnsKeep ==
  /\ cb = "calling"
  /\ item' = Front0(queue)
  /\ cb' = IF item' = None THEN "loop" ELSE "item"
  /\ handled' = handled + 1
  /\ callback' = None
  /\ UNCHANGED <<appVars, msgVars, queue, stopVars, history>>

\* The callback has returned: its item is removed and released, and the next taken.
CallbackReturns ==
  /\ cb = "calling"
  /\ queue' = RemoveFirst(queue, item)
  /\ item' = Front0(queue')
  /\ cb' = IF item' = None THEN "loop" ELSE "item"
  /\ handled' = handled + 1
  /\ callback' = None
  /\ UNCHANGED <<appVars, msgVars, stopVars, history>>

-----------------------------------------------------------------------------
(* rtConnection_Destroy, rtConnection_StopThreads                          *)

\* run_threads is reset under con->mutex; no thread may be using the connection.
Stop ==
  /\ stop = "none"
  /\ \A a \in Apps : app[a] = Idle
  /\ run' = FALSE
  /\ stop' = "stopping"
  /\ UNCHANGED <<appVars, msgVars, queue, cbVars, reader, history>>

\* Then the callback thread is signalled under callback_message_mutex.
SignalStop ==
  /\ stop = "stopping"
  /\ cb' = Signal
  /\ stop' = "joining"
  /\ UNCHANGED <<appVars, msgVars, queue, item, callback, handled, run, reader, history>>

\* Both threads are joined, and what is left in the list is released.
Joined ==
  /\ stop = "joining" /\ reader = "ended" /\ cb = "ended"
  /\ stop' = "done"
  /\ queue' = <<>>
  /\ UNCHANGED <<appVars, msgVars, cbVars, run, reader, history>>

-----------------------------------------------------------------------------
\* rtConnection_CreateInternal; its own inbox listener is one of the expressions.
Init ==
  /\ listeners = [i \in 1 .. Slots |-> None]
  /\ nextId = 1
  /\ app = [a \in Apps |-> Idle]
  /\ routes = <<>>
  /\ sent = 0 /\ wire = <<>> /\ queue = <<>>
  /\ cb = "loop" /\ item = None /\ callback = None /\ handled = 0
  /\ run = TRUE /\ reader = "reading" /\ stop = "none"
  /\ overtaken = {} /\ unsent = {}

CallbackThread == LockList \/ Wake \/ Fetch \/ CallbackReturns

Next ==
  \/ \E a \in Apps :
       \/ \E x \in Exprs : AddListener(a, x) \/ RemoveListener(a, x)
       \/ SendAdd(a) \/ SendRemove(a)
  \/ \E r \in Range(routes) : Forward(r)
  \/ ReadMessage \/ ReaderEnds
  \/ CallbackThread \/ SpuriousWakeup
  \/ Stop \/ SignalStop \/ Joined

Spec == Init /\ [][Next]_vars

\* Both threads run, callbacks return, and a thread that began to stop goes on.
Fairness ==
  /\ WF_vars(CallbackThread)
  /\ WF_vars(ReadMessage \/ ReaderEnds)
  /\ WF_vars(SignalStop) /\ WF_vars(Joined)

FairSpec == Spec /\ Fairness

-----------------------------------------------------------------------------
(* Properties.                                                             *)

\* Types of the variables; the item the callback thread holds is in the list.
TypeOK ==
  /\ listeners \in [1 .. Slots -> Listener \cup {None}]
  /\ nextId \in 1 .. MaxIds + 1
  /\ routes \in Seq([id : Ids \cup {NoId}, expression : Exprs])
  /\ wire \in Seq(Message) /\ queue \in Seq(Message)
  /\ cb \in {"loop", "waiting", "woken", "item", "calling", "ended"}
  /\ cb \in {"item", "calling"} /\ item # None => Contains(queue, item)
  /\ callback \in Listener \cup {None}
  /\ reader \in {"reading", "ended"}
  /\ stop \in {"none", "stopping", "joining", "done"}
  /\ overtaken \subseteq Exprs /\ unsent \subseteq Exprs

\* A callback gets messages of the expression it was added for, and no others,
\* however slots and ids were used before.  The one way to others is a listener that
\* was removed while another thread was still adding it.
RightListener ==
  callback # None =>
    callback.expression = item.expression \/ item.expression \in overtaken

\* Between the calls of the application the router has routes for exactly the
\* listeners of the connection, of every expression whose messages to the router were
\* all written and none of whose listeners was removed while it was being added.
RoutesFollowListeners ==
  LET sound(S) == {e \in S : e.expression \notin overtaken \cup unsent}
  IN  (\A a \in Apps : app[a] = Idle) => sound(Range(routes)) = sound(Listening)

\* Each message that the router forwarded is handled once, and in order: the rest is
\* queued or on its way, until the connection is destroyed, and the callback thread
\* is at the first of the rest.
HandledInOrder ==
  LET numbers(s) == [i \in DOMAIN s |-> s[i].n]
  IN  /\ stop # "done" =>
           numbers(queue \o wire) = [i \in 1 .. sent - handled |-> handled + i]
      /\ cb = "calling" => item.n = handled + 1

\* A message that was forwarded is handled, unless the connection is stopped.
MessagesHandled ==
  \A n \in 1 .. MaxMessages : sent >= n ~> handled >= n \/ ~run

\* Destroying the connection is not held up by either thread.
StopReturns == stop = "stopping" ~> stop = "done"
=============================================================================
