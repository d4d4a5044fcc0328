------------------------------- MODULE Sockets -------------------------------
(***************************************************************************)
(* Who waits for whom when socket buffers are full.  Between the daemon     *)
(* (rtrouted.c) and each client (rtConnection.c) there is a blocking socket *)
(* in each direction, with room for some messages.  The daemon has one      *)
(* thread: it reads a message and sends it on before it reads another.  A   *)
(* client has a reader thread, a callback thread and here one application   *)
(* thread; whoever sends holds con->mutex until sendmsg returns.            *)
(***************************************************************************)
EXTENDS Naturals, Sequences

CONSTANTS
  Clients,
  Capacity, \* messages a socket holds in one direction
  Work      \* bound: client -> what its application thread sends, in order

None == [kind |-> "none"]
Free == "free"

VARIABLES
  up, down,  \* of each client: what its socket holds for the daemon, and for it
  hand,      \* the message the daemon has read and not yet sent on, or None
  lock,      \* con->mutex of each client: the thread that holds it, or Free
  app,       \* the application thread: where it is, and the message it sends
  reader,    \* the message the reader thread has read and not yet handed on, or None
  queue,     \* callback_message_list
  callback,  \* the answer the callback of the callback thread has to send, or None
  sends      \* messages each application thread has sent, its sequence numbers too

vars == <<up, down, hand, lock, app, reader, queue, callback, sends>>

Room(pipe) == Len(pipe) < Capacity

-----------------------------------------------------------------------------
(* The application thread: rtConnection_SendInternal within a request or a  *)
(* message without an answer.                                              *)

StartSend(c) ==
  /\ app[c].at = "idle" /\ lock[c] = Free /\ sends[c] < Len(Work[c])
  /\ sends' = [sends EXCEPT ![c] = @ + 1]
  /\ lock' = [lock EXCEPT ![c] = "app"]
  /\ LET w == Work[c][sends[c] + 1]
     IN  app' = [app EXCEPT ![c] =
                   [at |-> "sending",
                    message |-> [kind |-> w.kind, from |-> c, to |-> w.to, no |-> sends[c]]]]
  /\ UNCHANGED <<up, down, hand, reader, queue, callback>>

\* sendmsg returns when there is room; a request waits for its response.
Sent(c) ==
  /\ app[c].at = "sending" /\ Room(up[c])
  /\ up' = [up EXCEPT ![c] = Append(@, app[c].message)]
  /\ lock' = [lock EXCEPT ![c] = Free]
  /\ app' = [app EXCEPT ![c].at = IF app[c].message.kind = "request" THEN "waiting" ELSE "idle"]
  /\ UNCHANGED <<down, hand, reader, queue, callback, sends>>

\* The response is there, and is taken with the lock held.
Collect(c) ==
  /\ app[c].at = "posted" /\ lock[c] = Free
  /\ app' = [app EXCEPT ![c].at = "idle"]
  /\ UNCHANGED <<up, down, hand, lock, reader, queue, callback, sends>>

\* The caller gives up, without the lock.
TimesOut(c) ==
  /\ app[c].at = "waiting"
  /\ app' = [app EXCEPT ![c].at = "idle"]
  /\ UNCHANGED <<up, down, hand, lock, reader, queue, callback, sends>>

-----------------------------------------------------------------------------
(* The callback thread: it looks the listener up with the lock held, and    *)
(* the callback of a request sends a response.                             *)

Take(c) ==
  LET m == Head(queue[c])
  IN  /\ callback[c] = None /\ queue[c] # <<>> /\ lock[c] = Free
      /\ queue' = [queue EXCEPT ![c] = Tail(@)]
      /\ callback' = [callback EXCEPT ![c] =
                        IF m.kind = "request"
                        THEN [kind |-> "response", from |-> c, to |-> m.from, no |-> m.no]
                        ELSE None]
      /\ UNCHANGED <<up, down, hand, lock, app, reader, sends>>

SendResponse(c) ==
  /\ callback[c] # None /\ lock[c] = Free
  /\ lock' = [lock EXCEPT ![c] = "callback"]
  /\ UNCHANGED <<up, down, hand, app, reader, queue, callback, sends>>

ResponseSent(c) ==
  /\ lock[c] = "callback" /\ Room(up[c])
  /\ up' = [up EXCEPT ![c] = Append(@, callback[c])]
  /\ lock' = [lock EXCEPT ![c] = Free]
  /\ callback' = [callback EXCEPT ![c] = None]
  /\ UNCHANGED <<down, hand, app, reader, queue, sends>>

-----------------------------------------------------------------------------
(* The reader thread: rtConnection_Read.                                   *)

Read(c) ==
  /\ reader[c] = None /\ down[c] # <<>>
  /\ reader' = [reader EXCEPT ![c] = Head(down[c])]
  /\ down' = [down EXCEPT ![c] = Tail(@)]
  /\ UNCHANGED <<up, hand, lock, app, queue, callback, sends>>

\* What is no response goes to the callback thread, under a mutex of its own.
Queue(c) ==
  /\ reader[c].kind \in {"request", "event"}
  /\ queue' = [queue EXCEPT ![c] = Append(@, reader[c])]
  /\ reader' = [reader EXCEPT ![c] = None]
  /\ UNCHANGED <<up, down, hand, lock, app, callback, sends>>

\* A response is matched against the requests that wait, with con->mutex held.
Post(c) ==
  /\ reader[c].kind = "response" /\ lock[c] = Free
  /\ app' = IF app[c].at = "waiting" /\ app[c].message.no = reader[c].no
            THEN [app EXCEPT ![c].at = "posted"]
            ELSE app
  /\ reader' = [reader EXCEPT ![c] = None]
  /\ UNCHANGED <<up, down, hand, lock, queue, callback, sends>>

-----------------------------------------------------------------------------
(* The daemon: the loop of main, rtRouter_DispatchMessageFromClient and     *)
(* rtRouted_ForwardMessage.                                                *)

RouterReads(c) ==
  /\ hand = None /\ up[c] # <<>>
  /\ hand' = Head(up[c])
  /\ up' = [up EXCEPT ![c] = Tail(@)]
  /\ UNCHANGED <<down, lock, app, reader, queue, callback, sends>>

Forward ==
  /\ hand # None /\ Room(down[hand.to])
  /\ down' = [down EXCEPT ![hand.to] = Append(@, hand)]
  /\ hand' = None
  /\ UNCHANGED <<up, lock, app, reader, queue, callback, sends>>

-----------------------------------------------------------------------------
Init ==
  /\ up = [c \in Clients |-> <<>>] /\ down = [c \in Clients |-> <<>>]
  /\ hand = None
  /\ lock = [c \in Clients |-> Free]
  /\ app = [c \in Clients |-> [at |-> "idle", message |-> None]]
  /\ reader = [c \in Clients |-> None]
  /\ queue = [c \in Clients |-> <<>>]
  /\ callback = [c \in Clients |-> None]
  /\ sends = [c \in Clients |-> 0]

Next ==
  \/ Forward
  \/ \E c \in Clients :
       \/ StartSend(c) \/ Sent(c) \/ Collect(c) \/ TimesOut(c)
       \/ Take(c) \/ SendResponse(c) \/ ResponseSent(c)
       \/ Read(c) \/ Queue(c) \/ Post(c)
       \/ RouterReads(c)

\* More than the code can count on: poll and the mutex pass no one over for ever, so
\* that what follows is not for want of a turn.
Fairness ==
  /\ WF_vars(Forward)
  /\ \A c \in Clients :
       /\ WF_vars(Sent(c)) /\ WF_vars(ResponseSent(c)) /\ WF_vars(Read(c)) /\ WF_vars(Queue(c))
       /\ SF_vars(Collect(c)) /\ SF_vars(Take(c)) /\ SF_vars(SendResponse(c))
       /\ SF_vars(Post(c)) /\ SF_vars(RouterReads(c))

Spec == Init /\ [][Next]_vars /\ Fairness

\* The reader thread of a client is not held up by its callbacks: what it has read is
\* handed on, and it reads again.  The comment on rtConnection_CallbackThread.
ReaderContinues ==
  \A c \in Clients : reader[c] # None ~> reader[c] = None
=============================================================================
