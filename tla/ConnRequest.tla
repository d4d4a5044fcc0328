----------------------------- MODULE ConnRequest -----------------------------
(***************************************************************************)
(* Requests over one connection, rtConnection.c: any number of threads     *)
(* call rtConnection_SendRequest, each with an entry of its own stack in   *)
(* pending_requests_list; the reader thread finds the entry of a response  *)
(* by its sequence number, stores the response in it and posts its         *)
(* semaphore.  The caller may time out meanwhile, and another thread may   *)
(* destroy the connection.                                                 *)
(*                                                                         *)
(* A step is what a thread does between two points where con->mutex, the   *)
(* semaphore or the stack frame of a caller can be seen by another thread. *)
(* pc[c], the place of a caller in rtConnection_SendRequestInternal:       *)
(*   idle       not in the function                                        *)
(*   sending    entry enqueued, mutex held, in rtConnection_SendInternal   *)
(*   waiting    in rtSemaphore_TimedWait, without the mutex                *)
(*   posted     the wait returned RT_OK                                    *)
(*   dequeue    at dequeue_and_continue                                    *)
(*   reconnect  in rtConnection_ConnectAndRegister, the entry is gone      *)
(* The nested branch (a request made by the reader thread itself) is not   *)
(* modelled: callbacks run on the callback thread.                         *)
(***************************************************************************)
EXTENDS Naturals

CONSTANTS
  Callers,     \* threads that make requests
  Responders,  \* other clients, which may listen on the requested topic
  MaxSeq,      \* bound: sequence numbers used (uint32, no wrap within it)
  Timeouts,    \* whether a wait may time out
  Destroys,    \* whether the connection may be destroyed
  Reader, Router, Nobody, NoMessage   \* distinct from the above

ASSUME ConnRequestAssumption ==
  /\ MaxSeq \in Nat
  /\ Timeouts \in BOOLEAN /\ Destroys \in BOOLEAN
  /\ Reader \notin Callers /\ Nobody \notin Callers \cup {Reader}
  /\ Router \notin Responders

\* A response to sequence number seq, of which more than one copy may have been
\* written.  The one from the router itself has the flag rtMessageFlags_Undeliverable.
Messages == [seq : 1 .. MaxSeq, from : Responders \cup {Router}, copy : 1 .. 2]

ASSUME NoMessageAssumption == NoMessage \notin Messages

VARIABLES
  pc, seq, ret,         \* of each caller: place, sequence number, its result
  sem, response,        \* of each caller's entry: semaphore value, response
  result,               \* of each caller: the response its last call returned
  nextSeq, pending,     \* con->sequence_number; the callers with a listed entry
  mutex,                \* the holder of con->mutex
  reading, target,      \* the response the reader stores, and in whose entry
  fate,                 \* where each response is
  deadWrite,            \* the reader used an entry that no longer exists
  con,                  \* "open", "emptied" (lists destroyed) or "freed"
  late                  \* the sequence numbers of requests that timed out

callerVars == <<pc, seq, ret, result>>
entryVars == <<sem, response>>
readerVars == <<reading, target, deadWrite>>
vars == <<callerVars, entryVars, nextSeq, pending, mutex, readerVars, fate, con, late>>

Undeliverable(m) == m.from = Router

-----------------------------------------------------------------------------
(* rtConnection_SendRequestInternal                                        *)

\* The entry is filled in and listed under the mutex, which SendInternal keeps.
Enqueue(c) ==
  /\ mutex = Nobody
  /\ nextSeq <= MaxSeq
  /\ mutex' = c
  /\ seq' = [seq EXCEPT ![c] = nextSeq]
  /\ nextSeq' = nextSeq + 1
  /\ sem' = [sem EXCEPT ![c] = 0]
  /\ response' = [response EXCEPT ![c] = NoMessage]
  /\ pending' = pending \cup {c}
  /\ pc' = [pc EXCEPT ![c] = "sending"]

SendRequest(c) ==
  /\ pc[c] = "idle" /\ con = "open"
  /\ Enqueue(c)
  /\ result' = [result EXCEPT ![c] = NoMessage]
  /\ ret' = [ret EXCEPT ![c] = "OK"]
  /\ UNCHANGED <<readerVars, fate, con, late>>

\* The request is written Len(to) times; the router passes each copy to the clients
\* that listen on its topic by then, or will answer for a topic that has none.
Written(c, to) ==
  [m \in Messages |->
     IF m.seq = seq[c] /\ m.copy \in DOMAIN to
          /\ m.from \in (IF to[m.copy] = {} THEN {Router} ELSE to[m.copy])
     THEN "asked" ELSE fate[m]]

SendOk(c) ==
  /\ pc[c] = "sending"
  /\ mutex' = Nobody
  /\ pc' = [pc EXCEPT ![c] = "waiting"]
  /\ \E to \in [1 .. 1 -> SUBSET Responders] : fate' = Written(c, to)
  /\ UNCHANGED <<seq, ret, result, entryVars, nextSeq, pending, readerVars, con, late>>

\* One of at most three calls of sendmsg fails.  err is not reset, so the later ones
\* are made although they succeed, up to the third or one that finds the connection
\* gone, and the error is returned with copies of the request on their way.
SendFails(c) ==
  /\ pc[c] = "sending"
  /\ \E e \in {"NO_CONNECTION", "FAIL"} :
       /\ ret' = [ret EXCEPT ![c] = e]
       /\ \E n \in 0 .. (IF e = "FAIL" THEN 2 ELSE 1) :
            \E to \in [1 .. n -> SUBSET Responders] : fate' = Written(c, to)
  /\ pc' = [pc EXCEPT ![c] = "dequeue"]
  /\ UNCHANGED <<seq, result, entryVars, nextSeq, pending, mutex, readerVars, con, late>>

\* rtSemaphore_TimedWait returns RT_OK: posted, or (it waits once, without a
\* loop) woken for no reason.
WaitReturns(c) ==
  /\ pc[c] = "waiting"
  /\ sem' = [sem EXCEPT ![c] = IF @ > 0 THEN @ - 1 ELSE 0]
  /\ pc' = [pc EXCEPT ![c] = "posted"]
  /\ UNCHANGED <<seq, ret, result, response, nextSeq, pending, mutex, readerVars, fate, con, late>>

WaitTimesOut(c) ==
  /\ Timeouts
  /\ pc[c] = "waiting"
  /\ ret' = [ret EXCEPT ![c] = "TIMEOUT"]
  /\ late' = late \cup {seq[c]}
  /\ pc' = [pc EXCEPT ![c] = "dequeue"]
  /\ UNCHANGED <<seq, result, entryVars, nextSeq, pending, mutex, readerVars, fate, con>>

\* Variant: the response that says undeliverable is not released.
AnsweredKeep(c) ==
  LET m == response[c] IN
  CASE m = NoMessage ->
         /\ ret' = [ret EXCEPT ![c] = "ERROR"]
         /\ UNCHANGED <<fate, result>>
    [] m # NoMessage /\ Undeliverable(m) ->
         /\ ret' = [ret EXCEPT ![c] = "NO_LONGER_AVAILABLE"]
         /\ UNCHANGED <<fate, result>>
    [] OTHER ->
         /\ fate' = [fate EXCEPT ![m] = "returned"]
         /\ result' = [result EXCEPT ![c] = m]
         /\ UNCHANGED ret

\* What the entry holds becomes the result.
Answered(c) ==
  LET m == response[c] IN
  CASE m = NoMessage ->
         /\ ret' = [ret EXCEPT ![c] = "ERROR"]
         /\ UNCHANGED <<fate, result>>
    [] m # NoMessage /\ Undeliverable(m) ->
         /\ ret' = [ret EXCEPT ![c] = "NO_LONGER_AVAILABLE"]
         /\ fate' = [fate EXCEPT ![m] = "released"]
         /\ UNCHANGED result
    [] OTHER ->
         /\ fate' = [fate EXCEPT ![m] = "returned"]
         /\ result' = [result EXCEPT ![c] = m]
         /\ UNCHANGED ret

\* Variant: the mutex is not taken again after the wait.
CollectUnlocked(c) ==
  /\ pc[c] = "posted"
  /\ Answered(c)
  /\ pc' = [pc EXCEPT ![c] = "dequeue"]
  /\ UNCHANGED <<seq, entryVars, nextSeq, pending, mutex, readerVars, con, late>>

Collect(c) ==
  /\ pc[c] = "posted" /\ con # "freed"
  /\ mutex = Nobody
  /\ mutex' = c
  /\ Answered(c)
  /\ pc' = [pc EXCEPT ![c] = "dequeue"]
  /\ UNCHANGED <<seq, entryVars, nextSeq, pending, readerVars, con, late>>

\* The entry leaves the list and ceases to exist.  A caller that timed out is here
\* without the mutex, and its unlock fails (PTHREAD_MUTEX_ERRORCHECK).
Dequeue(c) ==
  /\ pc[c] = "dequeue"
  /\ pending' = pending \ {c}
  /\ mutex' = IF mutex = c THEN Nobody ELSE mutex
  /\ pc' = [pc EXCEPT ![c] = IF ret[c] = "NO_CONNECTION" THEN "reconnect" ELSE "idle"]
  /\ sem' = [sem EXCEPT ![c] = 0]
  /\ response' = [response EXCEPT ![c] = NoMessage]
  /\ UNCHANGED <<seq, ret, result, nextSeq, readerVars, fate, con, late>>

\* rtConnection_ConnectAndRegister succeeds, and the loop sends anew.
Retry(c) ==
  /\ pc[c] = "reconnect" /\ con = "open"
  /\ Enqueue(c)
  /\ ret' = [ret EXCEPT ![c] = "OK"]
  /\ UNCHANGED <<result, readerVars, fate, con, late>>

ReconnectFails(c) ==
  /\ pc[c] = "reconnect"
  /\ pc' = [pc EXCEPT ![c] = "idle"]
  /\ UNCHANGED <<seq, ret, result, entryVars, nextSeq, pending, mutex, readerVars, fate, con, late>>

-----------------------------------------------------------------------------
(* The reader thread, rtConnection_Read.                                   *)

\* Variant: any pending request will do.
AwaitsAny(c, m) == c \in pending

Awaits(c, m) == c \in pending /\ seq[c] = m.seq

\* A responder, or the router, has answered, as it may also never do; its response is
\* read and the entry looked for.  If it is found, the reader keeps the mutex.
ReadResponse(m) ==
  /\ fate[m] = "asked" /\ reading = NoMessage /\ con = "open"
  /\ mutex = Nobody
  /\ IF \E c \in Callers : Awaits(c, m)
     THEN /\ \E c \in Callers : Awaits(c, m) /\ target' = c
          /\ reading' = m
          /\ mutex' = Reader
          /\ fate' = [fate EXCEPT ![m] = "reader"]
     ELSE /\ fate' = [fate EXCEPT ![m] = "released"]
          /\ UNCHANGED <<reading, target, mutex>>
  /\ UNCHANGED <<callerVars, entryVars, nextSeq, pending, deadWrite, con, late>>

\* Variant: the mutex is not given back.
PostResponseLocked ==
  /\ reading # NoMessage /\ target \in pending
  /\ response' = [response EXCEPT ![target] = reading]
  /\ sem' = [sem EXCEPT ![target] = @ + 1]
  /\ fate' = [fate EXCEPT ![reading] = "held"]
  /\ reading' = NoMessage
  /\ target' = Nobody
  /\ UNCHANGED <<callerVars, nextSeq, pending, mutex, deadWrite, con, late>>

\* The response is stored in the entry and its semaphore posted.
PostResponse ==
  /\ reading # NoMessage /\ target \in pending
  /\ response' = [response EXCEPT ![target] = reading]
  /\ sem' = [sem EXCEPT ![target] = @ + 1]
  /\ fate' = [fate EXCEPT ![reading] = "held"]
  /\ reading' = NoMessage
  /\ target' = Nobody
  /\ mutex' = Nobody
  /\ UNCHANGED <<callerVars, nextSeq, pending, deadWrite, con, late>>

\* The entry found is gone: the reader writes to a dead stack frame and a freed
\* semaphore.  Undefined; the reader and its mutex are not followed further.
PostToDeadEntry ==
  /\ reading # NoMessage /\ target \notin pending
  /\ deadWrite' = TRUE
  /\ UNCHANGED <<callerVars, entryVars, nextSeq, pending, mutex, reading, target, fate, con, late>>

-----------------------------------------------------------------------------
(* rtConnection_Destroy, with the reader joined.                           *)

\* Every pending caller is posted, then the lists are destroyed.
DestroyLists ==
  /\ Destroys
  /\ con = "open" /\ mutex = Nobody /\ reading = NoMessage
  /\ sem' = [c \in Callers |-> IF c \in pending THEN sem[c] + 1 ELSE sem[c]]
  /\ con' = "emptied"
  /\ UNCHANGED <<callerVars, response, nextSeq, pending, mutex, readerVars, fate, late>>

\* After the one second it sleeps for pending callers, if there were any.
DestroyFrees ==
  /\ con = "emptied"
  /\ con' = "freed"
  /\ UNCHANGED <<callerVars, entryVars, nextSeq, pending, mutex, readerVars, fate, late>>

-----------------------------------------------------------------------------
Init ==
  /\ pc = [c \in Callers |-> "idle"]
  /\ seq = [c \in Callers |-> 0]
  /\ ret = [c \in Callers |-> "OK"]
  /\ sem = [c \in Callers |-> 0]
  /\ response = [c \in Callers |-> NoMessage]
  /\ result = [c \in Callers |-> NoMessage]
  /\ nextSeq = 1
  /\ pending = {}
  /\ mutex = Nobody
  /\ reading = NoMessage
  /\ target = Nobody
  /\ fate = [m \in Messages |-> "none"]
  /\ deadWrite = FALSE
  /\ con = "open"
  /\ late = {}

Next ==
  \/ \E c \in Callers :
       \/ SendRequest(c) \/ SendOk(c) \/ SendFails(c)
       \/ WaitReturns(c) \/ WaitTimesOut(c) \/ Collect(c) \/ Dequeue(c)
       \/ Retry(c) \/ ReconnectFails(c)
  \/ \E m \in Messages : ReadResponse(m)
  \/ PostResponse \/ PostToDeadEntry
  \/ DestroyLists \/ DestroyFrees

Spec == Init /\ [][Next]_vars

\* sendmsg returns, time passes, threads that can run do, and the mutex is granted
\* to whoever keeps asking for it.  Nothing makes a responder answer.
Fairness ==
  /\ \A c \in Callers :
       /\ WF_vars(SendOk(c) \/ SendFails(c))
       /\ WF_vars(sem[c] > 0 /\ WaitReturns(c))
       /\ WF_vars(WaitTimesOut(c))
       /\ SF_vars(Collect(c))
       /\ WF_vars(Dequeue(c))
  /\ WF_vars(PostResponse \/ PostToDeadEntry)

FairSpec == Spec /\ Fairness

-----------------------------------------------------------------------------
(* Properties.                                                             *)

Fates == {"none", "asked", "reader", "held", "returned", "released"}

\* Types of the variables; a semaphore is never taken below zero.
TypeOK ==
  /\ pc \in [Callers -> {"idle", "sending", "waiting", "posted", "dequeue", "reconnect"}]
  /\ seq \in [Callers -> 0 .. MaxSeq]
  /\ ret \in [Callers -> {"OK", "NO_CONNECTION", "FAIL", "TIMEOUT", "ERROR",
                          "NO_LONGER_AVAILABLE"}]
  /\ sem \in [Callers -> Nat]
  /\ response \in [Callers -> Messages \cup {NoMessage}]
  /\ result \in [Callers -> Messages \cup {NoMessage}]
  /\ nextSeq \in 1 .. MaxSeq + 1
  /\ pending \subseteq Callers
  /\ mutex \in Callers \cup {Reader, Nobody}
  /\ reading \in Messages \cup {NoMessage}
  /\ target \in Callers \cup {Nobody}
  /\ fate \in [Messages -> Fates]
  /\ deadWrite \in BOOLEAN
  /\ con \in {"open", "emptied", "freed"}
  /\ late \subseteq 1 .. MaxSeq

\* A request that returns RT_OK returns a response to itself, sent by a client,
\* whatever late or repeated responses are under way; one that returns anything
\* else returns none.  rtConnection_SendRequest reads the response on RT_OK only.
ReturnsOwnResponse ==
  \A c \in Callers : pc[c] = "idle" /\ seq[c] # 0 =>
    IF ret[c] = "OK"
    THEN result[c] # NoMessage /\ result[c].seq = seq[c] /\ ~Undeliverable(result[c])
    ELSE result[c] = NoMessage

\* The service as its callers see it, and where its state is in this one.
InCall == [c \in Callers |-> pc[c] # "idle"]

Succeeded == [c \in Callers |-> pc[c] = "idle" /\ seq[c] # 0 /\ ret[c] = "OK"]

InService ==
  [m \in Messages |-> IF fate[m] \in {"none", "asked"} THEN fate[m]
                      ELSE IF fate[m] = "returned" THEN "given" ELSE "sent"]

Service == INSTANCE Rpc WITH
             inCall <- InCall, ok <- Succeeded, number <- seq, next <- nextSeq,
             answer <- result, fate <- InService

\* rtConnection_SendRequest implements Rpc: with retries, timeouts and responses
\* that come late, twice or not at all, a call is given a response to what it asked
\* last, that no call was given before, or none, and RT_OK says which.
ImplementsRpc == Service!Spec

\* A response that was handed to a request is released or returned by it: while it
\* is neither, it is the response of an entry still pending.  Lost are only those
\* of requests that timed out and the first of two to one request.
ResponseOwned ==
  \A m \in Messages : fate[m] = "held" =>
    \/ \E c \in pending : response[c] = m
    \/ m.seq \in late
    \/ \E n \in Messages \ {m} : n.seq = m.seq /\ fate[n] \notin {"none", "asked"}

\* The reader uses no entry, found under the mutex, that has ceased to exist, unless
\* the request timed out.
EntryAlive == deadWrite => reading.seq \in late

\* An entry leaves the list only by the thread that holds the mutex, or after a
\* timeout.
ListGuarded ==
  [][\A c \in pending : c \notin pending' => mutex = c \/ seq[c] \in late]_vars

\* A call that waits returns, even if the response is lost, unless the connection
\* is freed under it or the reader has written to an entry that is gone.
RequestReturns ==
  \A c \in Callers : pc[c] = "waiting" ~> pc[c] = "idle" \/ deadWrite \/ con = "freed"
=============================================================================
