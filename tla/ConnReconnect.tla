---------------------------- MODULE ConnReconnect ----------------------------
(***************************************************************************)
(* Losing and regaining the router, rtConnection.c: a sender whose sendmsg *)
(* fails, and the reader thread whose recv ends, call                      *)
(* rtConnection_ConnectAndRegister; one of them connects and registers the *)
(* listeners anew, the others wait until it is done.                       *)
(*                                                                         *)
(* Whether a thread may own the reconnect is decided by comparing the time *)
(* its operation began with con->reconnect_time.  The three times are only *)
(* ever compared with reconnect_time, so the model keeps the outcome:      *)
(* fresh[k] says that time k is later.  All senders share one time.        *)
(*                                                                         *)
(* Places of a thread:                                                     *)
(*   idle, ended  a sender outside of the send functions; the reader's end *)
(*   loop         the reader at the head of its loop                       *)
(*   read         the reader in rtConnection_Read: about to call recv, or  *)
(*                blocked in it (reading)                                  *)
(*   retry        the reader at the head of its reconnect loop             *)
(*   send         in a send function, about to call sendmsg                *)
(*   handle       at the head of ConnectAndRegister                        *)
(*   wait         waiting for reconnect_in_progress to be reset            *)
(*   connect      owner of the reconnect, connecting                       *)
(*   register     owner of the reconnect, sending the listeners anew       *)
(*   self         the owner, waiting for itself                            *)
(* Failures of socket() and fcntl() are not modelled.                      *)
(***************************************************************************)
EXTENDS Naturals, FiniteSets

CONSTANTS
  Senders,     \* application threads that send
  Reader,      \* the reader thread
  Listeners,   \* number of listener slots in use
  Unlimited    \* max_retries < 0

ASSUME ConnReconnectAssumption ==
  /\ Reader \notin Senders
  /\ Listeners \in Nat
  /\ Unlimited \in BOOLEAN

Threads == Senders \cup {Reader}

VARIABLES
  pc,           \* the threads
  fresh,        \* sender_reconnect_time, reader_reconnect_time > reconnect_time
  inProgress,   \* reconnect_in_progress
  slot,         \* the next listener slot the owner sends anew
  run,          \* run_threads
  link,         \* the socket con->fd: "up", "lost" or "unconnected"
  reading,      \* the socket the reader's recv was called on: "none" (it is in none),
                \* "current" (con->fd), "replaced" (closed by a sender, though the
                \* router had not closed it) or "ended" (replaced, and lost)
  routerUp,     \* whether the router runs
  registered    \* the listener slots the router has routes for

vars == <<pc, fresh, inProgress, slot, run, link, reading, routerUp, registered>>

Slots == 1 .. Listeners

\* Thread t moves from one place to another.
Goto(t, from, to) == pc[t] = from /\ pc' = [pc EXCEPT ![t] = to]

TimeOf(t) == IF t = Reader THEN "reader" ELSE "sender"

Owners == {t \in Threads : pc[t] \in {"connect", "register", "self"}}

-----------------------------------------------------------------------------
(* rtConnection_ConnectAndRegister                                         *)

\* Where a thread goes on after RT_OK, and after RT_NO_CONNECTION.
Succeeded(t) == IF t = Reader THEN "loop" ELSE "send"
Failed(t) == IF t # Reader THEN "idle" ELSE IF run THEN "retry" ELSE "loop"

\* A recv under way keeps its socket, open or lost, when another thread closes the
\* descriptor and takes a new one: close wakes nobody.
Replaced ==
  IF reading = "current" THEN IF link = "up" THEN "replaced" ELSE "ended" ELSE reading

\* Variant: a reconnect in progress does not stop another one.
HandleAnyway(t) ==
  \/ /\ fresh[TimeOf(t)]
     /\ Goto(t, "handle", "connect")
     /\ inProgress' = TRUE
     /\ fresh' = [k \in DOMAIN fresh |-> FALSE]
     /\ link' = "unconnected" /\ registered' = {} /\ reading' = Replaced
     /\ UNCHANGED <<slot, run, routerUp>>
  \/ /\ ~fresh[TimeOf(t)]
     /\ Goto(t, "handle", "wait")
     /\ UNCHANGED <<fresh, inProgress, slot, run, link, reading, routerUp, registered>>

\* Under reconnect_mutex: with no reconnect in progress, and none begun since this
\* thread's operation, the thread owns the reconnect and closes the old socket.
Handle(t) ==
  \/ /\ ~inProgress /\ fresh[TimeOf(t)]
     /\ Goto(t, "handle", "connect")
     /\ inProgress' = TRUE
     /\ fresh' = [k \in DOMAIN fresh |-> FALSE]
     /\ link' = "unconnected" /\ registered' = {} /\ reading' = Replaced
     /\ UNCHANGED <<slot, run, routerUp>>
  \/ /\ inProgress \/ ~fresh[TimeOf(t)]
     /\ Goto(t, "handle", "wait")
     /\ UNCHANGED <<fresh, inProgress, slot, run, link, reading, routerUp, registered>>

\* The others poll reconnect_in_progress, and return RT_OK whatever came of it.
Waited(t) ==
  /\ ~inProgress
  /\ Goto(t, "wait", Succeeded(t))
  /\ UNCHANGED <<fresh, inProgress, slot, run, link, reading, routerUp, registered>>

\* Variant: the walk over the slots goes on where the last one ended.
ConnectKeepSlot(t) ==
  /\ routerUp
  /\ Goto(t, "connect", "register")
  /\ link' = "up"
  /\ UNCHANGED <<fresh, inProgress, slot, run, reading, routerUp, registered>>

Connect(t) ==
  /\ routerUp
  /\ Goto(t, "connect", "register")
  /\ link' = "up"
  /\ slot' = 1
  /\ UNCHANGED <<fresh, inProgress, run, reading, routerUp, registered>>

\* Variant: giving up leaves the flag set.
GiveUpKeepFlag(t) ==
  /\ ~Unlimited /\ ~routerUp
  /\ Goto(t, "connect", Failed(t))
  /\ fresh' = IF t = Reader /\ run THEN [fresh EXCEPT !["reader"] = TRUE] ELSE fresh
  /\ UNCHANGED <<inProgress, slot, run, link, reading, routerUp, registered>>

\* The last of max_retries attempts fails.  The reader then waits, and renews its
\* time so as to own the next reconnect.
GiveUp(t) ==
  /\ ~Unlimited /\ ~routerUp
  /\ Goto(t, "connect", Failed(t))
  /\ inProgress' = FALSE
  /\ fresh' = IF t = Reader /\ run THEN [fresh EXCEPT !["reader"] = TRUE] ELSE fresh
  /\ UNCHANGED <<slot, run, link, reading, routerUp, registered>>

\* rtConnection_SendMessage for the next listener, which renews the senders' time.
\* Into a connection that was lost, sendmsg succeeds or finds it gone; in the
\* second case SendMessage calls ConnectAndRegister, which waits for the
\* reconnect in progress: this thread's own.  A send that fails for another reason while
\* the link is up, an error the loop ignores, is not followed.
SendSlot(t) ==
  /\ pc[t] = "register" /\ slot <= Listeners
  /\ fresh' = [fresh EXCEPT !["sender"] = TRUE]
  /\ \/ /\ slot' = slot + 1
        /\ registered' = IF link = "up" THEN registered \cup {slot} ELSE registered
        /\ UNCHANGED pc
     \/ /\ link # "up"
        /\ Goto(t, "register", "self")
        /\ UNCHANGED <<slot, registered>>
  /\ UNCHANGED <<inProgress, run, link, reading, routerUp>>

\* Variant: the flag is left set.
RegisteredKeepFlag(t) ==
  /\ slot > Listeners
  /\ Goto(t, "register", Succeeded(t))
  /\ UNCHANGED <<fresh, inProgress, slot, run, link, reading, routerUp, registered>>

Registered(t) ==
  /\ slot > Listeners
  /\ Goto(t, "register", Succeeded(t))
  /\ inProgress' = FALSE
  /\ UNCHANGED <<fresh, slot, run, link, reading, routerUp, registered>>

ConnectAndRegister(t) ==
  Handle(t) \/ Waited(t) \/ Connect(t) \/ GiveUp(t) \/ SendSlot(t) \/ Registered(t)

-----------------------------------------------------------------------------
(* The send functions                                                      *)

StartSend(t) ==
  /\ run
  /\ Goto(t, "idle", "send")
  /\ fresh' = [fresh EXCEPT !["sender"] = TRUE]
  /\ UNCHANGED <<inProgress, slot, run, link, reading, routerUp, registered>>

\* sendmsg: written (into a lost connection, for nothing), or ENOTCONN or EPIPE.
Send(t) ==
  /\ \/ link # "unconnected" /\ Goto(t, "send", "idle")
     \/ link # "up" /\ Goto(t, "send", "handle")
  /\ UNCHANGED <<fresh, inProgress, slot, run, link, reading, routerUp, registered>>

-----------------------------------------------------------------------------
(* rtConnection_ReaderThread                                               *)

ReaderLoop ==
  /\ Goto(Reader, "loop", IF run THEN "read" ELSE "ended")
  /\ fresh' = IF run THEN [fresh EXCEPT !["reader"] = TRUE] ELSE fresh
  /\ UNCHANGED <<inProgress, slot, run, link, reading, routerUp, registered>>

\* recv takes the descriptor that con->fd is now.
CallRecv ==
  /\ pc[Reader] = "read" /\ reading = "none"
  /\ reading' = "current"
  /\ UNCHANGED <<pc, fresh, inProgress, slot, run, link, routerUp, registered>>

\* The socket recv was called on is connected: bytes of a message may come.
Receives == reading = "replaced" \/ (reading = "current" /\ link = "up")

\* They are not the last of the message, and recv is called again; if con->fd is another
\* socket by then, what is read is no message (Framing: link = "torn").
ReadPart ==
  /\ pc[Reader] = "read" /\ Receives
  /\ reading' = "none"
  /\ UNCHANGED <<pc, fresh, inProgress, slot, run, link, routerUp, registered>>

\* A message was read and handed on.
ReadMessage ==
  /\ Receives
  /\ Goto(Reader, "read", "loop")
  /\ reading' = "none"
  /\ UNCHANGED <<fresh, inProgress, slot, run, link, routerUp, registered>>

\* recv says that the socket it was called on is gone.
ReadFails ==
  /\ reading = "ended" \/ (reading = "current" /\ link # "up")
  /\ Goto(Reader, "read", IF run THEN "retry" ELSE "loop")
  /\ reading' = "none"
  /\ UNCHANGED <<fresh, inProgress, slot, run, link, routerUp, registered>>

\* On a descriptor just closed, or on a socket that is not connected yet, recv may
\* give an error that is not taken for a lost connection; rtConnection_Read then
\* returns RT_OK all the same.
ReadFailsOtherwise ==
  /\ reading = "current" /\ link = "unconnected"
  /\ Goto(Reader, "read", "loop")
  /\ reading' = "none"
  /\ UNCHANGED <<fresh, inProgress, slot, run, link, routerUp, registered>>

Retry ==
  /\ Goto(Reader, "retry", IF run THEN "handle" ELSE "loop")
  /\ UNCHANGED <<fresh, inProgress, slot, run, link, reading, routerUp, registered>>

-----------------------------------------------------------------------------
(* rtConnection_Destroy shuts the socket con->fd down and joins the        *)
(* reader; no application thread may be using the connection.              *)

Stop ==
  /\ run
  /\ \A t \in Senders : pc[t] = "idle"
  /\ run' = FALSE
  /\ link' = IF link = "up" THEN "lost" ELSE link
  /\ registered' = {}
  /\ UNCHANGED <<pc, fresh, inProgress, slot, reading, routerUp>>

(* The router.                                                             *)

Crash ==
  /\ routerUp
  /\ routerUp' = FALSE
  /\ link' = IF link = "up" THEN "lost" ELSE link
  /\ registered' = {}
  /\ reading' = IF reading = "replaced" THEN "ended" ELSE reading
  /\ UNCHANGED <<pc, fresh, inProgress, slot, run>>

Restart ==
  /\ ~routerUp
  /\ routerUp' = TRUE
  /\ UNCHANGED <<pc, fresh, inProgress, slot, run, link, reading, registered>>

-----------------------------------------------------------------------------
\* rtConnection_CreateInternal has connected, registered and started the threads.
Init ==
  /\ pc = [t \in Threads |-> IF t = Reader THEN "loop" ELSE "idle"]
  /\ fresh = [k \in {"sender", "reader"} |-> k = "sender"]
  /\ inProgress = FALSE
  /\ slot = 1
  /\ run = TRUE
  /\ link = "up"
  /\ reading = "none"
  /\ routerUp = TRUE
  /\ registered = Slots

ReaderStep ==
  ReaderLoop \/ CallRecv \/ ReadFails \/ Retry \/ ConnectAndRegister(Reader)

\* What the reader reads is up to others, and which error comes first.
ReaderInput == ReadPart \/ ReadMessage \/ ReadFailsOtherwise

Next ==
  \/ \E t \in Senders : StartSend(t) \/ Send(t) \/ ConnectAndRegister(t)
  \/ ReaderStep \/ ReaderInput
  \/ Stop \/ Crash \/ Restart

Spec == Init /\ [][Next]_vars

\* Threads that can go on do; the router need not come back.
Fairness ==
  /\ WF_vars(ReaderStep)
  /\ \A t \in Senders : WF_vars(Send(t) \/ ConnectAndRegister(t))

FairSpec == Spec /\ Fairness

-----------------------------------------------------------------------------
(* Properties.                                                             *)

\* Types of the variables.
TypeOK ==
  /\ pc \in [Threads -> {"idle", "ended", "loop", "read", "retry", "send", "handle",
                         "wait", "connect", "register", "self"}]
  /\ fresh \in [{"sender", "reader"} -> BOOLEAN]
  /\ inProgress \in BOOLEAN
  /\ slot \in 1 .. Listeners + 1
  /\ run \in BOOLEAN
  /\ link \in {"up", "lost", "unconnected"}
  /\ reading \in {"none", "current", "replaced", "ended"}
  /\ routerUp \in BOOLEAN
  /\ registered \subseteq Slots

\* Two threads never replace the socket at the same time, and the flag the others
\* wait for is set exactly while one of them does.
OneOwner ==
  /\ Cardinality(Owners) <= 1
  /\ inProgress <=> Owners # {}

\* Whoever reconnects, from whichever thread and however often: a connection that is
\* in use has all its listeners registered with the router it reaches.
ListenersFollow ==
  link = "up" /\ ~inProgress => registered = Slots

\* A thread that lost the router again while it registered the listeners waits for
\* itself: nothing else keeps a reconnect from ending.
WaitsForItself == \E t \in Threads : pc[t] = "self"

\* Every reconnect comes to an end, so that nobody waits for it for ever.
ReconnectEnds == inProgress ~> ~inProgress \/ WaitsForItself

\* The reader is in recv on a socket that a sender replaced before the router closed
\* it: a shutdown of the new socket does not wake it.
ReadsReplaced == reading = "replaced"

\* Stopping the connection ends the reader, wherever it is, unless its recv is on a
\* socket that was replaced.
StopEndsReader ==
  ~run ~> pc[Reader] = "ended" \/ WaitsForItself \/ ReadsReplaced

\* The reader keeps retrying: each attempt it makes ends in another, or in success.
ReaderKeepsRetrying ==
  pc[Reader] = "connect" ~> pc[Reader] \in {"loop", "retry"}
=============================================================================
