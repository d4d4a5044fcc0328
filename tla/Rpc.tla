---------------------------------- MODULE Rpc ----------------------------------
(***************************************************************************)
(* What rtConnection_SendRequest promises its callers, without the list of *)
(* entries, the semaphores, the mutex or the reader that implement it.  A  *)
(* call asks under a number of its own, again under a new one when the     *)
(* connection was lost, and is given at most one response: one to the      *)
(* number it last asked under, that a client sent and no call was given    *)
(* before.  It returns well exactly when it was given one.  A request may  *)
(* go out twice, but then its call is given nothing.                       *)
(***************************************************************************)
EXTENDS Naturals

CONSTANTS Callers, Responders, MaxSeq, Router, NoMessage

Messages == [seq : 1 .. MaxSeq, from : Responders \cup {Router}, copy : 1 .. 2]

VARIABLES
  inCall,  \* of each caller: whether it is in a call
  ok,      \* of each caller: whether the last call returned well
  number,  \* of each caller: the number it last asked under
  next,    \* the next number
  answer,  \* of each caller: the response its last call was given
  fate     \* of each response: "none", "asked" for, "sent" or "given"

vars == <<inCall, ok, number, next, answer, fate>>

Init ==
  /\ inCall = [c \in Callers |-> FALSE]
  /\ ok = [c \in Callers |-> FALSE]
  /\ number = [c \in Callers |-> 0]
  /\ next = 1
  /\ answer = [c \in Callers |-> NoMessage]
  /\ fate = [m \in Messages |-> "none"]

\* A call begins, or one that was given nothing asks anew.
Ask(c) ==
  /\ inCall[c] => answer[c] = NoMessage
  /\ next <= MaxSeq
  /\ next' = next + 1
  /\ number' = [number EXCEPT ![c] = next]
  /\ inCall' = [inCall EXCEPT ![c] = TRUE]
  /\ ok' = [ok EXCEPT ![c] = FALSE]
  /\ answer' = [answer EXCEPT ![c] = NoMessage]
  /\ UNCHANGED fate

\* The request goes out, in one copy or in two: to[i] are the listeners the i-th
\* reaches, or the router if there is none.
Deliver(c, to) ==
  /\ inCall[c]
  /\ \A m \in Messages : m.seq = number[c] => fate[m] = "none"
  /\ fate' = [m \in Messages |->
                IF m.seq = number[c] /\ m.copy \in DOMAIN to /\ m.from \in to[m.copy]
                THEN "asked" ELSE fate[m]]
  /\ UNCHANGED <<inCall, ok, number, next, answer>>

Answer(m) ==
  /\ fate[m] = "asked"
  /\ fate' = [fate EXCEPT ![m] = "sent"]
  /\ UNCHANGED <<inCall, ok, number, next, answer>>

Give(c, m) ==
  /\ inCall[c] /\ answer[c] = NoMessage
  /\ m.seq = number[c] /\ m.from # Router
  /\ fate[m] = "sent"
  /\ \A n \in Messages : n.seq = number[c] /\ n.copy = 2 => fate[n] = "none"
  /\ answer' = [answer EXCEPT ![c] = m]
  /\ fate' = [fate EXCEPT ![m] = "given"]
  /\ UNCHANGED <<inCall, ok, number, next>>

Return(c) ==
  /\ inCall[c]
  /\ inCall' = [inCall EXCEPT ![c] = FALSE]
  /\ ok' = [ok EXCEPT ![c] = answer[c] # NoMessage]
  /\ UNCHANGED <<number, next, answer, fate>>

\* Who may get a copy of a request.
Hearers == ((SUBSET Responders) \ {{}}) \cup {{Router}}

Next ==
  \/ \E c \in Callers : Ask(c) \/ Return(c)
  \/ \E c \in Callers, n \in 1 .. 2 : \E to \in [1 .. n -> Hearers] : Deliver(c, to)
  \/ \E m \in Messages : Answer(m)
  \/ \E c \in Callers, m \in Messages : Give(c, m)

Spec == Init /\ [][Next]_vars
=============================================================================
