------------------------- MODULE KeyExchange_proofs -------------------------
(***************************************************************************)
(* Proofs about ConnReconnect and about KeyExchange, which extends it, for *)
(* every set of senders and of keys and every number of listeners, with    *)
(* finite and with unlimited retries.  A reconnect has one owner and ends  *)
(* with all listeners registered.  The inductive invariant adds how far    *)
(* the owner has come (OwnerAt): the socket is not connected before it     *)
(* connects, what it has sent since is registered, and it only waits for   *)
(* itself once the connection is lost.  With the exchange in it the same   *)
(* holds; the two ends never hold different keys, and a connection in use  *)
(* has one unless the reconnect was a sender's.  The invariant says of     *)
(* each step of the exchange what may be on its way and what either end    *)
(* has derived.                                                            *)
(***************************************************************************)
EXTENDS KeyExchange, FiniteSetTheorems, SequenceTheorems, TLAPS

-----------------------------------------------------------------------------
(* The reconnect.                                                          *)

Owns(t) == pc[t] \in {"connect", "register", "self"}

OnlyOwner == \A s, t \in Threads : Owns(s) /\ Owns(t) => s = t

FlagOfOwner == inProgress <=> \E t \in Threads : Owns(t)

OwnerAt ==
  \A t \in Threads :
    /\ pc[t] \in {"connect", "self"} => link # "up"
    /\ pc[t] = "register" /\ link = "up" => 1 .. slot - 1 \subseteq registered

IInv ==
  /\ TypeOK
  /\ OnlyOwner
  /\ FlagOfOwner
  /\ OwnerAt
  /\ ListenersFollow

-----------------------------------------------------------------------------
\* The initial states satisfy the inductive invariant.
LEMMA InitIInv == Init => IInv
<1> SUFFICES ASSUME Init PROVE IInv
  OBVIOUS
<1> USE ConnReconnectAssumption
<1>1. TypeOK
  <2>1. pc \in [Threads -> {"idle", "loop"}] /\ fresh \in [{"sender", "reader"} -> BOOLEAN]
    BY DEF Init
  <2>2. slot \in 1 .. Listeners + 1
    BY DEF Init
  <2> QED
    BY <2>1, <2>2 DEF Init, TypeOK
<1>2. \A t \in Threads : ~Owns(t)
  BY DEF Init, Owns
<1>3. OnlyOwner /\ FlagOfOwner
  BY <1>2 DEF OnlyOwner, FlagOfOwner, Init
<1>4. OwnerAt /\ ListenersFollow
  BY DEF Init, OwnerAt, ListenersFollow
<1> QED
  BY <1>1, <1>3, <1>4 DEF IInv

-----------------------------------------------------------------------------
(* A thread's step moves that thread only.                                 *)

\* The places of the threads keep their type, and all but one stay where they are.
LEMMA GotoMoves ==
  ASSUME TypeOK, NEW t \in Threads, NEW from, NEW to, Goto(t, from, to)
  PROVE  /\ pc[t] = from /\ pc'[t] = to
         /\ \A s \in Threads \ {t} : pc'[s] = pc[s]
         /\ pc' = [pc EXCEPT ![t] = to]
BY DEF TypeOK, Goto

\* Taking a reconnect over, under reconnect_mutex, makes t its only owner.
LEMMA HandleStep ==
  ASSUME IInv, NEW t \in Threads, Handle(t)
  PROVE  IInv'
<1> USE ConnReconnectAssumption DEF IInv
<1>1. CASE ~inProgress /\ Goto(t, "handle", "connect")
           /\ inProgress' = TRUE /\ fresh' = [k \in DOMAIN fresh |-> FALSE]
           /\ link' = "unconnected" /\ registered' = {} /\ reading' = Replaced
           /\ UNCHANGED <<slot, run, routerUp>>
  <2>1. TypeOK'
    <3>1. reading' \in {"none", "current", "replaced", "ended"}
      BY <1>1 DEF TypeOK, Replaced
    <3> QED
      BY <1>1, <3>1, GotoMoves DEF TypeOK
  <2>2. \A s \in Threads : Owns(s)' <=> s = t
    BY <1>1, GotoMoves DEF Owns, FlagOfOwner
  <2>3. OnlyOwner' /\ FlagOfOwner'
    BY <1>1, <2>2 DEF OnlyOwner, FlagOfOwner
  <2>4. OwnerAt' /\ ListenersFollow'
    BY <1>1 DEF OwnerAt, ListenersFollow
  <2> QED
    BY <2>1, <2>3, <2>4
<1>2. CASE Goto(t, "handle", "wait")
           /\ UNCHANGED <<fresh, inProgress, slot, run, link, reading, routerUp, registered>>
  <2>1. TypeOK'
    BY <1>2, GotoMoves DEF TypeOK
  <2>2. \A s \in Threads : Owns(s)' <=> Owns(s)
    BY <1>2, GotoMoves DEF Owns
  <2>3. OnlyOwner' /\ FlagOfOwner'
    BY <1>2, <2>2 DEF OnlyOwner, FlagOfOwner
  <2>4. OwnerAt' /\ ListenersFollow'
    BY <1>2, GotoMoves DEF OwnerAt, ListenersFollow
  <2> QED
    BY <2>1, <2>3, <2>4
<1> QED
  BY <1>1, <1>2 DEF Handle

\* A thread that does not own the reconnect, before and after, disturbs nothing as
\* long as the socket, the flag and what is registered stay.
LEMMA BystanderStep ==
  ASSUME IInv, NEW t \in Threads, NEW from, NEW to, Goto(t, from, to),
         from \notin {"connect", "register", "self"},
         to \in {"idle", "ended", "loop", "read", "retry", "send", "handle", "wait"},
         fresh' \in [{"sender", "reader"} -> BOOLEAN],
         reading' \in {"none", "current", "replaced", "ended"},
         UNCHANGED <<inProgress, slot, run, link, routerUp, registered>>
  PROVE  IInv'
<1> USE DEF IInv
<1>1. TypeOK'
  BY GotoMoves DEF TypeOK
<1>2. \A s \in Threads : Owns(s)' <=> Owns(s)
  BY GotoMoves DEF Owns
<1>3. OnlyOwner' /\ FlagOfOwner'
  BY <1>2 DEF OnlyOwner, FlagOfOwner
<1>4. OwnerAt' /\ ListenersFollow'
  BY GotoMoves DEF OwnerAt, ListenersFollow
<1> QED
  BY <1>1, <1>3, <1>4

\* The reader calls recv, or is back from it.
LEMMA RecvStep ==
  ASSUME IInv, CallRecv \/ ReadPart
  PROVE  IInv'
<1>1. /\ UNCHANGED <<pc, fresh, inProgress, slot, run, link, routerUp, registered>>
      /\ reading' \in {"none", "current", "replaced", "ended"}
  BY DEF CallRecv, ReadPart
<1> QED
  BY <1>1 DEF IInv, TypeOK, OnlyOwner, FlagOfOwner, OwnerAt, ListenersFollow, Owns

\* The owner connects, and begins with the first slot.
LEMMA ConnectStep ==
  ASSUME IInv, NEW t \in Threads, Connect(t)
  PROVE  IInv'
<1> USE ConnReconnectAssumption DEF IInv
<1>1. Goto(t, "connect", "register")
  BY DEF Connect
<1>2. TypeOK'
  BY <1>1, GotoMoves DEF TypeOK, Connect
<1>3. \A s \in Threads : Owns(s)' <=> Owns(s)
  BY <1>1, GotoMoves DEF Owns
<1>4. OnlyOwner' /\ FlagOfOwner'
  BY <1>3 DEF OnlyOwner, FlagOfOwner, Connect
<1>5. inProgress'
  BY <1>1, GotoMoves DEF Owns, FlagOfOwner, Connect
<1>6. \A s \in Threads \ {t} : ~Owns(s)
  BY <1>1, GotoMoves DEF Owns, OnlyOwner
<1>7. OwnerAt'
  BY <1>1, <1>6, GotoMoves DEF OwnerAt, Owns, Connect
<1> QED
  BY <1>2, <1>4, <1>5, <1>7 DEF ListenersFollow

\* The owner sends the next listener, or finds the connection lost again.
LEMMA SendSlotStep ==
  ASSUME IInv, NEW t \in Threads, SendSlot(t)
  PROVE  IInv'
<1> USE ConnReconnectAssumption DEF IInv
<1>1. slot \in Slots /\ pc[t] = "register"
  BY DEF SendSlot, TypeOK, Slots
<1>2. fresh' \in [{"sender", "reader"} -> BOOLEAN]
  BY DEF SendSlot, TypeOK
<1>3. CASE slot' = slot + 1 /\ UNCHANGED pc
           /\ registered' = IF link = "up" THEN registered \cup {slot} ELSE registered
  <2>1. TypeOK'
    BY <1>1, <1>2, <1>3 DEF TypeOK, SendSlot, Slots
  <2>2. OnlyOwner' /\ FlagOfOwner'
    BY <1>3 DEF OnlyOwner, FlagOfOwner, Owns, SendSlot
  <2>3. inProgress' /\ UNCHANGED link
    BY <1>1 DEF FlagOfOwner, Owns, SendSlot
  <2>4. 1 .. slot' - 1 = (1 .. slot - 1) \cup {slot}
    BY <1>1, <1>3 DEF Slots
  <2>5. OwnerAt'
    BY <1>3, <2>3, <2>4 DEF OwnerAt
  <2> QED
    BY <2>1, <2>2, <2>3, <2>5 DEF ListenersFollow
<1>4. CASE link # "up" /\ Goto(t, "register", "self") /\ UNCHANGED <<slot, registered>>
  <2>1. TypeOK'
    BY <1>2, <1>4, GotoMoves DEF TypeOK, SendSlot
  <2>2. \A s \in Threads : Owns(s)' <=> Owns(s)
    BY <1>4, GotoMoves DEF Owns
  <2>3. OnlyOwner' /\ FlagOfOwner'
    BY <2>2 DEF OnlyOwner, FlagOfOwner, SendSlot
  <2>4. link' # "up"
    BY <1>4 DEF SendSlot
  <2> QED
    BY <2>1, <2>3, <2>4 DEF OwnerAt, ListenersFollow
<1> QED
  BY <1>3, <1>4 DEF SendSlot

\* The owner gives the flag back: with a dead socket, or with all slots sent.
LEMMA ReleaseStep ==
  ASSUME IInv, NEW t \in Threads, GiveUp(t) \/ Registered(t)
  PROVE  IInv'
<1> USE ConnReconnectAssumption DEF IInv
<1>1. PICK from \in {"connect", "register"}, to \in {"idle", "retry", "loop", "send"} :
        Goto(t, from, to)
  BY DEF GiveUp, Registered, Failed, Succeeded
<1>2. UNCHANGED <<slot, run, link, reading, routerUp, registered>> /\ inProgress' = FALSE
  BY DEF GiveUp, Registered
<1>3. fresh' \in [{"sender", "reader"} -> BOOLEAN]
  BY DEF GiveUp, Registered, TypeOK
<1>4. TypeOK'
  <2>1. pc' = [pc EXCEPT ![t] = to]
    BY <1>1, GotoMoves
  <2>2. pc' \in [Threads -> {"idle", "ended", "loop", "read", "retry", "send", "handle",
                            "wait", "connect", "register", "self"}]
    BY <2>1 DEF TypeOK
  <2> QED
    BY <1>2, <1>3, <2>2 DEF TypeOK
<1>5. \A s \in Threads : ~Owns(s)'
  BY <1>1, GotoMoves DEF Owns, OnlyOwner
<1>6. OnlyOwner' /\ FlagOfOwner'
  BY <1>2, <1>5 DEF OnlyOwner, FlagOfOwner
<1>7. OwnerAt'
  BY <1>5 DEF OwnerAt, Owns
<1>8. ListenersFollow'
  <2>1. CASE GiveUp(t)
    BY <1>2, <2>1 DEF GiveUp, Goto, OwnerAt, ListenersFollow
  <2>2. CASE Registered(t)
    <3>1. pc[t] = "register" /\ slot > Listeners
      BY <2>2 DEF Registered, Goto
    <3>2. slot = Listeners + 1
      BY <3>1 DEF TypeOK
    <3>3. link = "up" => Slots \subseteq registered
      BY <3>1, <3>2 DEF OwnerAt, Slots
    <3> QED
      BY <1>2, <3>3 DEF ListenersFollow, TypeOK, Slots
  <2> QED
    BY <2>1, <2>2
<1> QED
  BY <1>4, <1>6, <1>7, <1>8

\* A crash of the router and the shutdown of the socket lose the connection; the
\* restart of the router changes nothing here.
LEMMA LossStep ==
  ASSUME IInv, Stop \/ Crash \/ Restart
  PROVE  IInv'
<1> USE DEF IInv
<1>1. TypeOK'
  BY DEF TypeOK, Stop, Crash, Restart
<1>2. OnlyOwner' /\ FlagOfOwner'
  BY DEF OnlyOwner, FlagOfOwner, Owns, Stop, Crash, Restart
<1>3. CASE link' # "up" /\ UNCHANGED pc
  BY <1>1, <1>2, <1>3 DEF OwnerAt, ListenersFollow
<1>4. CASE UNCHANGED <<pc, inProgress, slot, link, registered>>
  BY <1>1, <1>2, <1>4 DEF OwnerAt, ListenersFollow
<1> QED
  BY <1>3, <1>4 DEF Stop, Crash, Restart

-----------------------------------------------------------------------------
\* Every step of ConnectAndRegister preserves the inductive invariant.
LEMMA ConnectAndRegisterStep ==
  ASSUME IInv, NEW t \in Threads, ConnectAndRegister(t)
  PROVE  IInv'
<1>1. CASE Waited(t)
  BY <1>1, BystanderStep DEF Waited, Succeeded, IInv, TypeOK
<1> QED
  BY <1>1, HandleStep, ConnectStep, SendSlotStep, ReleaseStep DEF ConnectAndRegister

\* Every step preserves the inductive invariant.
LEMMA StepIInv == IInv /\ [Next]_vars => IInv'
<1> SUFFICES ASSUME IInv, [Next]_vars PROVE IInv'
  OBVIOUS
<1> USE DEF Threads
<1>1. ASSUME NEW t \in Senders, StartSend(t) \/ Send(t) \/ ConnectAndRegister(t)
      PROVE  IInv'
  <2>1. CASE StartSend(t)
    BY <2>1, BystanderStep DEF StartSend, IInv, TypeOK
  <2>2. CASE Send(t)
    BY <2>2, BystanderStep DEF Send, IInv, TypeOK
  <2> QED
    BY <1>1, <2>1, <2>2, ConnectAndRegisterStep
<1>2. CASE ReaderStep
  <2>1. CASE ReaderLoop
    BY <2>1, BystanderStep DEF ReaderLoop, IInv, TypeOK
  <2>2. CASE ReadFails \/ Retry
    BY <2>2, BystanderStep DEF ReadFails, Retry, IInv, TypeOK
  <2> QED
    BY <1>2, <2>1, <2>2, RecvStep, ConnectAndRegisterStep DEF ReaderStep
<1>3. CASE ReaderInput
  <2>1. CASE ReadMessage \/ ReadFailsOtherwise
    BY <2>1, BystanderStep DEF ReadMessage, ReadFailsOtherwise, IInv, TypeOK
  <2> QED
    BY <1>3, <2>1, RecvStep DEF ReaderInput
<1>4. CASE Stop \/ Crash \/ Restart
  BY <1>4, LossStep
<1>5. CASE UNCHANGED vars
  BY <1>5 DEF vars, IInv, TypeOK, OnlyOwner, FlagOfOwner, OwnerAt, ListenersFollow, Owns
<1> QED
  BY <1>1, <1>2, <1>3, <1>4, <1>5 DEF Next

\* Hence it holds in every state of every run.
LEMMA Invariance == Spec => []IInv
BY InitIInv, StepIInv, PTL DEF Spec

\* A set whose members are all equal has at most one.
LEMMA AtMostOne ==
  ASSUME NEW S, \A s, t \in S : s = t
  PROVE  Cardinality(S) <= 1
<1>1. CASE S = {}
  <2>1. Cardinality(S) = 0
    BY <1>1, FS_EmptySet, Zenon
  <2> QED
    BY <2>1
<1>2. CASE S # {}
  <2>1. PICK s : S = {s}
    BY <1>2
  <2>2. Cardinality({s}) = 1
    BY FS_Singleton, Zenon
  <2> QED
    BY <2>1, <2>2
<1> QED
  BY <1>1, <1>2

\* In every run at most one thread replaces the socket, and reconnect_in_progress,
\* for which the others wait, is set exactly while one does.
THEOREM OneOwnerAlways == Spec => []OneOwner
<1>1. IInv => OneOwner
  <2> SUFFICES ASSUME IInv PROVE OneOwner
    OBVIOUS
  <2>1. \A s, t \in Owners : s = t
    BY DEF IInv, OnlyOwner, Owns, Owners
  <2>2. inProgress <=> Owners # {}
    BY DEF IInv, FlagOfOwner, Owns, Owners
  <2> QED
    BY <2>1, <2>2, AtMostOne DEF OneOwner
<1> QED
  BY Invariance, <1>1, PTL

\* In every run a connection that is in use has all its listeners registered with the
\* router it reaches, whichever thread reconnected and however often.
THEOREM ListenersAlwaysFollow == Spec => []ListenersFollow
<1>1. IInv => ListenersFollow
  BY DEF IInv
<1> QED
  BY Invariance, <1>1, PTL

\* In every run the state is well typed: the walk over the slots ends behind the last.
THEOREM TypeCorrect == Spec => []TypeOK
<1>1. IInv => TypeOK
  BY DEF IInv
<1> QED
  BY Invariance, <1>1, PTL

-----------------------------------------------------------------------------
(* The key exchange.                                                       *)

Registering == \E t \in Threads : pc[t] = "register"

\* The router has nothing of this exchange, and nothing to send.
Clean == wire = <<>> /\ answer = NoKey /\ routerKey = NoKey

\* What is known of a connection that is up.
KeyStep ==
  /\ wire \in {<<>>, <<1>>, <<2>>}
  /\ wire = <<2>> => cipher = half
  /\ routerKey # NoKey => cipher = routerKey
  /\ Registering /\ step \in {"none", "recreate", "ask"} => Clean
  /\ step = "await" =>
       /\ routerKey = NoKey /\ wire # <<2>>
       /\ wire = <<1>> => answer = NoKey /\ response = NoKey
       /\ answer # NoKey => answer = half /\ response = NoKey
       /\ response # NoKey => response = half
  /\ step = "confirm" => Clean /\ cipher = half

SlotsSent == step # "none" => slot > Listeners

SecureIInv ==
  /\ IInv
  /\ SecureTypeOK
  /\ SlotsSent
  /\ link = "up" => KeyStep

-----------------------------------------------------------------------------
(* The state of the reconnect.                                             *)

\* The exchange changes it only in what its messages and its end change.
LEMMA ExchangeIInv ==
  ASSUME IInv, NEW t \in Threads, Exchange(t)
  PROVE  IInv'
<1> USE ConnReconnectAssumption DEF IInv
<1>1. CASE DestroyCipher(t) \/ CreateCipher(t) \/ Answered(t)
  <2>1. UNCHANGED vars
    BY <1>1 DEF DestroyCipher, CreateCipher, Answered, reconnectVars
  <2> QED
    BY <2>1 DEF vars, TypeOK, OnlyOwner, FlagOfOwner, OwnerAt, ListenersFollow, Owns
<1>2. CASE Ask(t) \/ Confirm(t)
  <2>1. UNCHANGED <<pc, inProgress, slot, run, link, reading, routerUp, registered>>
    BY <1>2 DEF Ask, Confirm
  <2>2. fresh' \in [{"sender", "reader"} -> BOOLEAN]
    BY <1>2 DEF Ask, Confirm, TypeOK
  <2> QED
    BY <2>1, <2>2 DEF TypeOK, OnlyOwner, FlagOfOwner, OwnerAt, ListenersFollow, Owns
<1>3. CASE Lost(t)
  <2>1. Goto(t, "register", "self") /\ link # "up"
        /\ UNCHANGED <<inProgress, slot, run, link, reading, routerUp, registered>>
        /\ fresh' \in [{"sender", "reader"} -> BOOLEAN]
    BY <1>3 DEF Lost, TypeOK
  <2>2. TypeOK'
    BY <2>1, GotoMoves DEF TypeOK
  <2>3. \A s \in Threads : Owns(s)' <=> Owns(s)
    BY <2>1, GotoMoves DEF Owns
  <2>4. OnlyOwner' /\ FlagOfOwner'
    BY <2>1, <2>3 DEF OnlyOwner, FlagOfOwner
  <2> QED
    BY <2>1, <2>2, <2>4 DEF OwnerAt, ListenersFollow
<1>4. CASE Fails(t)
  <2>1. PICK to \in {"idle", "retry", "loop"} : Goto(t, "register", to)
    BY <1>4 DEF Fails, Failed
  <2>2. /\ UNCHANGED <<slot, run, link, reading, routerUp, registered>> /\ inProgress' = FALSE
        /\ fresh' \in [{"sender", "reader"} -> BOOLEAN]
    BY <1>4 DEF Fails, TypeOK
  <2>3. TypeOK'
    <3>1. pc' = [pc EXCEPT ![t] = to]
      BY <2>1, GotoMoves
    <3>2. pc' \in [Threads -> {"idle", "ended", "loop", "read", "retry", "send", "handle",
                              "wait", "connect", "register", "self"}]
      BY <3>1 DEF TypeOK
    <3> QED
      BY <2>2, <3>2 DEF TypeOK
  <2>4. \A s \in Threads : ~Owns(s)'
    BY <2>1, GotoMoves DEF Owns, OnlyOwner
  <2>5. OnlyOwner' /\ FlagOfOwner' /\ OwnerAt'
    BY <2>2, <2>4 DEF OnlyOwner, FlagOfOwner, OwnerAt, Owns
  <2>6. pc[t] = "register" /\ slot = Listeners + 1
    BY <1>4 DEF Fails, OwnerIn, TypeOK
  <2>7. link = "up" => Slots \subseteq registered
    BY <2>6 DEF OwnerAt, Slots
  <2>8. ListenersFollow'
    BY <2>2, <2>7 DEF ListenersFollow, TypeOK, Slots
  <2> QED
    BY <2>3, <2>5, <2>8
<1>5. CASE Done(t)
  BY <1>5, ReleaseStep DEF Done
<1> QED
  BY <1>1, <1>2, <1>3, <1>4, <1>5 DEF Exchange

\* Every step of a reconnect preserves it.
LEMMA SecureReconnectIInv ==
  ASSUME IInv, NEW t \in Threads, SecureReconnect(t)
  PROVE  IInv'
BY ConnectAndRegisterStep, ExchangeIInv
   DEF SecureReconnect, TakeOver, Accepted, ConnectAndRegister

\* Every step preserves it.
LEMMA SecureStepIInv == IInv /\ [SecureNext]_allVars => IInv'
<1> SUFFICES ASSUME IInv, [SecureNext]_allVars PROVE IInv'
  OBVIOUS
<1> USE DEF Threads
<1>1. ASSUME NEW t \in Senders,
             StartSend(t) \/ SecureSend(t) \/ SecureReconnect(t)
      PROVE  IInv'
  <2>1. CASE EncryptFails(t)
    BY <2>1, BystanderStep DEF EncryptFails, IInv, TypeOK
  <2>2. CASE StartSend(t) \/ Send(t)
    <3>1. Next
      BY <2>2 DEF Next
    <3> QED
      BY <3>1, StepIInv
  <2> QED
    BY <1>1, <2>1, <2>2, SecureReconnectIInv DEF SecureSend
<1>2. CASE SecureReader
  <2>1. CASE ReaderLoop \/ CallRecv \/ ReadFails \/ Retry
    <3>1. Next
      BY <2>1 DEF Next, ReaderStep
    <3> QED
      BY <3>1, StepIInv
  <2> QED
    BY <1>2, <2>1, SecureReconnectIInv DEF SecureReader
<1>3. CASE ReadAnswer \/ ReadTimesOut
  BY <1>3, BystanderStep DEF ReadAnswer, ReadTimesOut, IInv, TypeOK
<1>4. CASE ReaderInput \/ Disconnect \/ Restart
  <2>1. Next
    BY <1>4 DEF Next, Disconnect
  <2> QED
    BY <2>1, StepIInv
<1>5. CASE UNCHANGED vars
  BY <1>5, StepIInv
<1>6. CASE StepOne \/ StepTwo
  BY <1>5, <1>6 DEF StepOne, StepTwo, reconnectVars
<1> QED
  BY <1>1, <1>2, <1>3, <1>4, <1>5, <1>6 DEF SecureNext, allVars

\* Hence it holds in every state of every run.
LEMMA SecureInvariance == SecureSpec => []IInv
<1>1. SecureInit => IInv
  BY InitIInv DEF SecureInit
<1> QED
  BY <1>1, SecureStepIInv, PTL DEF SecureSpec

\* In every run at most one thread replaces the socket, and runs the key exchange;
\* reconnect_in_progress, for which the others wait, is set exactly while one does.
THEOREM SecureOneOwner == SecureSpec => []OneOwner
<1>1. IInv => OneOwner
  <2> SUFFICES ASSUME IInv PROVE OneOwner
    OBVIOUS
  <2>1. \A s, t \in Owners : s = t
    BY DEF IInv, OnlyOwner, Owns, Owners
  <2>2. inProgress <=> Owners # {}
    BY DEF IInv, FlagOfOwner, Owns, Owners
  <2> QED
    BY <2>1, <2>2, AtMostOne DEF OneOwner
<1> QED
  BY SecureInvariance, <1>1, PTL

\* In every run a connection that is in use has all its listeners registered, even
\* when the key exchange failed on it.
THEOREM SecureListenersFollow == SecureSpec => []ListenersFollow
<1>1. IInv => ListenersFollow
  BY DEF IInv
<1> QED
  BY SecureInvariance, <1>1, PTL

-----------------------------------------------------------------------------
(* The keys.                                                               *)

\* The owner of the exchange is the one thread that registers.
LEMMA OwnerRegisters ==
  ASSUME IInv, NEW t \in Threads, pc[t] = "register"
  PROVE  Registering /\ \A s \in Threads \ {t} : pc[s] \notin {"register", "connect"}
BY DEF Registering, IInv, OnlyOwner, Owns

\* The router, reading step 1 or step 2, keeps the two ends in step.
LEMMA RouterStep ==
  ASSUME SecureIInv, StepOne \/ StepTwo
  PROVE  SecureTypeOK' /\ (link = "up" => KeyStep)'
<1> USE KeyExchangeAssumption DEF SecureIInv, OnMessageKeyExchange
<1>1. UNCHANGED <<pc, link, secure, step, cipher, response, failedBy>>
  BY DEF StepOne, StepTwo, reconnectVars, vars, clientVars
<1>2. wire \in Seq({1, 2}) /\ wire # <<>> /\ wire' = Tail(wire)
  BY DEF StepOne, StepTwo, SecureTypeOK
<1>3. wire' \in Seq({1, 2})
  BY <1>2
<1>4. {half, routerKey, answer}' \subseteq Keys \cup {NoKey}
  BY DEF StepOne, StepTwo, SecureTypeOK
<1>5. SecureTypeOK'
  BY <1>1, <1>3, <1>4 DEF SecureTypeOK
<1>6. ASSUME link' = "up" PROVE KeyStep'
  <2>1. KeyStep /\ (Registering' <=> Registering)
    BY <1>1, <1>6 DEF Registering
  <2>2. wire' = <<>>
    <3>1. wire = <<1>> \/ wire = <<2>>
      BY <1>2, <2>1 DEF KeyStep
    <3> QED
      BY <1>2, <3>1
  <2>3. CASE StepOne
    <3>1. wire = <<1>>
      BY <2>1, <2>3 DEF StepOne, KeyStep
    <3>2. half' = answer' /\ answer' \in Keys /\ UNCHANGED routerKey
      BY <2>3 DEF StepOne
    <3> QED
      BY <1>1, <2>1, <2>2, <3>1, <3>2 DEF KeyStep, Clean
  <2>4. CASE StepTwo
    <3>1. wire = <<2>>
      BY <2>1, <2>4 DEF StepTwo, KeyStep
    <3>2. routerKey' = half /\ UNCHANGED <<half, answer>>
      BY <2>4 DEF StepTwo
    <3> QED
      BY <1>1, <2>1, <2>2, <3>1, <3>2 DEF KeyStep, Clean
  <2> QED
    BY <2>3, <2>4
<1> QED
  BY <1>5, <1>6

\* The owner's steps keep the two ends in step.
LEMMA ExchangeStep ==
  ASSUME SecureIInv, NEW t \in Threads, Exchange(t)
  PROVE  SecureTypeOK' /\ (link = "up" => KeyStep)'
<1> USE KeyExchangeAssumption DEF SecureIInv
<1>1. pc[t] = "register" /\ Registering
      /\ \A s \in Threads \ {t} : pc[s] \notin {"register", "connect"}
  BY OwnerRegisters DEF Exchange, DestroyCipher, CreateCipher, Ask, Answered, Fails, Confirm,
     Lost, Done, OwnerIn, Registered, Goto
<1>2. UNCHANGED <<link, secure, routerKey, half>>
  BY DEF Exchange, DestroyCipher, CreateCipher, Ask, Answered, Fails, Confirm, Lost, Done,
     OwnerIn, Registered, reconnectVars, vars, routerVars
<1>3. CASE DestroyCipher(t) \/ CreateCipher(t)
  <2>1. UNCHANGED <<pc, wire, answer, response, failedBy>>
    BY <1>3 DEF DestroyCipher, CreateCipher, reconnectVars, vars, routerVars
  <2>2. \/ step = "none" /\ step' = "recreate" /\ cipher' = NoCipher
        \/ step = "recreate" /\ step' = "ask" /\ cipher' = NoKey
    BY <1>3 DEF DestroyCipher, CreateCipher, OwnerIn
  <2>3. secure
    BY <1>3 DEF DestroyCipher, CreateCipher, OwnerIn
  <2>4. SecureTypeOK'
    BY <1>1, <1>2, <2>1, <2>2, <2>3 DEF SecureTypeOK
  <2>5. ASSUME link' = "up" PROVE KeyStep'
    BY <1>1, <1>2, <2>1, <2>2, <2>5 DEF KeyStep, Clean
  <2> QED
    BY <2>4, <2>5
<1>4. CASE Ask(t)
  <2>1. step = "ask" /\ step' = "await" /\ response' = NoKey /\ secure
        /\ UNCHANGED <<pc, cipher, answer, failedBy>>
    BY <1>4 DEF Ask, OwnerIn
  <2>2. wire' = IF link = "up" THEN Append(wire, 1) ELSE wire
    BY <1>4 DEF Ask, Written
  <2>3. SecureTypeOK'
    BY <1>1, <1>2, <2>1, <2>2 DEF SecureTypeOK
  <2>4. ASSUME link' = "up" PROVE KeyStep'
    <3>1. Clean
      BY <1>1, <1>2, <2>1, <2>4 DEF KeyStep
    <3>2. wire' = <<1>>
      BY <1>2, <2>2, <2>4, <3>1 DEF Clean
    <3> QED
      BY <1>2, <2>1, <2>4, <3>1, <3>2 DEF KeyStep, Clean
  <2> QED
    BY <2>3, <2>4
<1>5. CASE Answered(t)
  <2>1. step = "await" /\ step' = "confirm" /\ secure
        /\ UNCHANGED <<pc, wire, failedBy>>
    BY <1>5 DEF Answered, OwnerIn, reconnectVars, vars
  <2>2. \/ response # NoKey /\ cipher' = response /\ response' = NoKey /\ answer' = answer
        \/ answer # NoKey /\ cipher' = answer /\ answer' = NoKey /\ response' = response
    BY <1>5 DEF Answered
  <2>3. SecureTypeOK'
    BY <1>1, <1>2, <2>1, <2>2 DEF SecureTypeOK, Registering
  <2>4. ASSUME link' = "up" PROVE KeyStep'
    BY <1>2, <2>1, <2>2, <2>4 DEF KeyStep, Clean
  <2> QED
    BY <2>3, <2>4
<1>6. CASE Confirm(t)
  <2>1. step = "confirm" /\ step' = "finish" /\ secure
        /\ UNCHANGED <<pc, cipher, answer, response, failedBy>>
    BY <1>6 DEF Confirm, OwnerIn
  <2>2. wire' = IF link = "up" THEN Append(wire, 2) ELSE wire
    BY <1>6 DEF Confirm, Written
  <2>3. SecureTypeOK'
    BY <1>1, <1>2, <2>1, <2>2 DEF SecureTypeOK
  <2>4. ASSUME link' = "up" PROVE KeyStep'
    <3>1. Clean /\ cipher = half
      BY <1>2, <2>1, <2>4 DEF KeyStep
    <3>2. wire' = <<2>>
      BY <1>2, <2>2, <2>4, <3>1 DEF Clean
    <3> QED
      BY <1>2, <2>1, <3>1, <3>2 DEF KeyStep, Clean
  <2> QED
    BY <2>3, <2>4
<1>7. CASE Fails(t) \/ Done(t)
  <2>1. step' = "none" /\ UNCHANGED <<cipher, wire, answer>>
    BY <1>7 DEF Fails, Done, routerVars
  <2>2. response' \in {response, NoKey} /\ failedBy' \in {failedBy, t}
    BY <1>7 DEF Fails, Done
  <2>3. PICK to \in {"idle", "retry", "loop", "send"} : Goto(t, "register", to)
    BY <1>7 DEF Fails, Done, Registered, Failed, Succeeded
  <2>4. ~Registering'
    BY <1>1, <2>3, GotoMoves DEF Registering, IInv
  <2> QED
    BY <1>2, <2>1, <2>2, <2>4 DEF SecureTypeOK, KeyStep
<1>8. CASE Lost(t)
  BY <1>2, <1>8 DEF Lost, SecureTypeOK, routerVars
<1> QED
  BY <1>3, <1>4, <1>5, <1>6, <1>7, <1>8 DEF Exchange

\* A connection that is lost has no key, a new one none yet.
LEMMA NewClientStep ==
  ASSUME SecureIInv, NEW t \in Threads, TakeOver(t) \/ Accepted(t) \/ Disconnect
  PROVE  SecureTypeOK' /\ (link = "up" => KeyStep)'
<1> USE DEF SecureIInv
<1>1. CASE Disconnect
  <2>1. link' # "up" /\ UNCHANGED <<pc, clientVars>>
    BY <1>1 DEF Disconnect, Stop, Crash
  <2>2. NewClient
    BY <1>1 DEF Disconnect
  <2> QED
    BY <2>1, <2>2 DEF SecureTypeOK, NewClient, clientVars
<1>2. CASE Accepted(t)
  <2>1. NewClient /\ UNCHANGED clientVars /\ Goto(t, "connect", "register")
    BY <1>2 DEF Accepted, Connect
  <2>2. step = "none"
    <3>1. pc[t] = "connect"
      BY <2>1 DEF Goto
    <3>2. \A s \in Threads : pc[s] # "register"
      BY <3>1 DEF IInv, OnlyOwner, Owns
    <3> QED
      BY <3>2 DEF SecureTypeOK
  <2> QED
    BY <2>1, <2>2 DEF SecureTypeOK, KeyStep, NewClient, Clean, clientVars
<1>3. CASE TakeOver(t)
  <2>1. UNCHANGED <<secure, step, cipher, response>>
    BY <1>3 DEF TakeOver
  <2>2. CASE pc'[t] = "connect"
    <3>1. NewClient /\ failedBy' = Nobody
      BY <1>3, <2>2 DEF TakeOver
    <3>2. ~inProgress /\ link' # "up"
      BY <1>3, <2>2, GotoMoves DEF TakeOver, Handle, IInv
    <3>3. step = "none"
      BY <3>2 DEF SecureTypeOK, IInv, FlagOfOwner, Owns
    <3> QED
      BY <2>1, <3>1, <3>2, <3>3 DEF SecureTypeOK, NewClient
  <2>3. CASE pc'[t] # "connect"
    <3>1. UNCHANGED <<routerVars, failedBy>>
      BY <1>3, <2>3 DEF TakeOver
    <3>2. Goto(t, "handle", "wait") /\ UNCHANGED link
      BY <1>3, <2>3, GotoMoves DEF TakeOver, Handle, IInv
    <3>3. \A s \in Threads : pc'[s] = "register" <=> pc[s] = "register"
      BY <3>2, GotoMoves DEF IInv
    <3> QED
      BY <2>1, <3>1, <3>2, <3>3 DEF SecureTypeOK, KeyStep, Registering, Clean, routerVars
  <2> QED
    BY <2>2, <2>3
<1> QED
  BY <1>1, <1>2, <1>3

\* A thread outside of the exchange leaves it alone, unless it hands on the response.
LEMMA OutsideStep ==
  ASSUME SecureIInv,
         UNCHANGED <<secure, step, cipher, failedBy, wire, half, routerKey>>,
         \/ UNCHANGED <<answer, response>>
         \/ answer # NoKey /\ answer' = NoKey
            /\ response' = IF step = "await" THEN answer ELSE response,
         Registering' => Registering, step # "none" => Registering',
         link' = "up" => link = "up"
  PROVE  SecureTypeOK' /\ (link = "up" => KeyStep)'
<1> USE KeyExchangeAssumption DEF SecureIInv
<1>1. SecureTypeOK'
  BY DEF SecureTypeOK, Registering
<1>2. ASSUME link' = "up" PROVE KeyStep'
  BY <1>2 DEF KeyStep, Clean
<1> QED
  BY <1>1, <1>2

\* A thread that neither begins nor ends to register.
LEMMA RegisteringStays ==
  ASSUME IInv, NEW t \in Threads, NEW from, NEW to, Goto(t, from, to),
         from # "register", to # "register"
  PROVE  Registering' <=> Registering
BY GotoMoves DEF Registering, IInv

\* The exchange begins when the listeners are registered.
LEMMA SlotsSentStep ==
  ASSUME SecureIInv, [SecureNext]_allVars
  PROVE  SlotsSent'
<1> USE DEF SecureIInv, SlotsSent
<1>1. ASSUME NEW t \in Threads, SecureReconnect(t) PROVE SlotsSent'
  <2>1. CASE Exchange(t)
    BY <2>1 DEF Exchange, DestroyCipher, CreateCipher, Ask, Answered, Fails, Confirm, Lost,
       Done, OwnerIn, Registered, reconnectVars, vars
  <2>2. CASE TakeOver(t)
    BY <2>2 DEF TakeOver, Handle
  <2>3. CASE Accepted(t)
    <3>1. pc[t] = "connect" /\ UNCHANGED step
      BY <2>3 DEF Accepted, Connect, Goto, clientVars
    <3>2. \A s \in Threads : pc[s] # "register"
      BY <3>1 DEF IInv, OnlyOwner, Owns
    <3> QED
      BY <3>1, <3>2 DEF SecureTypeOK
  <2>4. CASE (Waited(t) \/ GiveUp(t) \/ SendSlot(t)) /\ UNCHANGED <<clientVars, routerVars>>
    <3>1. UNCHANGED step
      BY <2>4 DEF clientVars
    <3>2. UNCHANGED slot \/ slot <= Listeners
      BY <2>4 DEF Waited, GiveUp, SendSlot
    <3> QED
      BY <3>1, <3>2, ConnReconnectAssumption DEF IInv, TypeOK
  <2> QED
    BY <1>1, <2>1, <2>2, <2>3, <2>4 DEF SecureReconnect
<1>2. ASSUME NEW t \in Senders,
             (StartSend(t) /\ UNCHANGED <<clientVars, routerVars>>) \/ SecureSend(t)
      PROVE  SlotsSent'
  BY <1>2 DEF StartSend, SecureSend, Send, EncryptFails, clientVars
<1>3. CASE (ReaderLoop \/ CallRecv \/ ReadFails \/ Retry)
           /\ UNCHANGED <<clientVars, routerVars>>
  BY <1>3 DEF ReaderLoop, CallRecv, ReadFails, Retry, clientVars
<1>4. CASE ReadAnswer \/ ((ReaderInput \/ ReadTimesOut) /\ UNCHANGED <<clientVars, routerVars>>)
  BY <1>4 DEF ReadAnswer, ReaderInput, ReadPart, ReadMessage, ReadFailsOtherwise, ReadTimesOut,
     clientVars
<1>5. CASE Disconnect \/ (Restart /\ UNCHANGED <<clientVars, routerVars>>)
  BY <1>5 DEF Disconnect, Stop, Crash, Restart, clientVars
<1>6. CASE StepOne \/ StepTwo \/ UNCHANGED allVars
  BY <1>6 DEF StepOne, StepTwo, allVars, reconnectVars, vars, clientVars
<1> QED
  BY <1>1, <1>2, <1>3, <1>4, <1>5, <1>6 DEF SecureNext, SecureReader, Threads

\* Every step of a reconnect keeps the two ends in step.
LEMMA ReconnectKeys ==
  ASSUME SecureIInv, NEW t \in Threads, SecureReconnect(t)
  PROVE  SecureTypeOK' /\ (link = "up" => KeyStep)'
<1>1. CASE (Waited(t) \/ GiveUp(t) \/ SendSlot(t)) /\ UNCHANGED <<clientVars, routerVars>>
  <2>1. UNCHANGED link /\ IInv
    BY <1>1 DEF Waited, GiveUp, SendSlot, SecureIInv
  <2>2. UNCHANGED <<secure, step, cipher, failedBy, wire, half, routerKey, answer, response>>
    BY <1>1 DEF clientVars, routerVars
  <2>3. (Registering' => Registering) /\ (step # "none" => Registering')
    <3>1. CASE Waited(t) \/ GiveUp(t)
      <4>1. PICK from \in {"wait", "connect"}, to \in {"idle", "retry", "loop", "send"} :
              Goto(t, from, to)
        BY <3>1 DEF Waited, GiveUp, Failed, Succeeded
      <4>2. Registering' <=> Registering
        BY <2>1, <4>1, RegisteringStays
      <4> QED
        BY <4>2 DEF SecureIInv, SecureTypeOK, Registering
    <3>2. CASE SendSlot(t)
      <4>1. pc[t] = "register" /\ step = "none"
        BY <3>2, ConnReconnectAssumption
           DEF SendSlot, SecureIInv, SlotsSent, IInv, TypeOK
      <4> QED
        BY <4>1 DEF Registering
    <3> QED
      BY <1>1, <3>1, <3>2
  <2> QED
    BY <2>1, <2>2, <2>3, OutsideStep
<1> QED
  BY <1>1, NewClientStep, ExchangeStep DEF SecureReconnect

\* Every step preserves the invariant.
LEMMA SecureStep == SecureIInv /\ [SecureNext]_allVars => SecureIInv'
<1> SUFFICES ASSUME SecureIInv, [SecureNext]_allVars
             PROVE  SecureTypeOK' /\ (link = "up" => KeyStep)'
  BY SecureStepIInv, SlotsSentStep DEF SecureIInv
<1>1. IInv /\ (step # "none" => Registering)
  BY DEF SecureIInv, SecureTypeOK, Registering
<1>2. ASSUME NEW t \in Threads, NEW from, NEW to, Goto(t, from, to),
             from # "register", to # "register",
             UNCHANGED <<link, clientVars, routerVars>>
      PROVE  SecureTypeOK' /\ (link = "up" => KeyStep)'
  <2>1. Registering' <=> Registering
    BY <1>1, <1>2, RegisteringStays
  <2> QED
    BY <1>1, <1>2, <2>1, OutsideStep DEF clientVars, routerVars
<1>3. ASSUME NEW t \in Senders,
             (StartSend(t) /\ UNCHANGED <<clientVars, routerVars>>) \/ SecureSend(t)
      PROVE  SecureTypeOK' /\ (link = "up" => KeyStep)'
  <2>1. PICK from \in {"idle", "send"}, to \in {"send", "idle", "handle"} : Goto(t, from, to)
    BY <1>3 DEF StartSend, SecureSend, Send, EncryptFails
  <2>2. UNCHANGED <<link, clientVars, routerVars>>
    BY <1>3 DEF StartSend, SecureSend, Send, EncryptFails
  <2> QED
    BY <1>2, <2>1, <2>2 DEF Threads
<1>4. CASE (ReaderLoop \/ ReadFails \/ Retry \/ ReadMessage \/ ReadFailsOtherwise \/ ReadTimesOut)
           /\ UNCHANGED <<clientVars, routerVars>>
  <2>1. PICK from \in {"loop", "read", "retry"},
             to \in {"loop", "read", "retry", "handle", "ended"} : Goto(Reader, from, to)
    BY <1>4 DEF ReaderLoop, ReadFails, Retry, ReadMessage, ReadFailsOtherwise, ReadTimesOut
  <2>2. UNCHANGED <<link, clientVars, routerVars>>
    BY <1>4 DEF ReaderLoop, ReadFails, Retry, ReadMessage, ReadFailsOtherwise, ReadTimesOut
  <2> QED
    BY <1>2, <2>1, <2>2 DEF Threads
<1>5. CASE ReadAnswer
  <2>1. Registering' <=> Registering
    BY <1>1, <1>5, RegisteringStays DEF ReadAnswer, Threads
  <2> QED
    BY <1>1, <1>5, <2>1, OutsideStep DEF ReadAnswer
<1>6. CASE StepOne \/ StepTwo
  BY <1>6, RouterStep
<1>7. CASE Disconnect
  BY <1>7, NewClientStep DEF Threads
<1>8. CASE ((CallRecv \/ ReadPart \/ Restart) /\ UNCHANGED <<clientVars, routerVars>>)
           \/ UNCHANGED allVars
  <2>1. UNCHANGED <<pc, link, clientVars, routerVars>>
    BY <1>8 DEF CallRecv, ReadPart, Restart, allVars, vars
  <2> QED
    BY <1>1, <2>1, OutsideStep DEF clientVars, routerVars, Registering
<1>9. ASSUME NEW t \in Threads, SecureReconnect(t)
      PROVE  SecureTypeOK' /\ (link = "up" => KeyStep)'
  BY <1>9, ReconnectKeys
<1> QED
  BY <1>3, <1>4, <1>5, <1>6, <1>7, <1>8, <1>9
     DEF SecureNext, SecureReader, ReaderInput, Threads

\* In the initial states the two ends have the same key, or none.
LEMMA SecureInitIInv == SecureInit => SecureIInv
<1> SUFFICES ASSUME SecureInit PROVE SecureIInv
  OBVIOUS
<1>1. IInv
  BY InitIInv DEF SecureInit
<1>2. ~Registering
  BY DEF SecureInit, Init, Registering
<1>3. SecureTypeOK /\ SlotsSent
  BY DEF SecureInit, SecureTypeOK, SlotsSent
<1>4. KeyStep
  BY <1>2, KeyExchangeAssumption DEF SecureInit, KeyStep
<1> QED
  BY <1>1, <1>3, <1>4 DEF SecureIInv

\* Hence it holds in every state of every run.
LEMMA KeyInvariance == SecureSpec => []SecureIInv
BY SecureInitIInv, SecureStep, PTL DEF SecureSpec

\* In every run a key the router has for a client whose connection is up is the one
\* the client's cipher has: neither a late response nor an older client's key can
\* come between them.
THEOREM KeysAlwaysAgree == SecureSpec => []KeysAgree
<1>1. SecureIInv => KeysAgree
  BY DEF SecureIInv, KeyStep, KeysAgree
<1> QED
  BY KeyInvariance, <1>1, PTL

\* In every run the state of the exchange is well typed, and there is a step of it
\* only while somebody owns the reconnect of a connection with a cipher.
THEOREM SecureTypeCorrect == SecureSpec => []SecureTypeOK
<1>1. SecureIInv => SecureTypeOK
  BY DEF SecureIInv
<1> QED
  BY KeyInvariance, <1>1, PTL

-----------------------------------------------------------------------------
(* A connection in use has a key, or is known not to have one.             *)

\* The key is there when the exchange is through, an owner that failed is known until
\* the next one takes over, and the reader, when it failed, will be the next.
KeyedIInv ==
  /\ step \in {"confirm", "finish"} => cipher \in Keys
  /\ inProgress => failedBy = Nobody
  /\ secure /\ run /\ link = "up" /\ ~inProgress =>
       \/ cipher \in Keys
       \/ failedBy \in Senders
       \/ failedBy = Reader /\ pc[Reader] \in {"retry", "handle"} /\ fresh["reader"]

\* Nothing that leaves the exchange, the flag and the reader's new attempt alone
\* disturbs it.
LEMMA KeyedOutside ==
  ASSUME SecureIInv, KeyedIInv,
         UNCHANGED <<secure, step, cipher, failedBy, inProgress>>,
         run' => run, link' = "up" => link = "up" \/ inProgress,
         ~inProgress /\ run' /\ fresh["reader"] =>
           fresh'["reader"] /\ (pc[Reader] \in {"retry", "handle"} => pc'[Reader] \in {"retry", "handle"})
  PROVE  KeyedIInv'
BY DEF KeyedIInv

\* A step of a sender, or of the reader elsewhere than in its new attempt, moves nothing
\* that matters here.
LEMMA KeyedGoto ==
  ASSUME SecureIInv, KeyedIInv, NEW t \in Threads, NEW from, NEW to, Goto(t, from, to),
         t = Reader => from \notin {"retry", "handle"},
         UNCHANGED <<secure, step, cipher, failedBy, inProgress, run>>,
         link' = "up" => link = "up" \/ inProgress,
         fresh["reader"] /\ ~inProgress => fresh'["reader"]
  PROVE  KeyedIInv'
<1>1. pc[t] = from /\ \A s \in Threads \ {t} : pc'[s] = pc[s]
  BY GotoMoves DEF SecureIInv, IInv
<1>2. pc[Reader] \in {"retry", "handle"} => pc'[Reader] \in {"retry", "handle"}
  BY <1>1 DEF Threads
<1> QED
  BY <1>2, KeyedOutside

\* The owner runs the exchange.
LEMMA KeyedExchange ==
  ASSUME SecureIInv, KeyedIInv, NEW t \in Threads, Exchange(t)
  PROVE  KeyedIInv'
<1>1. /\ SecureTypeOK /\ TypeOK /\ FlagOfOwner
  BY DEF SecureIInv, IInv
<1>2. pc[t] = "register" /\ inProgress /\ failedBy = Nobody
  <2>1. pc[t] = "register"
    BY DEF Exchange, DestroyCipher, CreateCipher, Ask, Answered, Fails, Confirm, Lost, Done,
       OwnerIn, Registered, Goto
  <2> QED
    BY <1>1, <2>1 DEF FlagOfOwner, Owns, KeyedIInv
<1>3. CASE DestroyCipher(t) \/ CreateCipher(t) \/ Ask(t) \/ Lost(t)
  <2>1. inProgress' = inProgress /\ failedBy' = failedBy /\ step' \in {"none", "recreate", "ask", "await"}
    BY <1>3 DEF DestroyCipher, CreateCipher, Ask, Lost, reconnectVars, vars
  <2> QED
    BY <1>2, <2>1 DEF KeyedIInv
<1>4. CASE Answered(t)
  <2>1. inProgress' = inProgress /\ failedBy' = failedBy
    BY <1>4 DEF Answered, reconnectVars, vars
  <2>2. cipher' \in Keys
    BY <1>1, <1>4 DEF Answered, SecureTypeOK
  <2> QED
    BY <1>2, <2>1, <2>2 DEF KeyedIInv
<1>5. CASE Confirm(t)
  <2>1. inProgress' = inProgress /\ failedBy' = failedBy /\ cipher' = cipher /\ step = "confirm"
    BY <1>5 DEF Confirm, OwnerIn
  <2> QED
    BY <1>2, <2>1 DEF KeyedIInv
<1>6. CASE Done(t)
  <2>1. inProgress' = FALSE /\ step' = "none" /\ cipher' = cipher /\ secure' = secure
        /\ (secure => step = "finish")
    BY <1>6 DEF Done, Registered
  <2> QED
    BY <2>1 DEF KeyedIInv
<1>7. CASE Fails(t)
  <2>1. /\ inProgress' = FALSE /\ step' = "none" /\ failedBy' = t /\ run' = run
        /\ Goto(t, "register", Failed(t))
        /\ fresh' = (IF t = Reader /\ run THEN [fresh EXCEPT !["reader"] = TRUE] ELSE fresh)
    BY <1>7 DEF Fails
  <2>2. CASE t \in Senders
    BY <2>1, <2>2 DEF KeyedIInv
  <2>3. CASE t = Reader /\ run
    <3>1. pc'[Reader] = "retry"
      BY <1>1, <2>1, <2>3, GotoMoves DEF Failed
    <3>2. fresh'["reader"]
      BY <1>1, <2>1, <2>3 DEF TypeOK
    <3> QED
      BY <2>1, <2>3, <3>1, <3>2 DEF KeyedIInv
  <2>4. CASE ~run
    BY <2>1, <2>4 DEF KeyedIInv
  <2> QED
    BY <2>2, <2>3, <2>4 DEF Threads
<1> QED
  BY <1>3, <1>4, <1>5, <1>6, <1>7 DEF Exchange

\* A reconnect is taken over; or not, for one is under way or has been since the thread
\* noticed: the reader that failed has noticed last.
LEMMA KeyedTakeOver ==
  ASSUME SecureIInv, KeyedIInv, NEW t \in Threads, TakeOver(t)
  PROVE  KeyedIInv'
<1>1. /\ TypeOK /\ FlagOfOwner /\ SecureTypeOK
  BY DEF SecureIInv, IInv
<1>2. UNCHANGED <<secure, step, cipher>>
  BY DEF TakeOver
<1>3. CASE ~inProgress /\ fresh[TimeOf(t)] /\ Goto(t, "handle", "connect") /\ inProgress' = TRUE
  <2>1. pc'[t] = "connect"
    BY <1>1, <1>3, GotoMoves
  <2>2. failedBy' = Nobody
    BY <2>1 DEF TakeOver
  <2>3. step = "none"
    BY <1>1, <1>3 DEF SecureTypeOK, FlagOfOwner, Owns
  <2> QED
    BY <1>2, <1>3, <2>2, <2>3 DEF KeyedIInv
<1>4. CASE /\ inProgress \/ ~fresh[TimeOf(t)]
           /\ Goto(t, "handle", "wait")
           /\ UNCHANGED <<fresh, inProgress, slot, run, link, reading, routerUp, registered>>
  <2>1. pc'[t] = "wait" /\ \A s \in Threads \ {t} : pc'[s] = pc[s]
    BY <1>1, <1>4, GotoMoves
  <2>2. failedBy' = failedBy
    BY <2>1 DEF TakeOver
  <2>3. ~inProgress /\ fresh["reader"] => t # Reader
    BY <1>4 DEF TimeOf
  <2>4. ~inProgress /\ fresh["reader"] => pc'[Reader] = pc[Reader]
    BY <2>1, <2>3 DEF Threads
  <2> QED
    BY <1>2, <1>4, <2>2, <2>4, KeyedOutside
<1> QED
  BY <1>3, <1>4 DEF TakeOver, Handle

LEMMA KeyedReconnect ==
  ASSUME SecureIInv, KeyedIInv, NEW t \in Threads, SecureReconnect(t)
  PROVE  KeyedIInv'
<1>1. /\ TypeOK /\ FlagOfOwner /\ SecureTypeOK /\ OwnerAt
  BY DEF SecureIInv, IInv
<1>2. CASE Accepted(t)
  <2>1. Goto(t, "connect", "register") /\ UNCHANGED <<fresh, inProgress, run, secure, step, cipher, failedBy>>
    BY <1>2 DEF Accepted, Connect, clientVars
  <2>2. inProgress
    BY <1>1, <2>1 DEF FlagOfOwner, Owns, Goto
  <2> QED
    BY <2>1, <2>2, KeyedGoto
<1>3. CASE Waited(t) /\ UNCHANGED <<clientVars, routerVars>>
  <2>1. Goto(t, "wait", Succeeded(t)) /\ UNCHANGED <<fresh, inProgress, run, link, secure, step, cipher, failedBy>>
    BY <1>3 DEF Waited, clientVars
  <2> QED
    BY <2>1, KeyedGoto
<1>4. CASE GiveUp(t) /\ UNCHANGED <<clientVars, routerVars>>
  <2>1. /\ pc[t] = "connect" /\ inProgress' = FALSE /\ link' = link
        /\ UNCHANGED <<step, cipher>>
    BY <1>4 DEF GiveUp, Goto, clientVars
  <2>2. link # "up"
    BY <1>1, <2>1 DEF OwnerAt
  <2> QED
    BY <2>1, <2>2 DEF KeyedIInv
<1>5. CASE SendSlot(t) /\ UNCHANGED <<clientVars, routerVars>>
  <2>1. pc[t] = "register" /\ UNCHANGED <<inProgress, run, link, secure, step, cipher, failedBy>>
    BY <1>5 DEF SendSlot, clientVars
  <2>2. inProgress
    BY <1>1, <2>1 DEF FlagOfOwner, Owns
  <2> QED
    BY <2>1, <2>2 DEF KeyedIInv
<1> QED
  BY <1>2, <1>3, <1>4, <1>5, KeyedExchange, KeyedTakeOver DEF SecureReconnect

LEMMA KeyedStep == SecureIInv /\ KeyedIInv /\ [SecureNext]_allVars => KeyedIInv'
<1> SUFFICES ASSUME SecureIInv, KeyedIInv, [SecureNext]_allVars PROVE KeyedIInv'
  OBVIOUS
<1> USE ConnReconnectAssumption DEF Threads
<1>1. TypeOK
  BY DEF SecureIInv, IInv
<1>2. ASSUME NEW t \in Senders,
             (StartSend(t) /\ UNCHANGED <<clientVars, routerVars>>) \/ SecureSend(t)
      PROVE  KeyedIInv'
  <2>1. PICK from \in {"idle", "send"}, to \in {"send", "idle", "handle"} : Goto(t, from, to)
    BY <1>2 DEF StartSend, SecureSend, Send, EncryptFails
  <2>2. /\ UNCHANGED <<secure, step, cipher, failedBy, inProgress, run, link>>
        /\ fresh["reader"] => fresh'["reader"]
    BY <1>1, <1>2 DEF StartSend, SecureSend, Send, EncryptFails, clientVars, TypeOK
  <2> QED
    BY <2>1, <2>2, KeyedGoto
<1>3. CASE (ReaderLoop \/ ReadFails \/ ReadMessage \/ ReadFailsOtherwise \/ ReadTimesOut)
           /\ UNCHANGED <<clientVars, routerVars>>
  <2>1. PICK from \in {"loop", "read"}, to \in {"read", "ended", "loop", "retry"} :
               Goto(Reader, from, to)
    BY <1>3 DEF ReaderLoop, ReadFails, ReadMessage, ReadFailsOtherwise, ReadTimesOut
  <2>2. /\ UNCHANGED <<secure, step, cipher, failedBy, inProgress, run, link>>
        /\ fresh["reader"] => fresh'["reader"]
    BY <1>1, <1>3 DEF ReaderLoop, ReadFails, ReadMessage, ReadFailsOtherwise, ReadTimesOut,
       clientVars, TypeOK
  <2> QED
    BY <2>1, <2>2, KeyedGoto
<1>4. CASE Retry /\ UNCHANGED <<clientVars, routerVars>>
  <2>1. /\ UNCHANGED <<secure, step, cipher, failedBy, inProgress, run, link, fresh>>
        /\ Goto(Reader, "retry", IF run THEN "handle" ELSE "loop")
    BY <1>4 DEF Retry, clientVars
  <2>2. run => pc'[Reader] = "handle"
    BY <1>1, <2>1, GotoMoves
  <2> QED
    BY <2>1, <2>2, KeyedOutside
<1>5. CASE ReadAnswer
  <2>1. Goto(Reader, "read", "loop") /\ UNCHANGED <<secure, step, cipher, failedBy, inProgress, run, link, fresh>>
    BY <1>5 DEF ReadAnswer
  <2> QED
    BY <2>1, KeyedGoto
<1>6. CASE StepOne \/ StepTwo
  <2>1. UNCHANGED <<secure, step, cipher, failedBy, inProgress, run, link, fresh, pc>>
    BY <1>6 DEF StepOne, StepTwo, reconnectVars, vars, clientVars
  <2> QED
    BY <2>1, KeyedOutside
<1>7. CASE Disconnect
  <2>1. UNCHANGED <<secure, step, cipher, failedBy, inProgress, fresh, pc>> /\ (run' => run) /\ link' # "up"
    BY <1>7 DEF Disconnect, Stop, Crash, clientVars
  <2> QED
    BY <2>1, KeyedOutside
<1>8. CASE ((CallRecv \/ ReadPart \/ Restart) /\ UNCHANGED <<clientVars, routerVars>>)
           \/ UNCHANGED allVars
  <2>1. UNCHANGED <<secure, step, cipher, failedBy, inProgress, run, link, fresh, pc>>
    BY <1>8 DEF CallRecv, ReadPart, Restart, allVars, vars, clientVars
  <2> QED
    BY <2>1, KeyedOutside
<1>9. ASSUME NEW t \in Threads, SecureReconnect(t) PROVE KeyedIInv'
  BY <1>9, KeyedReconnect
<1> QED
  BY <1>2, <1>3, <1>4, <1>5, <1>6, <1>7, <1>8, <1>9
     DEF SecureNext, SecureReader, ReaderInput

\* In every run a connection that is in use has a key, or its reader is about to
\* replace it, unless the exchange was run by a sender, which the reader did not serve
\* while it waited for the reconnect to end.
THEOREM KeyedOrKnown == SecureSpec => []KeyedUnlessSenderFailed
<1>1. SecureInit => KeyedIInv
  BY DEF SecureInit, Init, KeyedIInv
<1>2. KeyedIInv => KeyedUnlessSenderFailed
  BY DEF KeyedIInv, KeyedUnlessSenderFailed
<1> QED
  BY KeyInvariance, <1>1, <1>2, KeyedStep, PTL DEF SecureSpec
=============================================================================
