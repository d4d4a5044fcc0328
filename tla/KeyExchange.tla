----------------------------- MODULE KeyExchange -----------------------------
(***************************************************************************)
(* ConnReconnect for a connection with a cipher (WITH_SPAKE2): the thread   *)
(* that reconnects also agrees on a new key with the router, before the     *)
(* others may go on (rtConnection.c, rtCipher.c, rtrouted.c).  The exchange *)
(* is a request, its response, and a message:                               *)
(*                                                                         *)
(*   owner  --- step 1: pA -->  router                                      *)
(*   owner  <-- pB, Fb -------  router   read by the reader thread          *)
(*   owner  --- step 2: Fa -->  router   which has the key from then on     *)
(*                                                                         *)
(* Both ends know the same password, so that they derive the same key; a    *)
(* key is a value no one holds before.  The owner of the reconnect is in    *)
(* "register" all the while; step says how far it has come:                 *)
(*   none      the listeners are not registered yet                         *)
(*   recreate  con->cipher is NULL, the new one under construction          *)
(*   ask       about to send the request                                    *)
(*   await     waiting for the response, the reader by reading itself       *)
(*   confirm   with the key derived, about to send step 2                   *)
(*   finish    about to return RT_OK                                        *)
(* A cipher that cannot be created is not modelled.                         *)
(***************************************************************************)
EXTENDS ConnReconnect, Sequences

CONSTANTS
  Keys,     \* the keys
  NoKey,    \* a cipher without a key, a client without encryption_key
  NoCipher, \* con->cipher is NULL
  Nobody    \* no thread

ASSUME KeyExchangeAssumption ==
  /\ NoKey \notin Keys /\ NoCipher \notin Keys /\ NoKey # NoCipher
  /\ Nobody \notin Threads

VARIABLES
  secure,     \* whether the connection was created with a password
  step,       \* how far the owner of the reconnect is
  cipher,     \* con->cipher: its key, NoKey or NoCipher
  wire,       \* what the router has not read of the exchange
  half,       \* the router's cipher of this client: the key derived in step 1
  routerKey,  \* encryption_key of the router's client
  answer,     \* the response under way: the key to be derived from it
  response,   \* the response in the entry of the waiting request
  failedBy    \* history: the owner whose exchange failed on this connection

clientVars == <<secure, step, cipher, response, failedBy>>
routerVars == <<wire, half, routerKey, answer>>
reconnectVars == vars
allVars == <<vars, clientVars, routerVars>>

-----------------------------------------------------------------------------
(* The router.                                                             *)

\* Variant: the key of the client that was there before is kept.
NewClientKeepKey ==
  /\ wire' = <<>> /\ half' = NoKey /\ answer' = NoKey
  /\ UNCHANGED routerKey

\* rtConnectedClient_Init: a connection is a new client, without a key; what was on
\* its way before is lost.
NewClient ==
  /\ wire' = <<>> /\ half' = NoKey /\ routerKey' = NoKey /\ answer' = NoKey

\* A message of the exchange is read; without a cipher there, one is created.
OnMessageKeyExchange(n) == wire # <<>> /\ Head(wire) = n /\ wire' = Tail(wire)

\* rtCipher_RunKeyExchangeServer, step 1: the key is derived and the response sent.
StepOne ==
  /\ OnMessageKeyExchange(1)
  /\ \E k \in Keys \ {cipher, half, routerKey, answer} : half' = k /\ answer' = k
  /\ UNCHANGED <<reconnectVars, clientVars, routerKey>>

\* Step 2: Fa is verified, and the client has a key.
StepTwo ==
  /\ OnMessageKeyExchange(2)
  /\ routerKey' = half
  /\ UNCHANGED <<reconnectVars, clientVars, half, answer>>

-----------------------------------------------------------------------------
(* rtConnection_ConnectAndRegister, from the listeners on, and             *)
(* rtCipher_RunKeyExchangeClient in it.                                    *)

\* The owner of a reconnect at this step of the exchange.
OwnerIn(t, s) == pc[t] = "register" /\ slot > Listeners /\ secure /\ step = s

\* The old cipher is destroyed, without con->mutex.
DestroyCipher(t) ==
  /\ OwnerIn(t, "none")
  /\ step' = "recreate" /\ cipher' = NoCipher
  /\ UNCHANGED <<reconnectVars, secure, response, failedBy, routerVars>>

CreateCipher(t) ==
  /\ OwnerIn(t, "recreate")
  /\ step' = "ask" /\ cipher' = NoKey
  /\ UNCHANGED <<reconnectVars, secure, response, failedBy, routerVars>>

\* A message of the exchange is written, into a lost connection for nothing.
Written(n) == wire' = IF link = "up" THEN Append(wire, n) ELSE wire

\* sendmsg or, in the reader's nested rtConnection_Read, recv finds the connection
\* gone: the owner calls ConnectAndRegister, and waits for itself.
Lost(t) ==
  /\ \/ OwnerIn(t, "ask") \/ OwnerIn(t, "confirm")
     \/ OwnerIn(t, "await") /\ t = Reader
  /\ link # "up"
  /\ Goto(t, "register", "self")
  /\ step' = "none"
  /\ fresh' = [fresh EXCEPT !["sender"] = TRUE]
  /\ UNCHANGED <<inProgress, slot, run, link, reading, routerUp, registered, secure,
                 cipher, response, failedBy, routerVars>>

\* rtConnection_SendRequest, with three seconds to wait for the response.
Ask(t) ==
  /\ OwnerIn(t, "ask")
  /\ Written(1)
  /\ step' = "await" /\ response' = NoKey
  /\ fresh' = [fresh EXCEPT !["sender"] = TRUE]
  /\ UNCHANGED <<pc, inProgress, slot, run, link, reading, routerUp, registered, secure,
                 cipher, failedBy, half, routerKey, answer>>

\* The reader hands the response to the sender that waits for it, if one does.
ReadAnswer ==
  /\ reading = "current" /\ link = "up" /\ answer # NoKey
  /\ Goto(Reader, "read", "loop")
  /\ reading' = "none"
  /\ answer' = NoKey
  /\ response' = IF step = "await" THEN answer ELSE response
  /\ UNCHANGED <<fresh, inProgress, slot, run, link, routerUp, registered, secure, step,
                 cipher, failedBy, wire, half, routerKey>>

\* The response is there; or the reader, as owner, reads it.  Deriving the key sets
\* it in the cipher's context, from where rtCipher_Encrypt takes it at once.
Answered(t) ==
  /\ OwnerIn(t, "await")
  /\ \/ /\ response # NoKey
        /\ cipher' = response /\ response' = NoKey
        /\ UNCHANGED answer
     \/ /\ t = Reader /\ link = "up" /\ answer # NoKey
        /\ cipher' = answer /\ answer' = NoKey
        /\ UNCHANGED response
  /\ step' = "confirm"
  /\ UNCHANGED <<reconnectVars, secure, failedBy, wire, half, routerKey>>

\* Variant: the failure is not passed on, and the reader does not try again.
FailsSilently(t) ==
  /\ OwnerIn(t, "await")
  /\ Goto(t, "register", Succeeded(t))
  /\ inProgress' = FALSE
  /\ step' = "none" /\ response' = NoKey /\ failedBy' = t
  /\ UNCHANGED <<fresh, slot, run, link, reading, routerUp, registered, secure, cipher,
                 routerVars>>

\* No response in time: the exchange has failed, and with it the reconnect of its
\* owner, though the connection is there.  The reader tries again.
Fails(t) ==
  /\ OwnerIn(t, "await")
  /\ Goto(t, "register", Failed(t))
  /\ inProgress' = FALSE
  /\ fresh' = IF t = Reader /\ run THEN [fresh EXCEPT !["reader"] = TRUE] ELSE fresh
  /\ step' = "none" /\ response' = NoKey /\ failedBy' = t
  /\ UNCHANGED <<slot, run, link, reading, routerUp, registered, secure, cipher,
                 routerVars>>

Confirm(t) ==
  /\ OwnerIn(t, "confirm")
  /\ Written(2)
  /\ step' = "finish"
  /\ fresh' = [fresh EXCEPT !["sender"] = TRUE]
  /\ UNCHANGED <<pc, inProgress, slot, run, link, reading, routerUp, registered, secure,
                 cipher, response, failedBy, half, routerKey, answer>>

\* The exchange, or without a cipher the registration, is over.
Done(t) ==
  /\ secure => step = "finish"
  /\ Registered(t)
  /\ step' = "none"
  /\ UNCHANGED <<secure, cipher, response, failedBy, routerVars>>

Exchange(t) ==
  \/ DestroyCipher(t) \/ CreateCipher(t) \/ Ask(t) \/ Answered(t) \/ Fails(t)
  \/ Confirm(t) \/ Lost(t) \/ Done(t)

-----------------------------------------------------------------------------
(* The rest of ConnReconnect, with what it does to the exchange.           *)

TakeOver(t) ==
  /\ Handle(t)
  /\ IF pc'[t] = "connect"
     THEN NewClient /\ failedBy' = Nobody
     ELSE UNCHANGED <<routerVars, failedBy>>
  /\ UNCHANGED <<secure, step, cipher, response>>

Accepted(t) ==
  /\ Connect(t)
  /\ NewClient
  /\ UNCHANGED clientVars

SecureReconnect(t) ==
  \/ TakeOver(t) \/ Accepted(t)
  \/ (Waited(t) \/ GiveUp(t) \/ SendSlot(t)) /\ UNCHANGED <<clientVars, routerVars>>
  \/ Exchange(t)

\* A message is not encrypted without a key, and not sent; the caller gets an error.
EncryptFails(t) ==
  /\ secure /\ cipher = NoKey
  /\ Goto(t, "send", "idle")
  /\ UNCHANGED <<fresh, inProgress, slot, run, link, reading, routerUp, registered,
                 clientVars, routerVars>>

SecureSend(t) ==
  \/ Send(t) /\ UNCHANGED <<clientVars, routerVars>>
  \/ EncryptFails(t)

SecureReader ==
  \/ (ReaderLoop \/ CallRecv \/ ReadFails \/ Retry) /\ UNCHANGED <<clientVars, routerVars>>
  \/ SecureReconnect(Reader)

\* Compiled with the cipher, rtConnection_ReadUntil calls recv once select has seen
\* input, for which it waits a minute; the two are one wait here.
ReadTimesOut ==
  /\ secure
  /\ Goto(Reader, "read", "loop")
  /\ reading' = "none"
  /\ UNCHANGED <<fresh, inProgress, slot, run, link, routerUp, registered>>

Disconnect == (Stop \/ Crash) /\ NewClient /\ UNCHANGED clientVars

-----------------------------------------------------------------------------
\* rtConnection_CreateWithConfig has connected and, with a password, run the exchange.
SecureInit ==
  /\ Init
  /\ secure \in BOOLEAN
  /\ \E k \in Keys : IF secure THEN cipher = k /\ half = k /\ routerKey = k
                               ELSE cipher = NoCipher /\ half = NoKey /\ routerKey = NoKey
  /\ step = "none" /\ wire = <<>> /\ answer = NoKey /\ response = NoKey
  /\ failedBy = Nobody

SecureNext ==
  \/ \E t \in Senders :
       \/ StartSend(t) /\ UNCHANGED <<clientVars, routerVars>>
       \/ SecureSend(t) \/ SecureReconnect(t)
  \/ SecureReader \/ ReadAnswer
  \/ (ReaderInput \/ ReadTimesOut) /\ UNCHANGED <<clientVars, routerVars>>
  \/ StepOne \/ StepTwo
  \/ Disconnect
  \/ Restart /\ UNCHANGED <<clientVars, routerVars>>

SecureSpec == SecureInit /\ [][SecureNext]_allVars

\* As in ConnReconnect; and the router handles what it is sent.
SecureFairness ==
  /\ WF_allVars(SecureReader)
  /\ \A t \in Senders : WF_allVars(SecureSend(t) \/ SecureReconnect(t))
  /\ WF_allVars(StepOne \/ StepTwo)

SecureFairSpec == SecureSpec /\ SecureFairness

-----------------------------------------------------------------------------
(* Properties.                                                             *)

\* Types; there is a step only while somebody owns the reconnect of a connection with
\* a cipher.
SecureTypeOK ==
  /\ secure \in BOOLEAN
  /\ step \in {"none", "recreate", "ask", "await", "confirm", "finish"}
  /\ step # "none" => secure /\ \E t \in Threads : pc[t] = "register"
  /\ cipher \in Keys \cup {NoKey, NoCipher}
  /\ wire \in Seq({1, 2})
  /\ {half, routerKey, answer, response} \subseteq Keys \cup {NoKey}
  /\ failedBy \in Threads \cup {Nobody}

\* A key the router has for this client, and encrypts with what it forwards, is the
\* one the client's cipher has, however often the two met and lost each other.
KeysAgree == link = "up" /\ routerKey # NoKey => cipher = routerKey

\* A connection that is in use has a key, or is about to be replaced by the reader,
\* unless the exchange was run by a sender, to which the reader could not hand the
\* response: it waits for the reconnect to end.  (A stopped reader leaves its loop.)
KeyedUnlessSenderFailed ==
  secure /\ run /\ link = "up" /\ ~inProgress =>
    \/ cipher \in Keys
    \/ failedBy \in Senders
    \/ failedBy = Reader /\ pc[Reader] \in {"retry", "handle"}
=============================================================================
