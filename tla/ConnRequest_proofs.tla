------------------------- MODULE ConnRequest_proofs -------------------------
(***************************************************************************)
(* Proofs about ConnRequest, for any number of callers, of responders and  *)
(* of requests: a request returns a response to itself or none, entries    *)
(* leave the list under the mutex unless their request timed out, only     *)
(* then can the reader meet an entry that is gone, every response read has *)
(* an owner, and the whole implements the service Rpc.  The inductive      *)
(* invariant says who holds the mutex, which entries are listed, whose     *)
(* entry the reader is about to write to, what a call will return and, for *)
(* the responses, that sequence numbers are not used twice and who has the *)
(* message of each.                                                        *)
(***************************************************************************)
EXTENDS ConnRequest, TLAPS

Concluded(c) ==
  IF ret[c] = "OK"
  THEN result[c] # NoMessage /\ result[c].seq = seq[c] /\ ~Undeliverable(result[c])
  ELSE result[c] = NoMessage

\* The mutex is held while sending and, unless the wait timed out, from the end
\* of the wait until the entry has left the list.
Holds(c) ==
  mutex = c <=> pc[c] = "sending" \/ (pc[c] = "dequeue" /\ ret[c] # "TIMEOUT")

Listed(c) == c \in pending <=> pc[c] \in {"sending", "waiting", "posted", "dequeue"}

Outcome(c) ==
  /\ pc[c] \in {"sending", "waiting", "posted"} => ret[c] = "OK" /\ result[c] = NoMessage
  /\ pc[c] = "reconnect" => ret[c] = "NO_CONNECTION" /\ result[c] = NoMessage
  /\ pc[c] = "dequeue" => Concluded(c)
  /\ pc[c] = "idle" /\ seq[c] # 0 => Concluded(c)
  /\ pc[c] # "idle" => seq[c] # 0
  /\ pc[c] = "dequeue" /\ ret[c] = "TIMEOUT" => seq[c] \in late

EntryOfRequest(c) ==
  c \in pending /\ response[c] # NoMessage => response[c].seq = seq[c]

CallerOK(c) == Holds(c) /\ Listed(c) /\ Outcome(c) /\ EntryOfRequest(c)

\* The reader keeps the mutex from finding an entry to posting its semaphore.  The
\* entry is there, or its request timed out.
ReaderHolds ==
  /\ reading # NoMessage <=> mutex = Reader
  /\ reading # NoMessage =>
       /\ target \in Callers
       /\ target \in pending => seq[target] = reading.seq
       /\ target \notin pending => reading.seq \in late
  /\ deadWrite => reading # NoMessage /\ target \notin pending

RequestIInv ==
  /\ TypeOK
  /\ \A c \in Callers : CallerOK(c)
  /\ ReaderHolds

-----------------------------------------------------------------------------
LEMMA RequestInit == Init => RequestIInv
<1> SUFFICES ASSUME Init PROVE RequestIInv
  OBVIOUS
<1> USE ConnRequestAssumption, NoMessageAssumption DEF Init
<1>1. TypeOK
  <2>1. /\ 1 \in 1 .. MaxSeq + 1
        /\ seq \in [Callers -> 0 .. MaxSeq] /\ sem \in [Callers -> Nat]
    OBVIOUS
  <2>2. /\ fate \in [Messages -> Fates] /\ late \subseteq 1 .. MaxSeq
        /\ response \in [Callers -> Messages \cup {NoMessage}]
        /\ result \in [Callers -> Messages \cup {NoMessage}]
    BY DEF Fates
  <2> QED
    BY <2>1, <2>2 DEF TypeOK
<1>2. ASSUME NEW c \in Callers PROVE CallerOK(c)
  BY DEF CallerOK, Holds, Listed, Outcome, EntryOfRequest, Concluded
<1>3. ReaderHolds
  BY DEF ReaderHolds
<1> QED
  BY <1>1, <1>2, <1>3 DEF RequestIInv

\* What a caller does between sending and returning disturbs no other caller: the
\* mutex passes only between it and nobody, and its entry leaves the list only
\* while the reader is not at it, or late.
LEMMA CallerStep ==
  ASSUME RequestIInv, TypeOK', NEW c \in Callers,
         UNCHANGED <<seq, readerVars>>,
         \A d \in Callers : response'[d] \in {response[d], NoMessage},
         pending' \subseteq pending,
         \A d \in Callers \ {c} :
           pc'[d] = pc[d] /\ ret'[d] = ret[d] /\ result'[d] = result[d],
         mutex' = mutex \/ {mutex, mutex'} \subseteq {c, Nobody},
         pending' = pending \/ pending' = pending \ {c},
         late \subseteq late',
         c \in pending \ pending' => mutex = c \/ seq[c] \in late,
         Holds(c)', Listed(c)', Outcome(c)'
  PROVE  RequestIInv'
<1> USE ConnRequestAssumption DEF RequestIInv
<1>1. ASSUME NEW d \in Callers PROVE CallerOK(d)'
  <2>1. EntryOfRequest(d)'
    BY DEF CallerOK, EntryOfRequest
  <2>2. CASE d = c
    BY <2>1, <2>2 DEF CallerOK
  <2>3. CASE d # c
    <3>1. CallerOK(d) /\ pc'[d] = pc[d] /\ ret'[d] = ret[d] /\ result'[d] = result[d]
      BY <2>3
    <3>2. (mutex' = d <=> mutex = d) /\ (d \in pending' <=> d \in pending)
      BY <2>3
    <3>3. Holds(d)' /\ Listed(d)'
      BY <3>1, <3>2 DEF CallerOK, Holds, Listed
    <3>4. Outcome(d)'
      BY <3>1 DEF CallerOK, Outcome, Concluded, Undeliverable
    <3> QED
      BY <2>1, <3>3, <3>4 DEF CallerOK
  <2> QED
    BY <2>2, <2>3
<1>2. ReaderHolds'
  <2>1. UNCHANGED <<reading, target, deadWrite>>
    BY DEF readerVars
  <2>2. mutex' = Reader <=> mutex = Reader
    OBVIOUS
  <2>3. CASE reading = NoMessage
    BY <2>1, <2>2, <2>3 DEF ReaderHolds
  <2>4. CASE reading # NoMessage
    <3>1. target \in Callers /\ mutex = Reader
      BY <2>4 DEF ReaderHolds
    <3>2. CASE target \in pending'
      BY <2>1, <2>2, <2>4, <3>1, <3>2 DEF ReaderHolds
    <3>3. CASE target \notin pending' /\ target \in pending
      <4>1. seq[target] \in late /\ seq[target] = reading.seq
        BY <2>4, <3>1, <3>3 DEF ReaderHolds
      <4> QED
        BY <2>1, <2>2, <2>4, <3>1, <3>3, <4>1 DEF ReaderHolds
    <3>4. CASE target \notin pending
      BY <2>1, <2>2, <2>4, <3>1, <3>4 DEF ReaderHolds
    <3> QED
      BY <3>2, <3>3, <3>4
  <2> QED
    BY <2>3, <2>4
<1> QED
  BY <1>1, <1>2

-----------------------------------------------------------------------------
(* The steps of a caller.                                                  *)

\* A request is sent, for the first time or anew: the reader is not at an entry.
LEMMA EnqueueStep ==
  ASSUME RequestIInv, NEW c \in Callers, SendRequest(c) \/ Retry(c)
  PROVE  RequestIInv'
<1> USE ConnRequestAssumption, NoMessageAssumption DEF RequestIInv
<1>1. /\ mutex = Nobody /\ mutex' = c
      /\ nextSeq \in 1 .. MaxSeq /\ nextSeq' = nextSeq + 1
      /\ seq' = [seq EXCEPT ![c] = nextSeq]
      /\ sem' = [sem EXCEPT ![c] = 0]
      /\ response' = [response EXCEPT ![c] = NoMessage]
      /\ pending' = pending \cup {c}
      /\ pc' = [pc EXCEPT ![c] = "sending"]
      /\ ret' = [ret EXCEPT ![c] = "OK"]
  BY DEF SendRequest, Retry, Enqueue, TypeOK
<1>2. UNCHANGED <<reading, target, deadWrite, fate, con, late>>
  BY DEF SendRequest, Retry, readerVars
<1>3. result' \in [Callers -> Messages \cup {NoMessage}]
      /\ result'[c] = NoMessage
      /\ \A d \in Callers \ {c} : result'[d] = result[d]
  BY DEF SendRequest, Retry, TypeOK, CallerOK, Outcome
<1>4. TypeOK'
  <2>1. nextSeq' \in 1 .. MaxSeq + 1 /\ seq' \in [Callers -> 0 .. MaxSeq]
    BY <1>1 DEF TypeOK
  <2>2. /\ pc' \in [Callers -> {"idle", "sending", "waiting", "posted", "dequeue", "reconnect"}]
        /\ ret' \in [Callers -> {"OK", "NO_CONNECTION", "FAIL", "TIMEOUT", "ERROR",
                                 "NO_LONGER_AVAILABLE"}]
        /\ sem' \in [Callers -> Nat]
        /\ response' \in [Callers -> Messages \cup {NoMessage}]
    BY <1>1 DEF TypeOK
  <2>3. /\ pending' \subseteq Callers /\ mutex' \in Callers \cup {Reader, Nobody}
    BY <1>1 DEF TypeOK
  <2> QED
    BY <1>2, <1>3, <2>1, <2>2, <2>3 DEF TypeOK
<1>5. reading = NoMessage /\ ~deadWrite
  BY <1>1 DEF ReaderHolds
<1>6. ReaderHolds'
  BY <1>1, <1>2, <1>5 DEF ReaderHolds
<1>7. ASSUME NEW d \in Callers PROVE CallerOK(d)'
  <2>1. CASE d = c
    <3>1. /\ pc'[d] = "sending" /\ ret'[d] = "OK" /\ result'[d] = NoMessage
          /\ seq'[d] # 0 /\ response'[d] = NoMessage
      BY <2>1, <1>1, <1>3 DEF TypeOK
    <3> QED
      BY <2>1, <3>1, <1>1 DEF CallerOK, Holds, Listed, Outcome, EntryOfRequest
  <2>2. CASE d # c
    <3>1. /\ pc'[d] = pc[d] /\ ret'[d] = ret[d] /\ result'[d] = result[d]
          /\ seq'[d] = seq[d] /\ response'[d] = response[d] /\ late' = late
          /\ (d \in pending' <=> d \in pending)
          /\ mutex # d /\ mutex' # d
      BY <2>2, <1>1, <1>2, <1>3 DEF TypeOK
    <3>2. CallerOK(d)
      OBVIOUS
    <3> QED
      BY <3>1, <3>2
      DEF CallerOK, Holds, Listed, Outcome, EntryOfRequest, Concluded, Undeliverable
  <2> QED
    BY <2>1, <2>2
<1> QED
  BY <1>4, <1>6, <1>7

LEMMA SendStep ==
  ASSUME RequestIInv, NEW c \in Callers, SendOk(c) \/ SendFails(c)
  PROVE  RequestIInv'
<1> USE ConnRequestAssumption DEF RequestIInv
<1>1. UNCHANGED <<seq, response, readerVars, sem, result, nextSeq, pending, con, late>>
  BY DEF SendOk, SendFails, entryVars
<1>2. pc[c] = "sending" /\ c \in pending /\ mutex = c /\ seq[c] # 0
      /\ ret[c] = "OK" /\ result[c] = NoMessage
  BY DEF SendOk, SendFails, CallerOK, Holds, Listed, Outcome
<1>3. CASE SendOk(c)
  <2>1. fate' \in [Messages -> Fates]
    BY <1>3 DEF SendOk, Written, TypeOK, Fates
  <2>2. pc' = [pc EXCEPT ![c] = "waiting"] /\ mutex' = Nobody /\ ret' = ret
    BY <1>3 DEF SendOk
  <2>3. TypeOK'
    BY <1>1, <2>1, <2>2 DEF TypeOK, readerVars
  <2>4. pc'[c] = "waiting" /\ \A d \in Callers \ {c} : pc'[d] = pc[d]
    BY <2>2 DEF TypeOK
  <2>5. Holds(c)' /\ Listed(c)' /\ Outcome(c)'
    BY <1>1, <1>2, <2>2, <2>4 DEF Holds, Listed, Outcome
  <2> QED
    BY <1>1, <1>2, <2>2, <2>3, <2>4, <2>5, CallerStep
<1>4. CASE SendFails(c)
  <2>1. PICK e \in {"NO_CONNECTION", "FAIL"} : ret' = [ret EXCEPT ![c] = e]
    BY <1>4 DEF SendFails
  <2>2. pc' = [pc EXCEPT ![c] = "dequeue"] /\ mutex' = mutex /\ fate' \in [Messages -> Fates]
    BY <1>4 DEF SendFails, Written, TypeOK, Fates
  <2>3. TypeOK'
    BY <1>1, <2>1, <2>2 DEF TypeOK, readerVars
  <2>4. /\ pc'[c] = "dequeue" /\ ret'[c] = e
        /\ \A d \in Callers \ {c} : pc'[d] = pc[d] /\ ret'[d] = ret[d]
    BY <2>1, <2>2 DEF TypeOK
  <2>5. Holds(c)' /\ Listed(c)' /\ Outcome(c)'
    BY <1>1, <1>2, <2>2, <2>4 DEF Holds, Listed, Outcome, Concluded
  <2> QED
    BY <1>1, <1>2, <2>2, <2>3, <2>4, <2>5, CallerStep
<1> QED
  BY <1>3, <1>4

LEMMA WaitStep ==
  ASSUME RequestIInv, NEW c \in Callers, WaitReturns(c) \/ WaitTimesOut(c)
  PROVE  RequestIInv'
<1> USE ConnRequestAssumption DEF RequestIInv
<1>1. UNCHANGED <<seq, response, readerVars, result, nextSeq, pending, mutex, fate, con>>
  BY DEF WaitReturns, WaitTimesOut, entryVars
<1>2. pc[c] = "waiting" /\ c \in pending /\ mutex # c /\ seq[c] \in 1 .. MaxSeq
      /\ ret[c] = "OK" /\ result[c] = NoMessage
  BY DEF WaitReturns, WaitTimesOut, CallerOK, Holds, Listed, Outcome, TypeOK
<1>3. CASE WaitReturns(c)
  <2>1. sem' \in [Callers -> Nat]
    BY <1>3 DEF WaitReturns, TypeOK
  <2>2. pc' = [pc EXCEPT ![c] = "posted"] /\ ret' = ret /\ late' = late
    BY <1>3 DEF WaitReturns
  <2>3. TypeOK'
    BY <1>1, <2>1, <2>2 DEF TypeOK, readerVars
  <2>4. pc'[c] = "posted" /\ \A d \in Callers \ {c} : pc'[d] = pc[d]
    BY <2>2 DEF TypeOK
  <2>5. Holds(c)' /\ Listed(c)' /\ Outcome(c)'
    BY <1>1, <1>2, <2>2, <2>4 DEF Holds, Listed, Outcome
  <2> QED
    BY <1>1, <2>2, <2>3, <2>4, <2>5, CallerStep
<1>4. CASE WaitTimesOut(c)
  <2>1. /\ pc' = [pc EXCEPT ![c] = "dequeue"] /\ ret' = [ret EXCEPT ![c] = "TIMEOUT"]
        /\ late' = late \cup {seq[c]} /\ sem' = sem
    BY <1>4 DEF WaitTimesOut, entryVars
  <2>2. TypeOK'
    BY <1>1, <1>2, <2>1 DEF TypeOK, readerVars
  <2>3. /\ pc'[c] = "dequeue" /\ ret'[c] = "TIMEOUT"
        /\ \A d \in Callers \ {c} : pc'[d] = pc[d] /\ ret'[d] = ret[d]
    BY <2>1 DEF TypeOK
  <2>4. Holds(c)' /\ Listed(c)' /\ Outcome(c)'
    BY <1>1, <1>2, <2>1, <2>3 DEF Holds, Listed, Outcome, Concluded
  <2> QED
    BY <1>1, <2>1, <2>2, <2>3, <2>4, CallerStep
<1> QED
  BY <1>3, <1>4

\* What the entry holds is a response to the request.
LEMMA CollectStep ==
  ASSUME RequestIInv, NEW c \in Callers, Collect(c)
  PROVE  RequestIInv'
<1> USE ConnRequestAssumption, NoMessageAssumption DEF RequestIInv
<1>1. /\ UNCHANGED <<seq, sem, response, readerVars, nextSeq, pending, con, late>>
      /\ mutex = Nobody /\ mutex' = c
      /\ pc' = [pc EXCEPT ![c] = "dequeue"]
  BY DEF Collect, entryVars
<1>2. pc[c] = "posted" /\ c \in pending /\ seq[c] # 0 /\ ret[c] = "OK"
      /\ result[c] = NoMessage
      /\ (response[c] # NoMessage => response[c].seq = seq[c])
  BY DEF Collect, CallerOK, Listed, Outcome, EntryOfRequest
<1>3. response[c] \in Messages \cup {NoMessage}
  BY DEF TypeOK
<1>4. /\ ret' \in [Callers -> {"OK", "ERROR", "NO_CONNECTION", "FAIL", "TIMEOUT",
                               "NO_LONGER_AVAILABLE"}]
      /\ result' \in [Callers -> Messages \cup {NoMessage}]
      /\ fate' \in [Messages -> Fates]
      /\ \A d \in Callers \ {c} : ret'[d] = ret[d] /\ result'[d] = result[d]
      /\ ret'[c] # "TIMEOUT"
      /\ IF ret'[c] = "OK"
         THEN result'[c] = response[c] /\ result'[c] # NoMessage
              /\ ~Undeliverable(response[c])
         ELSE result'[c] = NoMessage
  <2>1. Answered(c)
    BY DEF Collect
  <2>2. CASE response[c] = NoMessage
    BY <1>2, <2>1, <2>2 DEF Answered, TypeOK
  <2>3. CASE response[c] # NoMessage /\ Undeliverable(response[c])
    BY <1>2, <1>3, <2>1, <2>3 DEF Answered, TypeOK, Fates
  <2>4. CASE response[c] # NoMessage /\ ~Undeliverable(response[c])
    BY <1>2, <1>3, <2>1, <2>4 DEF Answered, TypeOK, Fates
  <2> QED
    BY <2>2, <2>3, <2>4
<1>5. TypeOK'
  BY <1>1, <1>4 DEF TypeOK, readerVars
<1>6. pc'[c] = "dequeue" /\ \A d \in Callers \ {c} : pc'[d] = pc[d]
  BY <1>1 DEF TypeOK
<1>7. Holds(c)' /\ Listed(c)' /\ Outcome(c)'
  BY <1>1, <1>2, <1>4, <1>6 DEF Holds, Listed, Outcome, Concluded, Undeliverable
<1> QED
  BY <1>1, <1>4, <1>5, <1>6, <1>7, CallerStep

\* The mutex is given back by a caller that has it.
LEMMA ReturnStep ==
  ASSUME RequestIInv, NEW c \in Callers, Dequeue(c) \/ ReconnectFails(c)
  PROVE  RequestIInv'
<1> USE ConnRequestAssumption DEF RequestIInv
<1>1. UNCHANGED <<seq, readerVars, ret, result, nextSeq, fate, con, late>>
  BY DEF Dequeue, ReconnectFails
<1>2. /\ sem' \in [Callers -> Nat] /\ response' \in [Callers -> Messages \cup {NoMessage}]
      /\ \A d \in Callers : response'[d] \in {response[d], NoMessage}
  BY DEF Dequeue, ReconnectFails, entryVars, TypeOK
<1>3. CASE Dequeue(c)
  <2>1. /\ pc[c] = "dequeue" /\ pending' = pending \ {c}
        /\ mutex' = (IF mutex = c THEN Nobody ELSE mutex)
        /\ pc' = [pc EXCEPT ![c] = IF ret[c] = "NO_CONNECTION" THEN "reconnect" ELSE "idle"]
    BY <1>3 DEF Dequeue
  <2>2. TypeOK'
    BY <1>1, <1>2, <2>1 DEF TypeOK, readerVars
  <2>3. /\ pc'[c] = (IF ret[c] = "NO_CONNECTION" THEN "reconnect" ELSE "idle")
        /\ \A d \in Callers \ {c} : pc'[d] = pc[d]
    BY <2>1 DEF TypeOK
  <2>4. Concluded(c) /\ seq[c] # 0 /\ (mutex = c \/ seq[c] \in late)
    BY <2>1 DEF CallerOK, Outcome, Holds
  <2>5. Holds(c)' /\ Listed(c)' /\ Outcome(c)'
    BY <1>1, <2>1, <2>3, <2>4 DEF Holds, Listed, Outcome, Concluded, Undeliverable
  <2> QED
    BY <1>1, <1>2, <2>1, <2>2, <2>3, <2>4, <2>5, CallerStep
<1>4. CASE ReconnectFails(c)
  <2>1. /\ pc[c] = "reconnect" /\ pc' = [pc EXCEPT ![c] = "idle"]
        /\ UNCHANGED <<pending, mutex>>
    BY <1>4 DEF ReconnectFails
  <2>2. TypeOK'
    BY <1>1, <1>2, <2>1 DEF TypeOK, readerVars
  <2>3. pc'[c] = "idle" /\ \A d \in Callers \ {c} : pc'[d] = pc[d]
    BY <2>1 DEF TypeOK
  <2>4. /\ ret[c] = "NO_CONNECTION" /\ result[c] = NoMessage
        /\ mutex # c /\ c \notin pending
    BY <2>1 DEF CallerOK, Outcome, Holds, Listed
  <2>5. Holds(c)' /\ Listed(c)' /\ Outcome(c)'
    BY <1>1, <2>1, <2>3, <2>4 DEF Holds, Listed, Outcome, Concluded
  <2> QED
    BY <1>1, <1>2, <2>1, <2>2, <2>3, <2>5, CallerStep
<1> QED
  BY <1>3, <1>4

-----------------------------------------------------------------------------
(* The steps of the reader, the responders and rtConnection_Destroy.       *)

\* Nothing that callers go by has changed, but for the mutex, which no caller has.
LEMMA OtherStep ==
  ASSUME RequestIInv, UNCHANGED <<callerVars, pending, late>>,
         {mutex, mutex'} \subseteq {Reader, Nobody} \/ mutex' = mutex,
         \A c \in Callers : response'[c] = response[c] \/ response'[c].seq = seq[c],
         NEW c \in Callers
  PROVE  CallerOK(c)'
<1>1. CallerOK(c) /\ UNCHANGED <<pc, seq, ret, result>>
  BY DEF RequestIInv, callerVars
<1>2. mutex' = c <=> mutex = c
  BY ConnRequestAssumption
<1> QED
  BY <1>1, <1>2
  DEF CallerOK, Holds, Listed, Outcome, EntryOfRequest, Concluded, Undeliverable

LEMMA ReaderStep ==
  ASSUME RequestIInv, NEW m \in Messages, ReadResponse(m)
  PROVE  RequestIInv'
<1> USE ConnRequestAssumption, NoMessageAssumption DEF RequestIInv
<1>1. /\ UNCHANGED <<callerVars, sem, response, nextSeq, pending, deadWrite, con, late>>
      /\ reading = NoMessage /\ mutex = Nobody /\ ~deadWrite
  BY DEF ReadResponse, entryVars, ReaderHolds
<1>2. fate' \in [Messages -> Fates]
  BY DEF ReadResponse, TypeOK, Fates
<1>3. CASE \E c \in Callers : Awaits(c, m)
  <2>1. /\ reading' = m /\ mutex' = Reader
        /\ \E c \in Callers : Awaits(c, m) /\ target' = c
    BY <1>3 DEF ReadResponse
  <2>2. target' \in pending /\ target' \in Callers /\ seq[target'] = m.seq
    BY <2>1 DEF Awaits
  <2>3. TypeOK'
    BY <1>1, <1>2, <2>1, <2>2 DEF TypeOK, callerVars
  <2>4. ReaderHolds'
    <3>1. reading' # NoMessage
      BY <2>1
    <3>2. seq' = seq /\ pending' = pending
      BY <1>1 DEF callerVars
    <3> QED
      BY <1>1, <2>1, <2>2, <3>1, <3>2 DEF ReaderHolds
  <2>5. ASSUME NEW c \in Callers PROVE CallerOK(c)'
    BY <1>1, <2>1, OtherStep
  <2> QED
    BY <2>3, <2>4, <2>5
<1>4. CASE ~\E c \in Callers : Awaits(c, m)
  <2>1. UNCHANGED <<reading, target, mutex>>
    BY <1>4 DEF ReadResponse
  <2>2. TypeOK'
    BY <1>1, <1>2, <2>1 DEF TypeOK, callerVars
  <2>3. ReaderHolds'
    BY <1>1, <2>1 DEF ReaderHolds
  <2>4. ASSUME NEW c \in Callers PROVE CallerOK(c)'
    BY <1>1, <2>1, OtherStep
  <2> QED
    BY <2>2, <2>3, <2>4
<1> QED
  BY <1>3, <1>4

LEMMA PostStep ==
  ASSUME RequestIInv, PostResponse
  PROVE  RequestIInv'
<1> USE ConnRequestAssumption, NoMessageAssumption DEF RequestIInv
<1>1. /\ UNCHANGED <<callerVars, nextSeq, pending, deadWrite, con, late>>
      /\ reading' = NoMessage /\ target' = Nobody /\ mutex' = Nobody
      /\ response' = [response EXCEPT ![target] = reading]
  BY DEF PostResponse
<1>2. /\ reading \in Messages /\ mutex = Reader /\ ~deadWrite
      /\ target \in Callers /\ seq[target] = reading.seq
  BY DEF PostResponse, ReaderHolds, TypeOK
<1>3. fate' \in [Messages -> Fates] /\ sem' \in [Callers -> Nat]
  BY <1>2 DEF PostResponse, TypeOK, Fates
<1>4. response' \in [Callers -> Messages \cup {NoMessage}]
  BY <1>1, <1>2 DEF TypeOK
<1>5. TypeOK'
  BY <1>1, <1>3, <1>4 DEF TypeOK, callerVars
<1>6. ReaderHolds'
  BY <1>1, <1>2 DEF ReaderHolds
<1>7. \A c \in Callers : response'[c] = response[c] \/ response'[c].seq = seq[c]
  BY <1>1, <1>2 DEF TypeOK
<1>8. ASSUME NEW c \in Callers PROVE CallerOK(c)'
  BY <1>1, <1>2, <1>7, OtherStep
<1> QED
  BY <1>5, <1>6, <1>8

\* The reader meets an entry that is gone, the connection is
\* destroyed, or nothing happens.
LEMMA RestStep ==
  ASSUME RequestIInv,
         PostToDeadEntry \/ DestroyLists \/ DestroyFrees \/ UNCHANGED vars
  PROVE  RequestIInv'
<1> USE ConnRequestAssumption DEF RequestIInv
<1>1. UNCHANGED <<callerVars, response, nextSeq, pending, mutex, reading, target, late>>
  BY DEF PostToDeadEntry, DestroyLists, DestroyFrees, vars, entryVars, readerVars
<1>2. fate' \in [Messages -> Fates] /\ sem' \in [Callers -> Nat]
      /\ con' \in {"open", "emptied", "freed"}
  BY DEF PostToDeadEntry, DestroyLists, DestroyFrees, vars, entryVars, TypeOK, Fates
<1>3. deadWrite' = deadWrite \/ (deadWrite' = TRUE /\ reading # NoMessage /\ target \notin pending)
  BY DEF PostToDeadEntry, DestroyLists, DestroyFrees, vars, readerVars
<1>4. TypeOK'
  BY <1>1, <1>2, <1>3 DEF TypeOK, callerVars
<1>5. ReaderHolds'
  BY <1>1, <1>3 DEF ReaderHolds, callerVars
<1>6. ASSUME NEW c \in Callers PROVE CallerOK(c)'
  BY <1>1, OtherStep
<1> QED
  BY <1>4, <1>5, <1>6

LEMMA RequestStep == RequestIInv /\ [Next]_vars => RequestIInv'
<1> SUFFICES ASSUME RequestIInv, [Next]_vars PROVE RequestIInv'
  OBVIOUS
<1>1. ASSUME NEW c \in Callers,
             \/ SendRequest(c) \/ SendOk(c) \/ SendFails(c)
             \/ WaitReturns(c) \/ WaitTimesOut(c) \/ Collect(c) \/ Dequeue(c)
             \/ Retry(c) \/ ReconnectFails(c)
      PROVE  RequestIInv'
  BY <1>1, EnqueueStep, SendStep, WaitStep, CollectStep, ReturnStep
<1>2. ASSUME NEW m \in Messages, ReadResponse(m) PROVE RequestIInv'
  BY <1>2, ReaderStep
<1>3. CASE PostResponse
  BY <1>3, PostStep
<1> QED
  BY <1>1, <1>2, <1>3, RestStep DEF Next

LEMMA RequestInvariant == Spec => []RequestIInv
  BY RequestInit, RequestStep, PTL DEF Spec

-----------------------------------------------------------------------------
(* The state of rtConnection_SendRequest is well typed: the sequence       *)
(* numbers of requests that timed out are those of requests that were made. *)
THEOREM RequestTypeCorrect == Spec => []TypeOK
  BY RequestInvariant, PTL DEF RequestIInv

(* rtConnection_SendRequest returns RT_OK with a response to this very     *)
(* request, and with none otherwise, whatever other callers, late answers  *)
(* and spurious wakeups do.                                                *)
THEOREM OwnResponseReturned == Spec => []ReturnsOwnResponse
<1>1. RequestIInv => ReturnsOwnResponse
  BY DEF RequestIInv, CallerOK, Outcome, Concluded, ReturnsOwnResponse
<1> QED
  BY <1>1, RequestInvariant, PTL

(* The reader uses an entry that is gone only for a request that timed out. *)
THEOREM DeadEntryOnlyAfterTimeout == Spec => []EntryAlive
<1>1. RequestIInv => EntryAlive
  BY DEF RequestIInv, ReaderHolds, EntryAlive
<1> QED
  BY <1>1, RequestInvariant, PTL

(* pending_requests_list loses an entry only under con->mutex, or after    *)
(* its request timed out.                                                  *)
THEOREM ListChangesGuarded == Spec => ListGuarded
<1>1. ASSUME RequestIInv, [Next]_vars
      PROVE  [\A c \in pending : c \notin pending' => mutex = c \/ seq[c] \in late]_vars
  <2> SUFFICES ASSUME NEW c \in pending, c \notin pending', Next
               PROVE  mutex = c \/ seq[c] \in late
    BY <1>1
  <2>1. c \in Callers /\ CallerOK(c)
    BY <1>1 DEF RequestIInv, TypeOK
  <2>2. Dequeue(c)
    <3>1. PICK d \in Callers : Dequeue(d)
      BY DEF Next, SendRequest, SendOk, SendFails, WaitReturns, WaitTimesOut, Collect,
             Retry, ReconnectFails, Enqueue, ReadResponse, PostResponse,
             PostToDeadEntry, DestroyLists, DestroyFrees
    <3> QED
      BY <3>1 DEF Dequeue
  <2> QED
    BY <2>1, <2>2 DEF Dequeue, CallerOK, Holds, Outcome
<1> QED
  BY <1>1, RequestInvariant, PTL DEF Spec, ListGuarded

-----------------------------------------------------------------------------
(* Where responses are.                                                    *)

\* Sequence numbers are given out once.
SeqUnique ==
  /\ \A c \in Callers : seq[c] < nextSeq
  /\ \A c, d \in Callers : seq[c] = seq[d] /\ seq[c] # 0 => c = d

\* There is no response to a request that has not been written.
FateOfUnsent ==
  /\ \A m \in Messages : m.seq >= nextSeq => fate[m] = "none"
  /\ \A c \in Callers : pc[c] = "sending" =>
       /\ response[c] = NoMessage
       /\ \A m \in Messages : m.seq = seq[c] => fate[m] = "none"

\* A call that waits has written its request once.
WrittenOnce ==
  \A c \in Callers : pc[c] \in {"waiting", "posted"} =>
    \A m \in Messages : m.seq = seq[c] /\ m.copy = 2 => fate[m] = "none"

\* A caller that leaves the list without a timeout has seen to what its entry holds.
EntrySettled ==
  \A c \in Callers : pc[c] = "dequeue" /\ ret[c] # "TIMEOUT" /\ response[c] # NoMessage =>
    fate[response[c]] # "held"

FateOfRead == reading # NoMessage => fate[reading] = "reader"

FateIInv ==
  SeqUnique /\ FateOfUnsent /\ WrittenOnce /\ EntrySettled /\ FateOfRead /\ ResponseOwned

LEMMA FateInit == Init => FateIInv
<1> SUFFICES ASSUME Init PROVE FateIInv
  OBVIOUS
<1> QED
  BY ConnRequestAssumption DEF Init, FateIInv, SeqUnique, FateOfUnsent, WrittenOnce,
     EntrySettled, FateOfRead, ResponseOwned, Messages

\* Requests get new numbers, and are sent once with each.
LEMMA FateEnqueue ==
  ASSUME RequestIInv, FateIInv, NEW c \in Callers, SendRequest(c) \/ Retry(c)
  PROVE  FateIInv'
<1> USE ConnRequestAssumption, NoMessageAssumption DEF RequestIInv, FateIInv
<1>1. /\ nextSeq \in 1 .. MaxSeq /\ nextSeq' = nextSeq + 1
      /\ seq' = [seq EXCEPT ![c] = nextSeq]
      /\ response' = [response EXCEPT ![c] = NoMessage]
      /\ pending' = pending \cup {c}
      /\ pc' = [pc EXCEPT ![c] = "sending"]
      /\ ret' = [ret EXCEPT ![c] = "OK"]
      /\ UNCHANGED <<reading, fate, late>>
  BY DEF SendRequest, Retry, Enqueue, TypeOK, readerVars
<1>2. c \notin pending
  BY DEF SendRequest, Retry, CallerOK, Listed
<1>3. SeqUnique'
  <2>1. \A d \in Callers : seq[d] \in Nat /\ seq'[d] = IF d = c THEN nextSeq ELSE seq[d]
    BY <1>1 DEF TypeOK
  <2>2. \A d \in Callers : seq[d] < nextSeq
    BY DEF SeqUnique
  <2> QED
    BY <1>1, <2>1, <2>2 DEF SeqUnique
<1>4. FateOfUnsent'
  <2>1. \A m \in Messages : m.seq \in Nat
    BY DEF Messages
  <2>2. \A m \in Messages : m.seq >= nextSeq => fate[m] = "none"
    BY DEF FateOfUnsent
  <2>3. \A m \in Messages : m.seq >= nextSeq' => fate'[m] = "none"
    BY <1>1, <2>1, <2>2
  <2>4. ASSUME NEW d \in Callers, pc'[d] = "sending"
        PROVE  response'[d] = NoMessage /\ \A m \in Messages : m.seq = seq'[d] => fate'[m] = "none"
    <3>1. CASE d = c
      BY <1>1, <2>1, <2>2, <3>1 DEF TypeOK
    <3>2. CASE d # c
      BY <1>1, <2>4, <3>2 DEF TypeOK, FateOfUnsent
    <3> QED
      BY <3>1, <3>2
  <2> QED
    BY <2>3, <2>4 DEF FateOfUnsent
<1>5. EntrySettled' /\ FateOfRead' /\ WrittenOnce'
  BY <1>1 DEF EntrySettled, FateOfRead, WrittenOnce, TypeOK
<1>6. ResponseOwned'
  BY <1>1, <1>2 DEF ResponseOwned, TypeOK
<1> QED
  BY <1>3, <1>4, <1>5, <1>6

LEMMA FateSend ==
  ASSUME RequestIInv, FateIInv, NEW c \in Callers, SendOk(c) \/ SendFails(c)
  PROVE  FateIInv'
<1> USE ConnRequestAssumption, NoMessageAssumption DEF RequestIInv, FateIInv
<1>1. UNCHANGED <<seq, response, reading, nextSeq, pending, late>>
  BY DEF SendOk, SendFails, entryVars, readerVars
<1>2. pc[c] = "sending" /\ response[c] = NoMessage /\ seq[c] # 0
      /\ \A m \in Messages : m.seq = seq[c] => fate[m] = "none"
  BY DEF SendOk, SendFails, FateOfUnsent, CallerOK, Outcome
<1>3. \A d \in Callers \ {c} : pc'[d] = pc[d] /\ ret'[d] = ret[d]
  BY DEF SendOk, SendFails, TypeOK
<1>4. pc'[c] \in {"waiting", "dequeue"}
  BY DEF SendOk, SendFails, TypeOK
<1>5. /\ fate \in [Messages -> Fates] /\ fate' \in [Messages -> Fates]
      /\ \A m \in Messages : m.seq # seq[c] => fate'[m] = fate[m]
      /\ \A m \in Messages : m.seq = seq[c] => fate'[m] \in {"none", "asked"}
  <2>1. PICK to : fate' = Written(c, to)
    BY DEF SendOk, SendFails
  <2> QED
    BY <1>2, <2>1 DEF Written, TypeOK, Fates
<1>6. SeqUnique'
  BY <1>1 DEF SeqUnique
<1>7. FateOfUnsent'
  <2>1. \A m \in Messages : m.seq >= nextSeq => m.seq # seq[c]
    BY DEF SeqUnique, TypeOK, Messages
  <2>2. \A d \in Callers \ {c} : pc[d] = "sending" => seq[d] # seq[c]
    BY <1>2 DEF SeqUnique
  <2>3. ASSUME NEW d \in Callers, pc'[d] = "sending" PROVE d # c
    BY <1>4, <2>3
  <2> QED
    BY <1>1, <1>3, <1>5, <2>1, <2>2, <2>3 DEF FateOfUnsent
<1>11. WrittenOnce'
  <2>1. \A d \in Callers \ {c} : pc[d] \in {"waiting", "posted"} => seq[d] # seq[c]
    BY <1>2 DEF SeqUnique
  <2>2. ASSUME NEW m \in Messages, pc'[c] = "waiting", m.seq = seq[c], m.copy = 2
        PROVE  fate'[m] = "none"
    <3>1. SendOk(c)
      BY <2>2 DEF SendFails, TypeOK
    <3>2. PICK to \in [1 .. 1 -> SUBSET Responders] : fate' = Written(c, to)
      BY <3>1 DEF SendOk
    <3> QED
      BY <1>2, <2>2, <3>2 DEF Written
  <2> QED
    BY <1>1, <1>3, <1>4, <1>5, <2>1, <2>2 DEF WrittenOnce
<1>8. EntrySettled'
  <2>1. ASSUME NEW d \in Callers, response[d] # NoMessage
        PROVE  response[d] \in Messages /\ (fate'[response[d]] = "held" => fate[response[d]] = "held")
    BY <1>5, <2>1 DEF TypeOK
  <2>2. ASSUME NEW d \in Callers, pc'[d] = "dequeue", ret'[d] # "TIMEOUT", response'[d] # NoMessage
        PROVE  fate'[response'[d]] # "held"
    <3>1. d # c
      BY <1>1, <1>2, <2>2
    <3> QED
      BY <1>1, <1>3, <2>1, <2>2, <3>1 DEF EntrySettled
  <2> QED
    BY <2>2 DEF EntrySettled
<1>9. FateOfRead'
  BY <1>1, <1>2, <1>5 DEF FateOfRead, TypeOK
<1>10. ResponseOwned'
  <2>1. ASSUME NEW m \in Messages, fate'[m] = "held" PROVE fate[m] = "held"
    BY <1>5, <2>1
  <2>2. \A n \in Messages : fate[n] \notin {"none", "asked"} => fate'[n] = fate[n]
    BY <1>2, <1>5
  <2> QED
    BY <1>1, <2>1, <2>2 DEF ResponseOwned
<1> QED
  BY <1>6, <1>7, <1>11, <1>8, <1>9, <1>10

LEMMA FateWait ==
  ASSUME RequestIInv, FateIInv, NEW c \in Callers,
         WaitReturns(c) \/ WaitTimesOut(c) \/ ReconnectFails(c)
  PROVE  FateIInv'
<1> USE DEF RequestIInv, FateIInv
<1>1. UNCHANGED <<seq, response, reading, nextSeq, pending, fate>> /\ late \subseteq late'
  BY DEF WaitReturns, WaitTimesOut, ReconnectFails, entryVars, readerVars
<1>2. /\ \A d \in Callers \ {c} : pc'[d] = pc[d] /\ ret'[d] = ret[d]
      /\ pc'[c] \in {"posted", "idle"} \/ (pc'[c] = "dequeue" /\ ret'[c] = "TIMEOUT")
  BY DEF WaitReturns, WaitTimesOut, ReconnectFails, TypeOK
<1>3. SeqUnique' /\ FateOfRead' /\ ResponseOwned'
  BY <1>1 DEF SeqUnique, FateOfRead, ResponseOwned
<1>4. FateOfUnsent' /\ EntrySettled'
  BY <1>1, <1>2 DEF FateOfUnsent, EntrySettled
<1>5. WrittenOnce'
  <2>1. pc'[c] = "posted" => pc[c] = "waiting"
    BY DEF WaitReturns, WaitTimesOut, ReconnectFails, TypeOK
  <2> QED
    BY <1>1, <1>2, <2>1 DEF WrittenOnce
<1> QED
  BY <1>3, <1>4, <1>5

\* What the entry held is returned or released.
LEMMA FateCollect ==
  ASSUME RequestIInv, FateIInv, NEW c \in Callers, Collect(c)
  PROVE  FateIInv'
<1> USE ConnRequestAssumption, NoMessageAssumption DEF RequestIInv, FateIInv
<1>1. UNCHANGED <<seq, response, reading, nextSeq, pending, late>> /\ reading = NoMessage
  BY DEF Collect, entryVars, readerVars, ReaderHolds
<1>2. pc[c] = "posted" /\ pc'[c] = "dequeue"
      /\ \A d \in Callers \ {c} : pc'[d] = pc[d] /\ ret'[d] = ret[d]
  BY DEF Collect, Answered, TypeOK
<1>3. response[c] \in Messages \cup {NoMessage} /\ fate \in [Messages -> Fates]
  BY DEF TypeOK
<1>4. /\ \A m \in Messages : m # response[c] => fate'[m] = fate[m]
      /\ response[c] # NoMessage => fate'[response[c]] \in {"released", "returned"}
  BY <1>3 DEF Collect, Answered
<1>5. response[c] # NoMessage => response[c].seq = seq[c] /\ c \in pending
  BY <1>2 DEF CallerOK, EntryOfRequest, Listed
<1>6. SeqUnique' /\ FateOfRead'
  BY <1>1 DEF SeqUnique, FateOfRead
<1>7. FateOfUnsent'
  <2>1. \A m \in Messages : m.seq >= nextSeq => m # response[c]
    BY <1>3, <1>5 DEF SeqUnique, TypeOK, Messages
  <2>2. seq[c] # 0
    BY <1>2 DEF CallerOK, Outcome
  <2>3. \A d \in Callers : pc'[d] = "sending" => d # c /\ pc[d] = "sending" /\ seq[d] # seq[c]
    BY <1>2, <2>2 DEF SeqUnique
  <2>4. ASSUME NEW d \in Callers, pc'[d] = "sending"
        PROVE  response'[d] = NoMessage /\ \A m \in Messages : m.seq = seq'[d] => fate'[m] = "none"
    BY <1>1, <1>4, <1>5, <2>3, <2>4 DEF FateOfUnsent
  <2> QED
    BY <1>1, <1>4, <2>1, <2>4 DEF FateOfUnsent
<1>10. WrittenOnce'
  <2>1. seq[c] # 0
    BY <1>2 DEF CallerOK, Outcome
  <2>2. \A d \in Callers : pc'[d] \in {"waiting", "posted"} =>
          d # c /\ pc[d] \in {"waiting", "posted"} /\ seq[d] # seq[c]
    BY <1>2, <2>1 DEF SeqUnique
  <2> QED
    BY <1>1, <1>4, <1>5, <2>2 DEF WrittenOnce
<1>8. EntrySettled'
  <2>1. \A d \in Callers : response[d] \in Messages \cup {NoMessage}
    BY DEF TypeOK
  <2> QED
    BY <1>1, <1>2, <1>4, <2>1 DEF EntrySettled
<1>9. ResponseOwned'
  <2>1. ASSUME NEW m \in Messages, fate'[m] = "held" PROVE fate[m] = "held"
    BY <1>4, <2>1
  <2>2. \A n \in Messages : fate[n] \notin {"none", "asked"}
                              => fate'[n] \notin {"none", "asked"}
    BY <1>4
  <2> QED
    BY <1>1, <2>1, <2>2 DEF ResponseOwned
<1> QED
  BY <1>6, <1>7, <1>10, <1>8, <1>9

\* The entry that goes holds nothing that is not settled, or its request timed out.
LEMMA FateDequeue ==
  ASSUME RequestIInv, FateIInv, NEW c \in Callers, Dequeue(c)
  PROVE  FateIInv'
<1> USE DEF RequestIInv, FateIInv
<1>1. UNCHANGED <<seq, ret, reading, nextSeq, fate, late>> /\ pending' = pending \ {c}
  BY DEF Dequeue, readerVars
<1>2. pc[c] = "dequeue" /\ pc'[c] \in {"idle", "reconnect"}
      /\ \A d \in Callers \ {c} : pc'[d] = pc[d] /\ response'[d] = response[d]
  BY DEF Dequeue, TypeOK
<1>3. SeqUnique' /\ FateOfRead'
  BY <1>1 DEF SeqUnique, FateOfRead
<1>4. FateOfUnsent' /\ WrittenOnce' /\ EntrySettled'
  BY <1>1, <1>2 DEF FateOfUnsent, WrittenOnce, EntrySettled
<1>5. ASSUME NEW m \in Messages, fate[m] = "held", response[c] = m PROVE m.seq \in late
  <2>1. response[c] # NoMessage
    BY <1>5, NoMessageAssumption
  <2>2. ret[c] = "TIMEOUT"
    BY <1>2, <1>5, <2>1 DEF EntrySettled
  <2>3. seq[c] \in late /\ c \in pending
    BY <1>2, <2>2 DEF CallerOK, Outcome, Listed
  <2> QED
    BY <1>5, <2>1, <2>3 DEF CallerOK, EntryOfRequest
<1>6. ResponseOwned'
  BY <1>1, <1>2, <1>5 DEF ResponseOwned, TypeOK
<1> QED
  BY <1>3, <1>4, <1>6

\* A response that is found by its entry, or by none.
LEMMA FateRead ==
  ASSUME RequestIInv, FateIInv, NEW m \in Messages, ReadResponse(m)
  PROVE  FateIInv'
<1> USE ConnRequestAssumption, NoMessageAssumption DEF RequestIInv, FateIInv
<1>1. UNCHANGED <<pc, seq, ret, response, nextSeq, pending, late>>
  BY DEF ReadResponse, callerVars, entryVars
<1>2. /\ fate[m] = "asked" /\ fate'[m] \in {"reader", "released"}
      /\ fate' \in [Messages -> Fates] /\ fate \in [Messages -> Fates]
      /\ \A n \in Messages \ {m} : fate'[n] = fate[n]
  BY DEF ReadResponse, TypeOK, Fates
<1>3. SeqUnique'
  BY <1>1 DEF SeqUnique
<1>4. FateOfUnsent' /\ WrittenOnce' /\ EntrySettled'
  <2>1. \A c \in Callers : response[c] \in Messages \cup {NoMessage}
    BY DEF TypeOK
  <2> QED
    BY <1>1, <1>2, <2>1 DEF FateOfUnsent, WrittenOnce, EntrySettled
<1>5. FateOfRead'
  BY <1>2 DEF ReadResponse, FateOfRead, TypeOK
<1>6. ResponseOwned'
  <2>1. ASSUME NEW n \in Messages, fate'[n] = "held" PROVE fate[n] = "held"
    BY <1>2, <2>1
  <2>2. \A n \in Messages : fate[n] \notin {"none", "asked"} => fate'[n] = fate[n]
    BY <1>2
  <2> QED
    BY <1>1, <2>1, <2>2 DEF ResponseOwned
<1> QED
  BY <1>3, <1>4, <1>5, <1>6

\* Of two responses to one request the second takes the place of the first.
LEMMA FatePost ==
  ASSUME RequestIInv, FateIInv, PostResponse
  PROVE  FateIInv'
<1> USE ConnRequestAssumption, NoMessageAssumption DEF RequestIInv, FateIInv
<1>1. /\ UNCHANGED <<pc, seq, ret, nextSeq, pending, late>> /\ reading' = NoMessage
      /\ response' = [response EXCEPT ![target] = reading]
      /\ fate' = [fate EXCEPT ![reading] = "held"]
  BY DEF PostResponse, callerVars
<1>2. /\ reading \in Messages /\ mutex = Reader /\ fate[reading] = "reader"
      /\ target \in Callers /\ target \in pending /\ seq[target] = reading.seq
  BY DEF PostResponse, ReaderHolds, TypeOK, FateOfRead
<1>3. /\ fate'[reading] = "held" /\ \A n \in Messages \ {reading} : fate'[n] = fate[n]
      /\ response'[target] = reading
      /\ \A c \in Callers \ {target} : response'[c] = response[c]
  BY <1>1, <1>2 DEF TypeOK
<1>4. ASSUME NEW c \in Callers
      PROVE  pc[c] # "sending" /\ (pc[c] = "dequeue" => ret[c] = "TIMEOUT")
  BY <1>2 DEF CallerOK, Holds
<1>5. SeqUnique' /\ FateOfRead'
  BY <1>1 DEF SeqUnique, FateOfRead
<1>6. FateOfUnsent'
  BY <1>1, <1>2, <1>3, <1>4 DEF FateOfUnsent
<1>9. WrittenOnce'
  BY <1>1, <1>2, <1>3 DEF WrittenOnce
<1>7. EntrySettled'
  BY <1>1, <1>4 DEF EntrySettled
<1>8. ResponseOwned'
  <2> SUFFICES ASSUME NEW m \in Messages, fate'[m] = "held"
               PROVE  \/ \E c \in pending' : response'[c] = m
                      \/ m.seq \in late'
                      \/ \E n \in Messages \ {m} :
                           n.seq = m.seq /\ fate'[n] \notin {"none", "asked"}
    BY DEF ResponseOwned
  <2>1. CASE m = reading
    BY <1>1, <1>2, <1>3, <2>1
  <2>2. CASE m # reading
    <3>1. fate[m] = "held"
      BY <1>3, <2>2
    <3>2. CASE \E c \in pending : response[c] = m
      <4>1. PICK c \in pending : response[c] = m
        BY <3>2
      <4>2. c \in Callers /\ m # NoMessage
        BY DEF TypeOK
      <4>3. CASE c = target
        <5>1. m.seq = reading.seq
          BY <1>2, <4>1, <4>2, <4>3 DEF CallerOK, EntryOfRequest
        <5> QED
          BY <1>2, <1>3, <2>2, <5>1
      <4>4. CASE c # target
        BY <1>1, <1>3, <4>1, <4>2, <4>4
      <4> QED
        BY <4>3, <4>4
    <3>3. CASE m.seq \in late
      BY <1>1, <3>3
    <3>4. CASE \E n \in Messages \ {m} :
                 n.seq = m.seq /\ fate[n] \notin {"none", "asked"}
      BY <1>3, <3>4
    <3> QED
      BY <3>1, <3>2, <3>3, <3>4 DEF ResponseOwned
  <2> QED
    BY <2>1, <2>2
<1> QED
  BY <1>5, <1>6, <1>9, <1>7, <1>8

LEMMA FateStep == RequestIInv /\ FateIInv /\ [Next]_vars => FateIInv'
<1> SUFFICES ASSUME RequestIInv, FateIInv, [Next]_vars PROVE FateIInv'
  OBVIOUS
<1>1. ASSUME NEW c \in Callers,
             \/ SendRequest(c) \/ SendOk(c) \/ SendFails(c)
             \/ WaitReturns(c) \/ WaitTimesOut(c) \/ Collect(c) \/ Dequeue(c)
             \/ Retry(c) \/ ReconnectFails(c)
      PROVE  FateIInv'
  BY <1>1, FateEnqueue, FateSend, FateWait, FateCollect, FateDequeue
<1>2. ASSUME NEW m \in Messages, ReadResponse(m) PROVE FateIInv'
  BY <1>2, FateRead
<1>3. CASE PostResponse
  BY <1>3, FatePost
<1>4. CASE PostToDeadEntry \/ DestroyLists \/ DestroyFrees \/ UNCHANGED vars
  <2>1. UNCHANGED <<pc, seq, ret, response, nextSeq, pending, reading, fate, late>>
    BY <1>4 DEF PostToDeadEntry, DestroyLists, DestroyFrees, vars, callerVars, entryVars,
       readerVars
  <2> QED
    BY <2>1
    DEF FateIInv, SeqUnique, FateOfUnsent, WrittenOnce, EntrySettled, FateOfRead,
        ResponseOwned
<1> QED
  BY <1>1, <1>2, <1>3, <1>4 DEF Next

(* A response that was handed to a request is returned or released by it,  *)
(* unless the request timed out or another response to it came: nothing is *)
(* lost between rtConnection_Read and rtConnection_SendRequest otherwise.  *)
THEOREM ResponseNotLost == Spec => []ResponseOwned
<1>1. Spec => []FateIInv
  BY FateInit, FateStep, RequestInvariant, PTL DEF Spec
<1>2. FateIInv => ResponseOwned
  BY DEF FateIInv
<1> QED
  BY <1>1, <1>2, PTL

-----------------------------------------------------------------------------
(* The refinement of Rpc.                                                  *)

\* What the entry of a waiting call holds has been neither returned nor released.
HeldByEntry ==
  \A c \in Callers : pc[c] \in {"waiting", "posted"} /\ response[c] # NoMessage =>
    fate[response[c]] = "held"

LEMMA HeldCaller ==
  ASSUME RequestIInv, FateIInv, HeldByEntry, NEW c \in Callers,
         \/ SendRequest(c) \/ SendOk(c) \/ SendFails(c)
         \/ WaitReturns(c) \/ WaitTimesOut(c) \/ Collect(c) \/ Dequeue(c)
         \/ Retry(c) \/ ReconnectFails(c)
  PROVE  HeldByEntry'
<1> USE ConnRequestAssumption, NoMessageAssumption DEF RequestIInv, FateIInv
<1>1. \A d \in Callers \ {c} : pc'[d] = pc[d] /\ response'[d] = response[d] /\ seq'[d] = seq[d]
  BY DEF SendRequest, SendOk, SendFails, WaitReturns, WaitTimesOut, Collect, Dequeue, Retry,
     ReconnectFails, Enqueue, entryVars, TypeOK
<1>2. ASSUME NEW d \in Callers, pc[d] \in {"waiting", "posted"}, response[d] # NoMessage
      PROVE  response[d] \in Messages /\ response[d].seq = seq[d] /\ seq[d] # 0
             /\ fate[response[d]] = "held"
  BY <1>2 DEF CallerOK, EntryOfRequest, Listed, Outcome, HeldByEntry, TypeOK
<1>3. ASSUME NEW m \in Messages, fate[m] = "held", m.seq # seq[c] PROVE fate'[m] = "held"
  <2>1. CASE SendRequest(c) \/ Retry(c) \/ WaitReturns(c) \/ WaitTimesOut(c)
             \/ Dequeue(c) \/ ReconnectFails(c)
    BY <1>3, <2>1 DEF SendRequest, Retry, WaitReturns, WaitTimesOut, Dequeue,
       ReconnectFails
  <2>2. CASE SendOk(c) \/ SendFails(c)
    BY <1>3, <2>2 DEF SendOk, SendFails, Written
  <2>3. CASE Collect(c)
    <3>1. response[c] = NoMessage \/ response[c].seq = seq[c]
      BY <2>3 DEF Collect, CallerOK, EntryOfRequest, Listed
    <3> QED
      BY <1>3, <2>3, <3>1 DEF Collect, Answered, TypeOK
  <2> QED
    BY <2>1, <2>2, <2>3
<1>4. ASSUME NEW d \in Callers \ {c}, pc'[d] \in {"waiting", "posted"}, response'[d] # NoMessage
      PROVE  fate'[response'[d]] = "held"
  <2>1. pc[d] \in {"waiting", "posted"} /\ response[d] # NoMessage /\ response'[d] = response[d]
    BY <1>1, <1>4
  <2>2. seq[d] # seq[c]
    BY <1>2, <2>1 DEF SeqUnique
  <2> QED
    BY <1>2, <1>3, <2>1, <2>2
<1>5. ASSUME pc'[c] \in {"waiting", "posted"}, response'[c] # NoMessage
      PROVE  fate'[response'[c]] = "held"
  <2>1. SendOk(c) \/ WaitReturns(c)
    BY <1>5 DEF SendRequest, SendFails, WaitTimesOut, Collect, Dequeue, Retry,
       ReconnectFails, Enqueue, TypeOK
  <2>2. CASE SendOk(c)
    BY <1>5, <2>2 DEF SendOk, FateOfUnsent, entryVars
  <2>3. CASE WaitReturns(c)
    BY <1>5, <2>3 DEF WaitReturns, HeldByEntry
  <2> QED
    BY <2>1, <2>2, <2>3
<1> QED
  BY <1>4, <1>5 DEF HeldByEntry

LEMMA HeldReader ==
  ASSUME RequestIInv, FateIInv, HeldByEntry,
         PostResponse \/ \E m \in Messages : ReadResponse(m)
  PROVE  HeldByEntry'
<1> USE ConnRequestAssumption, NoMessageAssumption DEF RequestIInv, FateIInv
<1>1. pc' = pc /\ \A c \in Callers : response[c] \in Messages \cup {NoMessage}
  BY DEF PostResponse, ReadResponse, callerVars, TypeOK
<1>2. ASSUME NEW m \in Messages, ReadResponse(m) PROVE HeldByEntry'
  <2>1. response' = response /\ fate[m] # "held"
        /\ \A n \in Messages \ {m} : fate'[n] = fate[n]
    BY <1>2 DEF ReadResponse, entryVars, TypeOK
  <2> QED
    BY <1>1, <2>1 DEF HeldByEntry
<1>3. CASE PostResponse
  <2>1. /\ reading \in Messages /\ target \in Callers /\ fate \in [Messages -> Fates]
        /\ response' = [response EXCEPT ![target] = reading]
        /\ fate' = [fate EXCEPT ![reading] = "held"]
    BY <1>3 DEF PostResponse, ReaderHolds, TypeOK
  <2>2. fate'[reading] = "held" /\ \A n \in Messages : fate[n] = "held" => fate'[n] = "held"
    BY <2>1
  <2>3. ASSUME NEW c \in Callers PROVE response'[c] = IF c = target THEN reading ELSE response[c]
    BY <2>1 DEF TypeOK
  <2> QED
    BY <1>1, <2>2, <2>3 DEF HeldByEntry
<1> QED
  BY <1>2, <1>3

LEMMA HeldStep == RequestIInv /\ FateIInv /\ HeldByEntry /\ [Next]_vars => HeldByEntry'
<1> SUFFICES ASSUME RequestIInv, FateIInv, HeldByEntry, [Next]_vars PROVE HeldByEntry'
  OBVIOUS
<1>1. CASE PostToDeadEntry \/ DestroyLists \/ DestroyFrees \/ UNCHANGED vars
  <2>1. UNCHANGED <<pc, response, fate>>
    BY <1>1 DEF PostToDeadEntry, DestroyLists, DestroyFrees, vars, callerVars, entryVars
  <2> QED
    BY <2>1 DEF HeldByEntry
<1> QED
  BY <1>1, HeldCaller, HeldReader DEF Next

\* The service sees a response move as the fate it has in Rpc moves.
LEMMA SeenMove ==
  ASSUME TypeOK, TypeOK', NEW m \in Messages,
         \A n \in Messages \ {m} : fate'[n] = fate[n]
  PROVE  InService' = [InService EXCEPT ![m] = InService'[m]]
<1>1. \A n \in Messages \ {m} : InService'[n] = InService[n]
  BY DEF InService
<1>2. InService = [n \in Messages |-> InService[n]] /\ InService' = [n \in Messages |-> InService'[n]]
  BY DEF InService
<1> QED
  BY <1>1, <1>2

\* Between its first and its last step, a call is in the service.
LEMMA SeenInCall ==
  ASSUME NEW c \in Callers, pc[c] # "idle", pc'[c] # "idle", seq' = seq,
         \A d \in Callers \ {c} : pc'[d] = pc[d] /\ ret'[d] = ret[d]
  PROVE  UNCHANGED <<InCall, Succeeded>>
<1>1. ASSUME NEW d \in Callers PROVE (pc'[d] # "idle") = (pc[d] # "idle")
  BY <1>1
<1>2. ASSUME NEW d \in Callers
      PROVE  (pc'[d] = "idle" /\ seq'[d] # 0 /\ ret'[d] = "OK")
               = (pc[d] = "idle" /\ seq[d] # 0 /\ ret[d] = "OK")
  BY <1>2
<1> QED
  BY <1>1, <1>2 DEF InCall, Succeeded

\* The request is listed under a new number: the call asks.
LEMMA ServiceAsk ==
  ASSUME RequestIInv, RequestIInv', NEW c \in Callers, SendRequest(c) \/ Retry(c)
  PROVE  Service!Ask(c)
<1> USE DEF RequestIInv
<1>1. /\ nextSeq <= MaxSeq /\ nextSeq' = nextSeq + 1 /\ fate' = fate
      /\ seq' = [seq EXCEPT ![c] = nextSeq]
      /\ pc' = [pc EXCEPT ![c] = "sending"]
      /\ ret' = [ret EXCEPT ![c] = "OK"]
  BY DEF SendRequest, Retry, Enqueue
<1>2. InCall[c] => result[c] = NoMessage
  BY DEF SendRequest, Retry, InCall, CallerOK, Outcome
<1>3. result' = [result EXCEPT ![c] = NoMessage]
  <2>1. CASE SendRequest(c)
    BY <2>1 DEF SendRequest
  <2>2. CASE Retry(c)
    BY <2>2 DEF Retry, CallerOK, Outcome, TypeOK
  <2> QED
    BY <2>1, <2>2
<1>4. \A d \in Callers : /\ pc'[d] = IF d = c THEN "sending" ELSE pc[d]
                         /\ seq'[d] = IF d = c THEN nextSeq ELSE seq[d]
                         /\ ret'[d] = IF d = c THEN "OK" ELSE ret[d]
  BY <1>1 DEF TypeOK
<1>5. InCall' = [InCall EXCEPT ![c] = TRUE]
  <2>1. ASSUME NEW d \in Callers
        PROVE  (pc'[d] # "idle") = IF d = c THEN TRUE ELSE pc[d] # "idle"
    BY <1>4
  <2> QED
    BY <2>1 DEF InCall
<1>6. Succeeded' = [Succeeded EXCEPT ![c] = FALSE]
  <2>1. ASSUME NEW d \in Callers
        PROVE  (pc'[d] = "idle" /\ seq'[d] # 0 /\ ret'[d] = "OK")
                 = IF d = c THEN FALSE ELSE pc[d] = "idle" /\ seq[d] # 0 /\ ret[d] = "OK"
    BY <1>4
  <2> QED
    BY <2>1 DEF Succeeded
<1>7. InService' = InService
  BY <1>1 DEF InService
<1> QED
  BY <1>1, <1>2, <1>3, <1>5, <1>6, <1>7 DEF Service!Ask

\* The request is written, once or, if sendmsg fails, up to twice: those each copy
\* reaches will answer, and had not been asked under this number.
LEMMA ServiceDeliver ==
  ASSUME RequestIInv, FateIInv, NEW c \in Callers, SendOk(c) \/ SendFails(c)
  PROVE  Service!Next \/ UNCHANGED Service!vars
<1> USE DEF RequestIInv
<1>1. PICK n \in 0 .. 2 : \E s \in [1 .. n -> SUBSET Responders] : fate' = Written(c, s)
  <2>1. CASE SendOk(c)
    <3>1. PICK s \in [1 .. 1 -> SUBSET Responders] : fate' = Written(c, s)
      BY <2>1 DEF SendOk
    <3> QED
      BY <3>1
  <2>2. CASE SendFails(c)
    <3>1. PICK e \in {"NO_CONNECTION", "FAIL"} :
            \E n \in 0 .. (IF e = "FAIL" THEN 2 ELSE 1) :
              \E s \in [1 .. n -> SUBSET Responders] : fate' = Written(c, s)
      BY <2>2 DEF SendFails
    <3>2. PICK n \in 0 .. (IF e = "FAIL" THEN 2 ELSE 1) :
            \E s \in [1 .. n -> SUBSET Responders] : fate' = Written(c, s)
      BY <3>1
    <3>3. n \in 0 .. 2
      BY <3>2
    <3> QED
      BY <3>2, <3>3
  <2> QED
    BY <2>1, <2>2
<1>2. PICK s \in [1 .. n -> SUBSET Responders] : fate' = Written(c, s)
  BY <1>1
<1> DEFINE to == [i \in 1 .. n |-> IF s[i] = {} THEN {Router} ELSE s[i]]
<1>3. to \in [1 .. n -> Service!Hearers] /\ DOMAIN to = 1 .. n /\ DOMAIN s = 1 .. n
  BY DEF Service!Hearers
<1>4. /\ pc[c] = "sending" /\ pc'[c] \in {"waiting", "dequeue"}
      /\ \A d \in Callers \ {c} : pc'[d] = pc[d] /\ ret'[d] = ret[d]
      /\ UNCHANGED <<seq, result, nextSeq>>
  BY DEF SendOk, SendFails, TypeOK
<1>5. UNCHANGED <<InCall, Succeeded>> /\ InCall[c]
  <2>1. UNCHANGED <<InCall, Succeeded>>
    BY <1>4, SeenInCall
  <2>2. InCall[c]
    BY <1>4 DEF InCall
  <2> QED
    BY <2>1, <2>2
<1>6. \A m \in Messages : m.seq = seq[c] => InService[m] = "none"
  BY <1>4 DEF FateIInv, FateOfUnsent, InService
<1>7. InService' = [m \in Messages |->
                      IF m.seq = seq[c] /\ m.copy \in DOMAIN to /\ m.from \in to[m.copy]
                      THEN "asked" ELSE InService[m]]
  <2>1. ASSUME NEW m \in Messages
        PROVE  fate'[m] = IF m.seq = seq[c] /\ m.copy \in DOMAIN to /\ m.from \in to[m.copy]
                          THEN "asked" ELSE fate[m]
    <3>1. CASE m.copy \in 1 .. n
      <4>1. to[m.copy] = IF s[m.copy] = {} THEN {Router} ELSE s[m.copy]
        BY <3>1
      <4> HIDE DEF to
      <4> QED
        BY <1>2, <1>3, <3>1, <4>1 DEF Written
    <3>2. CASE m.copy \notin 1 .. n
      BY <1>2, <1>3, <3>2 DEF Written
    <3> QED
      BY <3>1, <3>2
  <2> HIDE DEF to
  <2>2. ASSUME NEW m \in Messages,
               m.seq = seq[c] /\ m.copy \in DOMAIN to /\ m.from \in to[m.copy]
        PROVE  InService'[m] = "asked"
    BY <2>1, <2>2 DEF InService
  <2>3. ASSUME NEW m \in Messages,
               ~(m.seq = seq[c] /\ m.copy \in DOMAIN to /\ m.from \in to[m.copy])
        PROVE  InService'[m] = InService[m]
    BY <2>1, <2>3 DEF InService
  <2>4. InService' = [m \in Messages |-> InService'[m]]
    BY DEF InService
  <2> QED
    BY <2>2, <2>3, <2>4
<1>8. CASE n = 0
  <2>1. DOMAIN to = {}
    BY <1>3, <1>8
  <2>2. InService = [m \in Messages |-> InService[m]]
    BY DEF InService
  <2> HIDE DEF to
  <2>3. InService' = InService
    BY <1>7, <2>1, <2>2
  <2> QED
    BY <1>4, <1>5, <2>3 DEF Service!vars
<1>9. CASE n # 0
  <2> HIDE DEF to
  <2>1. Service!Deliver(c, to)
    BY <1>4, <1>5, <1>6, <1>7 DEF Service!Deliver, Service!Messages, Messages
  <2>2. n \in 1 .. 2
    BY <1>9
  <2> QED
    BY <1>3, <2>1, <2>2 DEF Service!Next
<1> QED
  BY <1>8, <1>9

\* A client's response is given to the call.  An empty entry and the word of the
\* router that there is no listener give it nothing.
LEMMA ServiceGive ==
  ASSUME RequestIInv, RequestIInv', FateIInv, HeldByEntry, NEW c \in Callers, Collect(c)
  PROVE  (\E m \in Messages : Service!Give(c, m)) \/ UNCHANGED Service!vars
<1> USE NoMessageAssumption DEF RequestIInv
<1> DEFINE m == response[c]
<1>1. /\ pc[c] = "posted" /\ pc' = [pc EXCEPT ![c] = "dequeue"]
      /\ UNCHANGED <<seq, nextSeq>> /\ Answered(c)
      /\ \A d \in Callers \ {c} : ret'[d] = ret[d]
  BY DEF Collect, Answered, TypeOK
<1>2. UNCHANGED <<InCall, Succeeded>> /\ InCall[c]
  <2>1. pc'[c] = "dequeue" /\ \A d \in Callers \ {c} : pc'[d] = pc[d]
    BY <1>1 DEF TypeOK
  <2>2. UNCHANGED <<InCall, Succeeded>>
    BY <1>1, <2>1, SeenInCall
  <2>3. InCall[c]
    BY <1>1 DEF InCall
  <2> QED
    BY <2>2, <2>3
<1>3. m # NoMessage => m \in Messages /\ m.seq = seq[c] /\ fate[m] = "held"
  BY <1>1 DEF TypeOK, CallerOK, EntryOfRequest, Listed, HeldByEntry
<1>4. result[c] = NoMessage
  BY <1>1 DEF CallerOK, Outcome
<1>5. CASE m = NoMessage
  <2>1. UNCHANGED <<fate, result>>
    BY <1>1, <1>5 DEF Answered
  <2> QED
    BY <1>1, <1>2, <2>1 DEF Service!vars, InService
<1>6. CASE m # NoMessage /\ Undeliverable(m)
  <2>1. fate' = [fate EXCEPT ![m] = "released"] /\ result' = result
    BY <1>1, <1>6 DEF Answered
  <2>2. fate'[m] = "released" /\ \A n \in Messages \ {m} : fate'[n] = fate[n]
    BY <1>3, <1>6, <2>1 DEF TypeOK
  <2>3. InService' = InService
    BY <1>3, <1>6, <2>2 DEF InService
  <2> QED
    BY <1>1, <1>2, <2>1, <2>3 DEF Service!vars
<1>7. CASE m # NoMessage /\ ~Undeliverable(m)
  <2>1. fate' = [fate EXCEPT ![m] = "returned"] /\ result' = [result EXCEPT ![c] = m]
    BY <1>1, <1>7 DEF Answered
  <2>2. fate'[m] = "returned" /\ \A n \in Messages \ {m} : fate'[n] = fate[n]
    BY <1>3, <1>7, <2>1 DEF TypeOK
  <2>3. InService' = [InService EXCEPT ![m] = InService'[m]]
    BY <1>3, <1>7, <2>2, SeenMove
  <2>4. InService[m] = "sent" /\ InService'[m] = "given"
    BY <1>3, <1>7, <2>2 DEF InService
  <2>5. m.from # Router
    BY <1>7 DEF Undeliverable
  <2>6. \A k \in Messages : k.seq = seq[c] /\ k.copy = 2 => InService[k] = "none"
    BY <1>1 DEF FateIInv, WrittenOnce, InService
  <2> HIDE DEF m
  <2>7. Service!Give(c, m)
    BY <1>1, <1>2, <1>3, <1>4, <1>7, <2>1, <2>3, <2>4, <2>5, <2>6
    DEF Service!Give, Service!Messages, Messages
  <2> QED
    BY <1>3, <1>7, <2>7
<1> QED
  BY <1>5, <1>6, <1>7

\* The last step of a call, whose result says whether it was given a response.
LEMMA ServiceReturn ==
  ASSUME RequestIInv, NEW c \in Callers, Dequeue(c) \/ ReconnectFails(c)
  PROVE  Service!Return(c) \/ UNCHANGED Service!vars
<1> USE DEF RequestIInv
<1>1. pc[c] \in {"dequeue", "reconnect"} /\ UNCHANGED <<seq, ret, result, nextSeq, fate>>
      /\ seq[c] # 0 /\ ((ret[c] = "OK") = (result[c] # NoMessage))
  BY DEF Dequeue, ReconnectFails, CallerOK, Outcome, Concluded
<1>2. InService' = InService
  BY <1>1 DEF InService
<1>3. \A d \in Callers \ {c} : pc'[d] = pc[d]
  BY DEF Dequeue, ReconnectFails, TypeOK
<1>4. CASE pc'[c] # "idle"
  BY <1>1, <1>2, <1>3, <1>4, SeenInCall DEF Service!vars
<1>5. CASE pc'[c] = "idle"
  <2>1. InCall' = [InCall EXCEPT ![c] = FALSE]
    <3>1. ASSUME NEW d \in Callers
          PROVE  (pc'[d] # "idle") = IF d = c THEN FALSE ELSE pc[d] # "idle"
      BY <1>3, <1>5
    <3> QED
      BY <3>1 DEF InCall
  <2>2. Succeeded' = [Succeeded EXCEPT ![c] = result[c] # NoMessage]
    <3>1. ASSUME NEW d \in Callers
          PROVE  (pc'[d] = "idle" /\ seq'[d] # 0 /\ ret'[d] = "OK")
                   = IF d = c THEN result[c] # NoMessage
                     ELSE pc[d] = "idle" /\ seq[d] # 0 /\ ret[d] = "OK"
      BY <1>1, <1>3, <1>5
    <3> QED
      BY <3>1 DEF Succeeded
  <2>3. InCall[c]
    BY <1>1 DEF InCall
  <2> QED
    BY <1>1, <1>2, <2>1, <2>2, <2>3 DEF Service!Return
<1> QED
  BY <1>4, <1>5

\* The other steps of a call are not seen.
LEMMA ServiceWaits ==
  ASSUME RequestIInv, NEW c \in Callers, WaitReturns(c) \/ WaitTimesOut(c)
  PROVE  UNCHANGED Service!vars
<1>1. UNCHANGED <<seq, result, nextSeq, fate>> /\ pc[c] # "idle" /\ pc'[c] # "idle"
      /\ \A d \in Callers \ {c} : pc'[d] = pc[d] /\ ret'[d] = ret[d]
  BY DEF WaitReturns, WaitTimesOut, RequestIInv, TypeOK
<1>2. InService' = InService
  BY <1>1 DEF InService
<1> QED
  BY <1>1, <1>2, SeenInCall DEF Service!vars

\* A response read has been sent; the service sees no more of its way to an entry.
LEMMA ServiceReads ==
  ASSUME RequestIInv, RequestIInv', NEW m \in Messages, ReadResponse(m)
  PROVE  Service!Answer(m)
<1>1. /\ fate[m] = "asked" /\ fate'[m] \in {"reader", "released"}
      /\ \A n \in Messages \ {m} : fate'[n] = fate[n]
      /\ UNCHANGED <<pc, seq, ret, result, nextSeq>>
  BY DEF ReadResponse, callerVars, RequestIInv, TypeOK
<1>2. InService' = [InService EXCEPT ![m] = InService'[m]]
  BY <1>1, SeenMove DEF RequestIInv
<1>3. InService[m] = "asked" /\ InService'[m] = "sent"
  BY <1>1 DEF InService
<1>4. UNCHANGED <<InCall, Succeeded>>
  BY <1>1 DEF InCall, Succeeded
<1> QED
  BY <1>1, <1>2, <1>3, <1>4 DEF Service!Answer

LEMMA ServicePosts ==
  ASSUME RequestIInv, FateIInv, PostResponse
  PROVE  UNCHANGED Service!vars
<1> USE NoMessageAssumption DEF RequestIInv, FateIInv
<1>1. UNCHANGED <<pc, seq, ret, result, nextSeq>>
  BY DEF PostResponse, callerVars
<1>2. reading \in Messages /\ fate[reading] = "reader" /\ fate' = [fate EXCEPT ![reading] = "held"]
  BY DEF PostResponse, FateOfRead, TypeOK
<1>3. fate'[reading] = "held" /\ \A n \in Messages \ {reading} : fate'[n] = fate[n]
  BY <1>2 DEF TypeOK
<1>4. InService' = InService
  BY <1>2, <1>3 DEF InService
<1>5. UNCHANGED <<InCall, Succeeded>>
  BY <1>1 DEF InCall, Succeeded
<1> QED
  BY <1>1, <1>4, <1>5 DEF Service!vars

LEMMA ServiceStep ==
  RequestIInv /\ RequestIInv' /\ FateIInv /\ HeldByEntry /\ [Next]_vars
    => [Service!Next]_(Service!vars)
<1> SUFFICES ASSUME RequestIInv, RequestIInv', FateIInv, HeldByEntry, [Next]_vars
             PROVE  Service!Next \/ UNCHANGED Service!vars
  OBVIOUS
<1>1. ASSUME NEW c \in Callers, SendRequest(c) \/ Retry(c) PROVE Service!Next
  BY <1>1, ServiceAsk DEF Service!Next
<1>2. ASSUME NEW c \in Callers, SendOk(c) \/ SendFails(c)
      PROVE  Service!Next \/ UNCHANGED Service!vars
  BY <1>2, ServiceDeliver
<1>3. ASSUME NEW m \in Messages, ReadResponse(m) PROVE Service!Next
  BY <1>3, ServiceReads DEF Service!Next, Service!Messages, Messages
<1>4. ASSUME NEW c \in Callers, Collect(c) PROVE Service!Next \/ UNCHANGED Service!vars
  BY <1>4, ServiceGive DEF Service!Next, Service!Messages, Messages
<1>5. ASSUME NEW c \in Callers, Dequeue(c) \/ ReconnectFails(c)
      PROVE  Service!Next \/ UNCHANGED Service!vars
  BY <1>5, ServiceReturn DEF Service!Next
<1>6. CASE PostToDeadEntry \/ DestroyLists \/ DestroyFrees \/ UNCHANGED vars
  <2>1. UNCHANGED <<pc, seq, ret, result, nextSeq, fate>>
    BY <1>6 DEF PostToDeadEntry, DestroyLists, DestroyFrees, vars, callerVars
  <2> QED
    BY <2>1 DEF Service!vars, InCall, Succeeded, InService
<1> QED
  BY <1>1, <1>2, <1>3, <1>4, <1>5, <1>6, ServiceWaits, ServicePosts DEF Next

(* rtConnection_SendRequest implements Rpc: whatever is lost, late or      *)
(* retried, and also where a failing sendmsg leaves two copies of the      *)
(* request on their way, a call is given at most one response, that of a   *)
(* client to the number the call asked under last and wrote once, no       *)
(* response is given to two calls, and RT_OK is returned exactly with one. *)
THEOREM RequestsImplementRpc == Spec => ImplementsRpc
<1>1. Init => Service!Init
  <2> SUFFICES ASSUME Init PROVE Service!Init
    OBVIOUS
  <2>1. InCall = [c \in Callers |-> FALSE] /\ Succeeded = [c \in Callers |-> FALSE]
    BY DEF Init, InCall, Succeeded
  <2>2. InService = [m \in Messages |-> "none"]
    BY DEF Init, InService
  <2> QED
    BY <2>1, <2>2 DEF Init, Service!Init, Service!Messages, Messages
<1>2. Init => HeldByEntry
  BY DEF Init, HeldByEntry
<1>3. Spec => [](RequestIInv /\ FateIInv /\ HeldByEntry)
  BY RequestInvariant, FateInit, FateStep, <1>2, HeldStep, PTL DEF Spec
<1> QED
  BY <1>1, <1>3, ServiceStep, PTL DEF Spec, ImplementsRpc, Service!Spec

=============================================================================
