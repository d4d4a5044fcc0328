--------------------------- MODULE Framing_proofs ---------------------------
(***************************************************************************)
(* Proofs about Framing, for every length of headers, every set of payload *)
(* lengths and every buffer size that holds two headers: recv never writes *)
(* past the router's read buffer, a buffer that was grown is given back,   *)
(* and messages stay whole and in order.  The first inductive invariant    *)
(* says what the reader of the router asks for in each of its states; the  *)
(* second adds that what is read and what is on its way are, one after the *)
(* other, bytes of whole messages, each followed by a later one, and how   *)
(* much of the first message has been read.                                *)
(***************************************************************************)
EXTENDS Framing, SequenceTheorems, TLAPS

\* Bytes of the messages that were sent.
SentBytes == (1 .. Len(sent)) \X Nat

StreamOK ==
  /\ sent \in Seq(Payloads)
  /\ attempt \in Nat /\ (attempt > 0 => Len(sent) > 0)
  /\ up \in Seq(SentBytes) /\ buffer \in Seq(SentBytes)

Sizes ==
  /\ state \in {"preamble", "header", "payload", "drop"}
  /\ bytes_to_read \in Nat /\ capacity \in Nat

\* What is asked for, and where it goes.
Asks ==
  /\ state = "preamble" => bytes_to_read = Preamble
  /\ state = "header" => bytes_to_read = Header
  /\ state # "payload" => capacity = BufferSize
  /\ state # "drop" => Len(buffer) <= bytes_to_read /\ bytes_to_read <= capacity
  /\ state = "drop" => buffer = <<>>

FramingIInv == StreamOK /\ Sizes /\ Asks

readerVars == <<state, buffer, bytes_to_read, capacity>>

-----------------------------------------------------------------------------
\* A prefix and the rest of a sequence.
LEMMA Cut ==
  ASSUME NEW S, NEW s \in Seq(S), NEW n \in 1 .. Len(s)
  PROVE  /\ SubSeq(s, 1, n) \in Seq(S) /\ Len(SubSeq(s, 1, n)) = n
         /\ SubSeq(s, n + 1, Len(s)) \in Seq(S)
<1>1. n \in Nat /\ Len(s) \in Nat
  OBVIOUS
<1>2. SubSeq(s, 1, n) \in Seq(S) /\ Len(SubSeq(s, 1, n)) = n
  BY SubSeqProperties, <1>1
<1>3. SubSeq(s, n + 1, Len(s)) \in Seq(S)
  BY SubSeqProperties, <1>1
<1> QED
  BY <1>2, <1>3

\* The payload length in the header of a message that was sent.
LEMMA Decoded ==
  ASSUME StreamOK, NEW bytes \in Seq(SentBytes), Len(bytes) > 0
  PROVE  DecodePayload(bytes) \in Nat
<1>1. bytes[1] \in (1 .. Len(sent)) \X Nat
  BY DEF SentBytes
<1>2. bytes[1][1] \in 1 .. Len(sent)
  BY <1>1
<1>3. sent[bytes[1][1]] \in Payloads
  BY <1>2 DEF StreamOK
<1> QED
  BY <1>3, FramingAssumption DEF DecodePayload

\* A message of a sender is a sequence of its bytes.
LEMMA MessageBytes ==
  ASSUME StreamOK, Len(sent) > 0
  PROVE  Message(Len(sent)) \in Seq(SentBytes)
<1> DEFINE n == Len(sent)
<1>0. n \in 1 .. Len(sent)
  BY DEF StreamOK
<1>1. sent[Len(sent)] \in Nat /\ Len(sent) \in 1 .. Len(sent)
  <2> HIDE DEF n
  <2>1. sent[n] \in Payloads
    BY <1>0 DEF StreamOK
  <2>2. n = Len(sent)
    BY DEF n
  <2> QED
    BY <1>0, <2>1, <2>2, FramingAssumption
<1>2. Header + sent[Len(sent)] \in Nat
  BY <1>1, FramingAssumption
<1>3. \A k \in 1 .. Header + sent[Len(sent)] : <<Len(sent), k>> \in SentBytes
  BY <1>1, <1>2 DEF SentBytes
<1> QED
  BY <1>2, <1>3, IsASeq DEF Message

-----------------------------------------------------------------------------
LEMMA FramingInit == Init => FramingIInv
<1> SUFFICES ASSUME Init PROVE FramingIInv
  OBVIOUS
<1>1. Preamble \in Nat /\ Preamble <= BufferSize
  BY FramingAssumption
<1> QED
  BY <1>1, FramingAssumption DEF Init, FramingIInv, StreamOK, Sizes, Asks

\* The sender's steps change only the stream.
LEMMA SenderStep ==
  ASSUME FramingIInv,
         (\E n \in Payloads : Send(n)) \/ SendMsg \/ SendMsgFails \/ ShortWrite
  PROVE  FramingIInv'
<1> USE DEF FramingIInv
<1>1. UNCHANGED readerVars
  BY DEF Send, SendMsg, SendMsgFails, ShortWrite, router, readerVars
<1>2. Sizes' /\ Asks'
  BY <1>1 DEF Sizes, Asks, readerVars
<1>3. ASSUME NEW n \in Payloads, Send(n) PROVE StreamOK'
  <2>1. sent' \in Seq(Payloads) /\ Len(sent') = Len(sent) + 1
    BY <1>3 DEF Send, StreamOK
  <2>2. SentBytes \subseteq SentBytes'
    BY <2>1 DEF SentBytes, StreamOK
  <2>3. up' \in Seq(SentBytes') /\ buffer' \in Seq(SentBytes')
    <3>1. up' = up /\ buffer' = buffer
      BY <1>3 DEF Send, router
    <3> QED
      BY <3>1, <2>2, SeqDef DEF StreamOK
  <2> QED
    BY <1>3, <2>1, <2>3 DEF Send, StreamOK
<1>4. ASSUME SendMsg \/ SendMsgFails \/ ShortWrite PROVE StreamOK'
  <2>1. sent' = sent /\ attempt > 0 /\ attempt' \in Nat /\ buffer' = buffer
    BY <1>4 DEF SendMsg, SendMsgFails, ShortWrite, Attempted, StreamOK, router
  <2>2. up' = up \/ up' = up \o Message(Len(sent))
    BY <1>4 DEF SendMsg, SendMsgFails, ShortWrite
  <2>3. Message(Len(sent)) \in Seq(SentBytes)
    BY <2>1, MessageBytes DEF StreamOK
  <2>4. up' \in Seq(SentBytes)
    BY <2>2, <2>3, ConcatProperties DEF StreamOK
  <2> QED
    BY <2>1, <2>4 DEF StreamOK, SentBytes
<1> QED
  BY <1>2, <1>3, <1>4

\* The router takes bytes off the stream, and asks for the next part of a message
\* only when there is room for it.
LEMMA RouterStep ==
  ASSUME FramingIInv, RouterRead
  PROVE  FramingIInv'
<1> USE DEF FramingIInv
<1>1. PICK n \in 1 .. Smaller(Len(up), bytes_to_read - Len(buffer)) :
        LET bytes == buffer \o SubSeq(up, 1, n)
        IN  /\ up' = SubSeq(up, n + 1, Len(up))
            /\ IF Len(bytes) < bytes_to_read THEN Partial(bytes)
               ELSE \/ state = "preamble" /\ PreambleRead(bytes)
                    \/ state = "header" /\ HeaderRead(bytes)
                    \/ state = "payload" /\ PayloadRead(bytes)
  BY DEF RouterRead
<1> DEFINE bytes == buffer \o SubSeq(up, 1, n)
<1>2. /\ n \in 1 .. Len(up) /\ n <= bytes_to_read - Len(buffer)
      /\ Len(up) \in Nat /\ Len(buffer) \in Nat
  BY DEF Smaller, StreamOK, Sizes
<1>3. sent' = sent /\ attempt' = attempt /\ state # "drop"
  BY DEF RouterRead, sender
<1>4. SubSeq(up, 1, n) \in Seq(SentBytes) /\ Len(SubSeq(up, 1, n)) = n
      /\ up' \in Seq(SentBytes)
  BY <1>1, <1>2, Cut DEF StreamOK
<1>5. bytes \in Seq(SentBytes) /\ Len(bytes) = Len(buffer) + n
  BY <1>2, <1>4, ConcatProperties DEF StreamOK
<1>6. Len(bytes) > 0 /\ Len(bytes) <= bytes_to_read
  BY <1>2, <1>5 DEF Sizes
<1>7. SentBytes' = SentBytes
  BY <1>3 DEF SentBytes
<1>8. CASE Len(bytes) < bytes_to_read
  <2>1. buffer' = bytes /\ UNCHANGED <<state, bytes_to_read, capacity>>
    BY <1>1, <1>8 DEF Partial
  <2> HIDE DEF bytes
  <2> QED
    BY <2>1, <1>3, <1>4, <1>5, <1>6, <1>7 DEF StreamOK, Sizes, Asks
<1>9. CASE Len(bytes) = bytes_to_read
  <2>1. \/ state = "preamble" /\ PreambleRead(bytes)
        \/ state = "header" /\ HeaderRead(bytes)
        \/ state = "payload" /\ PayloadRead(bytes)
    BY <1>1, <1>9 DEF Sizes
  <2> HIDE DEF bytes
  <2>2. CASE Reset /\ capacity' = BufferSize
    <3>1. buffer' = <<>> /\ state' = "preamble" /\ bytes_to_read' = Preamble
      BY <2>2 DEF Reset
    <3> QED
      BY <3>1, <2>2, <1>3, <1>4, <1>7, FramingAssumption DEF StreamOK, Sizes, Asks
  <2>3. CASE state = "preamble" /\ PreambleRead(bytes) /\ Starts(bytes, Preamble)
    <3>1. state' = "header" /\ bytes_to_read' = Header /\ buffer' = bytes
          /\ capacity' = capacity
      BY <2>3 DEF PreambleRead, DecodeLength
    <3>2. bytes_to_read = Preamble /\ capacity = BufferSize
      BY <2>3 DEF Asks
    <3> QED
      BY <3>1, <3>2, <1>3, <1>4, <1>5, <1>6, <1>7, FramingAssumption
      DEF StreamOK, Sizes, Asks
  <2>4. CASE state = "header" /\ HeaderRead(bytes) /\ Starts(bytes, Header)
    <3> DEFINE d == DecodePayload(bytes)
    <3>1. d \in Nat
      BY <1>5, <1>6, Decoded
    <3>2. bytes_to_read = Header /\ capacity = BufferSize
      BY <2>4 DEF Asks
    <3> HIDE DEF d
    <3>3. CASE /\ state' = "payload" /\ bytes_to_read' = Header + d
               /\ buffer' = bytes /\ Grow(Header + d, Header)
      <4>1. capacity' \in Nat /\ Header + d <= capacity'
        BY <3>3, <3>1, <3>2, FramingAssumption DEF Grow, Sizes
      <4> QED
        BY <4>1, <3>1, <3>2, <3>3, <1>3, <1>4, <1>5, <1>6, <1>7, FramingAssumption
        DEF StreamOK, Sizes, Asks
    <3>4. CASE /\ state' = "drop" /\ bytes_to_read' = d /\ buffer' = <<>>
               /\ capacity' = capacity
      BY <3>1, <3>2, <3>4, <1>3, <1>4, <1>7, FramingAssumption DEF StreamOK, Sizes, Asks
    <3> QED
      BY <2>4, <3>3, <3>4 DEF HeaderRead, d
  <2> QED
    BY <2>1, <2>2, <2>3, <2>4 DEF PreambleRead, HeaderRead, PayloadRead, Asks
<1> QED
  BY <1>5, <1>6, <1>8, <1>9 DEF Sizes

\* Dropping what there was no memory for.
LEMMA DropStep ==
  ASSUME FramingIInv, ReadAndDrop
  PROVE  FramingIInv'
<1> USE DEF FramingIInv
<1>1. sent' = sent /\ attempt' = attempt /\ capacity' = capacity /\ state = "drop"
  BY DEF ReadAndDrop, sender
<1>2. SentBytes' = SentBytes
  BY <1>1 DEF SentBytes
<1>3. CASE Reset /\ UNCHANGED up
  BY <1>1, <1>2, <1>3, FramingAssumption DEF Reset, StreamOK, Sizes, Asks
<1>4. ASSUME NEW n \in 1 .. Smaller(Len(up), bytes_to_read),
             up' = SubSeq(up, n + 1, Len(up)),
             bytes_to_read' = bytes_to_read - n,
             UNCHANGED <<state, buffer>>
      PROVE  FramingIInv'
  <2>1. n \in 1 .. Len(up) /\ bytes_to_read' \in Nat
    BY <1>4 DEF Smaller, StreamOK, Sizes
  <2>2. up' \in Seq(SentBytes)
    BY <1>4, <2>1, Cut DEF StreamOK
  <2> QED
    BY <1>1, <1>2, <1>4, <2>1, <2>2 DEF StreamOK, Sizes, Asks
<1> QED
  BY <1>3, <1>4 DEF ReadAndDrop

LEMMA FramingStep == FramingIInv /\ [Next]_vars => FramingIInv'
<1> SUFFICES ASSUME FramingIInv, [Next]_vars PROVE FramingIInv'
  OBVIOUS
<1>1. CASE (\E n \in Payloads : Send(n)) \/ SendMsg \/ SendMsgFails \/ ShortWrite
  BY <1>1, SenderStep
<1>2. CASE RouterRead
  BY <1>2, RouterStep
<1>3. CASE ReadAndDrop
  BY <1>3, DropStep
<1>4. CASE ReadNothing \/ Receive \/ UNCHANGED vars
  <2>1. UNCHANGED <<sent, attempt, up, state, buffer, bytes_to_read, capacity>>
    BY <1>4 DEF ReadNothing, Receive, vars, sender, router
  <2> QED
    BY <2>1 DEF FramingIInv, StreamOK, Sizes, Asks, SentBytes
<1>5. ASSUME NEW noticed \in BOOLEAN, Reconnect(noticed) PROVE FramingIInv'
  <2>1. /\ sent' = sent /\ attempt' = attempt /\ up' = <<>> /\ buffer' = <<>>
        /\ state' = "preamble" /\ bytes_to_read' = Preamble /\ capacity' = BufferSize
    BY <1>5 DEF Reconnect, Reset, sender
  <2> QED
    BY <2>1, FramingAssumption DEF FramingIInv, StreamOK, Sizes, Asks
<1> QED
  BY <1>1, <1>2, <1>3, <1>4, <1>5 DEF Next

LEMMA FramingInvariant == Spec => []FramingIInv
  BY FramingInit, FramingStep, PTL DEF Spec

-----------------------------------------------------------------------------
(* rtConnectedClient_Read never has recv write past read_buffer: what it   *)
(* asks for fits, in every state and for every payload length; and between *)
(* two messages the buffer has its normal size again, whether the last one *)
(* was forwarded, dropped, or torn off by a reconnect.                     *)
THEOREM ReadStaysInBuffer == Spec => []BufferFits
<1>1. FramingIInv => BufferFits
  <2> SUFFICES ASSUME FramingIInv PROVE BufferFits
    OBVIOUS
  <2>1. Len(buffer) <= capacity /\ (state # "drop" => bytes_to_read <= capacity)
    <3>1. Len(<<>>) = 0
      OBVIOUS
    <3> QED
      BY <3>1, FramingAssumption DEF FramingIInv, StreamOK, Sizes, Asks
  <2>2. state \in {"preamble", "header"} => capacity = BufferSize
    BY DEF FramingIInv, Asks
  <2> QED
    BY <2>1, <2>2 DEF BufferFits
<1> QED
  BY <1>1, FramingInvariant, PTL

-----------------------------------------------------------------------------
(* The streams.                                                            *)

Size(i) == Header + sent[i]

\* Message j may come after message i.
After(i, j) == i < j \/ (i = j /\ i \in failed)
Later(A, B) == \A i \in A, j \in B : After(i, j)

\* A byte is followed by the rest of its message, and that by the start of another.
Stream(s) ==
  /\ s \in Seq(SentBytes)
  /\ \A j \in 1 .. Len(s) : s[j][2] \in 1 .. Size(s[j][1])
  /\ \A j \in 1 .. Len(s) : \A m \in 0 .. Size(s[j][1]) - s[j][2] :
       j + m <= Len(s) /\ s[j + m] = <<s[j][1], s[j][2] + m>>
  /\ \A j \in 1 .. Len(s) - 1 : s[j][2] = Size(s[j][1]) => s[j + 1][2] = 1
  /\ \A j, k \in 1 .. Len(s) : j < k =>
       After(s[j][1], s[k][1]) \/ (s[j][1] = s[k][1] /\ s[j][2] < s[k][2])

FromStart(s) == s # <<>> => s[1][2] = 1
Numbers(s) == {s[j][1] : j \in 1 .. Len(s)}

upStream == buffer \o up
downStream == got \o down

\* How much of a message has been read.
ReadSoFar ==
  /\ state # "drop" => FromStart(upStream)
  /\ state = "payload" => buffer # <<>> /\ bytes_to_read = Size(buffer[1][1])
  /\ state = "drop" /\ bytes_to_read = 0 => FromStart(up)
  /\ state = "drop" /\ bytes_to_read > 0 =>
       up # <<>> /\ up[1][2] + bytes_to_read = Size(up[1][1]) + 1
  /\ FromStart(downStream)
  /\ place = "payload" => got # <<>>
  /\ Len(got) <= Wanted

\* What was sent earlier is further on its way; the message being sent is the last.
Done == Range(dispatched) \cup Range(received)
Flow ==
  /\ Stream(upStream) /\ Stream(downStream)
  /\ Later(Done \cup Numbers(downStream), Numbers(upStream))
  /\ Later(Range(received), Numbers(downStream))
  /\ attempt > 0 =>
       /\ Later(Done \cup Numbers(downStream) \cup Numbers(upStream), {Len(sent)})
       /\ err # "OK" => Len(sent) \in failed

Kept ==
  /\ link \in {"up", "closed", "torn"} /\ Len(sent) <= MaxSent
  /\ attempt \in 0 .. 3 /\ err \in {"OK", "errno", "FAIL"}
  /\ down \in Seq(SentBytes) /\ got \in Seq(SentBytes)
  /\ place \in {"preamble", "header", "payload"}
  /\ dispatched \in Seq(1 .. Len(sent)) /\ received \in Seq(1 .. Len(sent))
  /\ failed \cup dropped \cup lost \subseteq 1 .. Len(sent)

WholeIInv ==
  /\ FramingIInv
  /\ Kept
  /\ InOrder(dispatched) /\ InOrder(received)
  /\ link # "torn" => ReadSoFar /\ Flow

-----------------------------------------------------------------------------
(* Lemmas about streams.                                                   *)

\* Every message has a size that its header tells, and bytes of its own.
LEMMA Sized ==
  ASSUME sent \in Seq(Payloads), NEW i \in 1 .. Len(sent)
  PROVE  /\ Size(i) \in Nat /\ Header <= Size(i) /\ Header \in Nat /\ Preamble \in 1 .. Header - 1
         /\ Message(i) \in Seq(SentBytes) /\ Len(Message(i)) = Size(i)
         /\ \A k \in 1 .. Size(i) : Message(i)[k] = <<i, k>>
<1>1. sent[i] \in Nat
  <2>1. sent[i] \in Payloads
    OBVIOUS
  <2> QED
    BY <2>1, FramingAssumption
<1>2. Size(i) \in Nat /\ Header <= Size(i) /\ Header \in Nat /\ Preamble \in 1 .. Header - 1
  BY <1>1, FramingAssumption DEF Size
<1>3. Message(i) = [k \in 1 .. Size(i) |-> <<i, k>>]
  BY DEF Message, Size
<1>4. \A k \in 1 .. Size(i) : <<i, k>> \in SentBytes
  BY <1>2 DEF SentBytes
<1>5. Message(i) \in Seq(SentBytes)
  BY <1>2, <1>3, <1>4, IsASeq
<1>6. Len(Message(i)) = Size(i)
  BY <1>2, <1>3, <1>5, LenProperties
<1> QED
  BY <1>2, <1>3, <1>5, <1>6

\* The elements of a beginning and of the rest of a sequence.
LEMMA CutAt ==
  ASSUME NEW S, NEW s \in Seq(S), NEW n \in 0 .. Len(s)
  PROVE  /\ SubSeq(s, 1, n) \in Seq(S) /\ Len(SubSeq(s, 1, n)) = n
         /\ \A k \in 1 .. n : SubSeq(s, 1, n)[k] = s[k]
         /\ SubSeq(s, n + 1, Len(s)) \in Seq(S) /\ Len(SubSeq(s, n + 1, Len(s))) = Len(s) - n
         /\ \A k \in 1 .. Len(s) - n : SubSeq(s, n + 1, Len(s))[k] = s[n + k]
<1>1. n \in Nat /\ Len(s) \in Nat
  OBVIOUS
<1>2. /\ SubSeq(s, 1, n) \in Seq(S) /\ Len(SubSeq(s, 1, n)) = n
      /\ \A k \in 1 .. n : SubSeq(s, 1, n)[k] = s[k]
  BY SubSeqProperties, <1>1
<1>3. /\ SubSeq(s, n + 1, Len(s)) \in Seq(S) /\ Len(SubSeq(s, n + 1, Len(s))) = Len(s) - n
      /\ \A k \in 1 .. Len(s) - n : SubSeq(s, n + 1, Len(s))[k] = s[n + k]
  BY SubSeqProperties, <1>1
<1> QED
  BY <1>2, <1>3

\* What recv took off one end comes to the other.
LEMMA Moved ==
  ASSUME NEW S, NEW s \in Seq(S), NEW t \in Seq(S), NEW n \in 0 .. Len(t)
  PROVE  /\ (s \o SubSeq(t, 1, n)) \o SubSeq(t, n + 1, Len(t)) = s \o t
         /\ s \o SubSeq(t, 1, n) = SubSeq(s \o t, 1, Len(s) + n)
         /\ SubSeq(t, n + 1, Len(t)) = SubSeq(s \o t, Len(s) + n + 1, Len(s \o t))
<1> DEFINE a == SubSeq(t, 1, n)
           b == SubSeq(t, n + 1, Len(t))
<1>0. Len(s) \in Nat /\ Len(t) \in Nat /\ n \in Nat /\ n <= Len(t)
  OBVIOUS
<1>1. /\ a \in Seq(S) /\ Len(a) = n /\ \A k \in 1 .. n : a[k] = t[k]
      /\ b \in Seq(S) /\ Len(b) = Len(t) - n /\ \A k \in 1 .. Len(t) - n : b[k] = t[n + k]
  <2>1. /\ SubSeq(t, 1, n) \in Seq(S) /\ Len(SubSeq(t, 1, n)) = n
        /\ \A k \in 1 .. n : SubSeq(t, 1, n)[k] = t[k]
    BY CutAt
  <2>2. /\ SubSeq(t, n + 1, Len(t)) \in Seq(S) /\ Len(SubSeq(t, n + 1, Len(t))) = Len(t) - n
        /\ \A k \in 1 .. Len(t) - n : SubSeq(t, n + 1, Len(t))[k] = t[n + k]
    BY CutAt
  <2> QED
    BY <2>1, <2>2
<1>2. a \o b = t
  <2>1. 1 \in 1 .. Len(t) + 1 /\ n \in 1 - 1 .. Len(t) /\ Len(t) \in n .. Len(t)
    BY <1>0
  <2>2. SubSeq(t, 1, n) \o SubSeq(t, n + 1, Len(t)) = SubSeq(t, 1, Len(t))
    BY <2>1, ConcatAdjacentSubSeq
  <2> QED
    BY <2>2, SubSeqFull
<1> HIDE DEF a, b
<1>3. (s \o a) \o b = s \o t
  <2>0. a \in Seq(S) /\ b \in Seq(S)
    BY <1>1
  <2>1. (s \o a) \o b = s \o (a \o b)
    BY <2>0, ConcatAssociative
  <2> QED
    BY <1>2, <2>1
<1>4. /\ s \o t \in Seq(S) /\ Len(s \o t) = Len(s) + Len(t)
      /\ \A k \in 1 .. Len(s) + Len(t) :
           (s \o t)[k] = IF k <= Len(s) THEN s[k] ELSE t[k - Len(s)]
  BY ConcatProperties
<1>5. /\ s \o a \in Seq(S) /\ Len(s \o a) = Len(s) + n
      /\ \A k \in 1 .. Len(s) + n :
           (s \o a)[k] = IF k <= Len(s) THEN s[k] ELSE a[k - Len(s)]
  BY <1>1, ConcatProperties
<1>6. Len(s) + n \in 0 .. Len(s \o t)
  BY <1>0, <1>4
<1>7. /\ SubSeq(s \o t, 1, Len(s) + n) \in Seq(S) /\ Len(SubSeq(s \o t, 1, Len(s) + n)) = Len(s) + n
      /\ \A k \in 1 .. Len(s) + n : SubSeq(s \o t, 1, Len(s) + n)[k] = (s \o t)[k]
  BY <1>4, <1>6, CutAt
<1>8. s \o a = SubSeq(s \o t, 1, Len(s) + n)
  <2>1. \A k \in 1 .. Len(s) + n : (s \o a)[k] = (s \o t)[k]
    BY <1>0, <1>1, <1>4, <1>5
  <2> QED
    BY <1>5, <1>7, <2>1, SeqEqual
<1>9. b = SubSeq(s \o t, Len(s) + n + 1, Len(s \o t))
  <2> DEFINE r == SubSeq(s \o t, (Len(s) + n) + 1, Len(s \o t))
  <2>1. /\ r \in Seq(S) /\ Len(r) = Len(s \o t) - (Len(s) + n)
        /\ \A k \in 1 .. Len(s \o t) - (Len(s) + n) : r[k] = (s \o t)[Len(s) + n + k]
    BY <1>4, <1>6, CutAt
  <2> HIDE DEF r
  <2>2. \A k \in 1 .. Len(t) - n : b[k] = r[k]
    <3> TAKE k \in 1 .. Len(t) - n
    <3>1. Len(s) + n + k \in 1 .. Len(s) + Len(t) /\ ~(Len(s) + n + k <= Len(s))
          /\ Len(s) + n + k - Len(s) = n + k
      BY <1>0
    <3>2. k \in 1 .. Len(s \o t) - (Len(s) + n)
      BY <1>0, <1>4
    <3>3. r[k] = (s \o t)[Len(s) + n + k]
      BY <2>1, <3>2
    <3>4. (s \o t)[Len(s) + n + k] = t[n + k]
      BY <1>4, <3>1
    <3> QED
      BY <1>1, <3>3, <3>4
  <2>3. b = r
    BY <1>0, <1>1, <1>4, <2>1, <2>2, SeqEqual
  <2> QED
    BY <2>3 DEF r
<1> QED
  BY <1>3, <1>8, <1>9 DEF a, b

\* The rest of a stream.
LEMMA StreamRest ==
  ASSUME NEW s, Stream(s), NEW n \in 0 .. Len(s)
  PROVE  /\ Stream(SubSeq(s, n + 1, Len(s)))
         /\ Numbers(SubSeq(s, n + 1, Len(s))) \subseteq Numbers(s)
<1> DEFINE r == SubSeq(s, n + 1, Len(s))
<1>1. s \in Seq(SentBytes) /\ Len(s) \in Nat /\ n \in Nat /\ n <= Len(s)
  BY DEF Stream
<1>2. r \in Seq(SentBytes) /\ Len(r) = Len(s) - n /\ \A k \in 1 .. Len(s) - n : r[k] = s[n + k]
  BY <1>1, CutAt
<1> HIDE DEF r
<1>3. \A k \in 1 .. Len(r) : n + k \in 1 .. Len(s) /\ r[k] = s[n + k]
  BY <1>1, <1>2
<1>4. Numbers(r) \subseteq Numbers(s)
  BY <1>3 DEF Numbers
<1>5. \A j \in 1 .. Len(r) : r[j][2] \in 1 .. Size(r[j][1])
  BY <1>3 DEF Stream
<1>6. ASSUME NEW j \in 1 .. Len(r), NEW m \in 0 .. Size(r[j][1]) - r[j][2]
      PROVE  j + m <= Len(r) /\ r[j + m] = <<r[j][1], r[j][2] + m>>
  <2>1. (n + j) + m <= Len(s) /\ s[(n + j) + m] = <<r[j][1], r[j][2] + m>>
    BY <1>3 DEF Stream
  <2>2. m \in Int /\ m >= 0
    BY <1>6
  <2>3. j + m \in 1 .. Len(r) /\ (n + j) + m = n + (j + m)
    BY <1>1, <1>2, <2>1, <2>2
  <2>4. r[j + m] = s[n + (j + m)]
    BY <1>3, <2>3
  <2> QED
    BY <2>1, <2>3, <2>4
<1>7. ASSUME NEW j \in 1 .. Len(r) - 1, r[j][2] = Size(r[j][1])
      PROVE  r[j + 1][2] = 1
  <2>1. j \in 1 .. Len(r) /\ j + 1 \in 1 .. Len(r) /\ n + j \in 1 .. Len(s) - 1
        /\ (n + j) + 1 = n + (j + 1)
    BY <1>1, <1>2
  <2>2. s[(n + j) + 1][2] = 1
    BY <1>3, <1>7, <2>1 DEF Stream
  <2> QED
    BY <1>3, <2>1, <2>2
<1>8. ASSUME NEW j \in 1 .. Len(r), NEW k \in 1 .. Len(r), j < k
      PROVE  After(r[j][1], r[k][1]) \/ (r[j][1] = r[k][1] /\ r[j][2] < r[k][2])
  <2> DEFINE x == n + j
             y == n + k
  <2>1. x < y /\ x \in 1 .. Len(s) /\ y \in 1 .. Len(s) /\ r[j] = s[x] /\ r[k] = s[y]
    BY <1>1, <1>2, <1>3, <1>8
  <2> HIDE DEF x, y
  <2> QED
    BY <2>1 DEF Stream
<1>9. Stream(r)
  BY <1>2, <1>5, <1>6, <1>7, <1>8 DEF Stream
<1> QED
  BY <1>4, <1>9 DEF r

\* A stream that begins with a message begins with all of it, and what follows is a
\* later one.
LEMMA StreamHead ==
  ASSUME NEW s, Stream(s), sent \in Seq(Payloads), s # <<>>, FromStart(s)
  PROVE  LET i == s[1][1]
         IN  /\ i \in 1 .. Len(sent) /\ i \in Numbers(s) /\ Size(i) \in 1 .. Len(s)
             /\ \A n \in 1 .. Size(i) : s[n] = <<i, n>> /\ SubSeq(s, 1, n) = SubSeq(Message(i), 1, n)
             /\ SubSeq(s, 1, Size(i)) = Message(i)
             /\ FromStart(SubSeq(s, Size(i) + 1, Len(s)))
             /\ Later({i}, Numbers(SubSeq(s, Size(i) + 1, Len(s))))
<1> DEFINE i == s[1][1]
           r == SubSeq(s, Size(i) + 1, Len(s))
<1>1. s \in Seq(SentBytes) /\ Len(s) \in Nat \ {0} /\ 1 \in 1 .. Len(s)
  BY EmptySeq DEF Stream
<1>2. s[1] \in SentBytes
  BY <1>1
<1>3. i \in 1 .. Len(sent) /\ s[1][2] = 1
  BY <1>2 DEF SentBytes, FromStart
<1>4. /\ Size(i) \in Nat /\ Header <= Size(i) /\ Header \in Nat /\ Preamble \in 1 .. Header - 1
      /\ Message(i) \in Seq(SentBytes) /\ Len(Message(i)) = Size(i)
      /\ \A k \in 1 .. Size(i) : Message(i)[k] = <<i, k>>
  BY <1>3, Sized
<1>5. \A m \in 0 .. Size(i) - 1 : 1 + m <= Len(s) /\ s[1 + m] = <<i, 1 + m>>
  BY <1>1, <1>3 DEF Stream
<1> HIDE DEF i
<1>6. \A n \in 1 .. Size(i) : n <= Len(s) /\ s[n] = <<i, n>>
  <2> TAKE n \in 1 .. Size(i)
  <2>1. n - 1 \in 0 .. Size(i) - 1 /\ 1 + (n - 1) = n
    BY <1>4
  <2> QED
    BY <1>5, <2>1
<1>7. Size(i) \in 1 .. Len(s)
  BY <1>4, <1>6
<1>8. \A n \in 1 .. Size(i) : SubSeq(s, 1, n) = SubSeq(Message(i), 1, n)
  <2> TAKE n \in 1 .. Size(i)
  <2>1. n \in 0 .. Len(s) /\ n \in 0 .. Len(Message(i)) /\ \A k \in 1 .. n : k \in 1 .. Size(i)
    BY <1>1, <1>4, <1>7
  <2>2. /\ SubSeq(s, 1, n) \in Seq(SentBytes) /\ Len(SubSeq(s, 1, n)) = n
        /\ \A k \in 1 .. n : SubSeq(s, 1, n)[k] = s[k]
    BY <1>1, <2>1, CutAt
  <2>3. /\ SubSeq(Message(i), 1, n) \in Seq(SentBytes) /\ Len(SubSeq(Message(i), 1, n)) = n
        /\ \A k \in 1 .. n : SubSeq(Message(i), 1, n)[k] = Message(i)[k]
    BY <1>4, <2>1, CutAt
  <2>4. \A k \in 1 .. n : SubSeq(s, 1, n)[k] = SubSeq(Message(i), 1, n)[k]
    BY <1>4, <1>6, <2>1, <2>2, <2>3
  <2> QED
    BY <2>2, <2>3, <2>4, SeqEqual
<1>9. SubSeq(s, 1, Size(i)) = Message(i)
  <2>1. SubSeq(s, 1, Size(i)) = SubSeq(Message(i), 1, Size(i))
    BY <1>7, <1>8
  <2>2. SubSeq(Message(i), 1, Size(i)) = Message(i)
    BY <1>4, SubSeqFull
  <2> QED
    BY <2>1, <2>2
<1>10. /\ r \in Seq(SentBytes) /\ Len(r) = Len(s) - Size(i)
       /\ \A k \in 1 .. Len(s) - Size(i) : r[k] = s[Size(i) + k]
  <2>1. Size(i) \in 0 .. Len(s)
    BY <1>7
  <2> QED
    BY <1>1, <2>1, CutAt
<1> HIDE DEF r
<1>11. FromStart(r)
  <2> SUFFICES ASSUME r # <<>> PROVE r[1][2] = 1
    BY DEF FromStart
  <2>1. Len(r) > 0 /\ 1 \in 1 .. Len(s) - Size(i)
    BY <1>1, <1>4, <1>10, EmptySeq
  <2>2. r[1] = s[Size(i) + 1] /\ Size(i) \in 1 .. Len(s) - 1 /\ s[Size(i)] = <<i, Size(i)>>
    BY <1>1, <1>6, <1>7, <1>10, <2>1
  <2> QED
    BY <2>2 DEF Stream
<1>12. Later({i}, Numbers(r))
  <2>1. ASSUME NEW k \in 1 .. Len(r) PROVE After(i, r[k][1])
    <3>1. Size(i) + k \in 1 .. Len(s) /\ Size(i) < Size(i) + k /\ r[k] = s[Size(i) + k]
          /\ s[Size(i)] = <<i, Size(i)>>
      BY <1>1, <1>4, <1>6, <1>7, <1>10
    <3>2. After(i, r[k][1]) \/ (i = r[k][1] /\ Size(i) < r[k][2])
      BY <1>7, <3>1 DEF Stream
    <3>3. r[k][2] \in 1 .. Size(r[k][1])
      BY <3>1 DEF Stream
    <3> QED
      BY <1>4, <3>2, <3>3
  <2> QED
    BY <2>1 DEF Later, Numbers
<1>13. i \in Numbers(s)
  BY <1>1 DEF i, Numbers
<1> QED
  BY <1>3, <1>6, <1>7, <1>8, <1>9, <1>11, <1>12, <1>13 DEF i, r

\* A stream with one more message.
LEMMA StreamMessage ==
  ASSUME NEW s, Stream(s), sent \in Seq(Payloads), NEW i \in 1 .. Len(sent), Later(Numbers(s), {i})
  PROVE  /\ Stream(s \o Message(i))
         /\ Numbers(s \o Message(i)) = Numbers(s) \cup {i}
         /\ FromStart(s) => FromStart(s \o Message(i))
         /\ s # <<>> => (s \o Message(i))[1] = s[1] /\ s \o Message(i) # <<>>
<1> DEFINE a == Message(i)
           t == s \o a
<1>1. s \in Seq(SentBytes) /\ Len(s) \in Nat
  BY DEF Stream
<1>2. /\ Size(i) \in Nat \ {0} /\ a \in Seq(SentBytes) /\ Len(a) = Size(i)
      /\ \A k \in 1 .. Size(i) : a[k] = <<i, k>>
  BY Sized
<1> HIDE DEF a
<1>3. /\ t \in Seq(SentBytes) /\ Len(t) = Len(s) + Size(i)
      /\ \A k \in 1 .. Len(s) + Size(i) : t[k] = IF k <= Len(s) THEN s[k] ELSE a[k - Len(s)]
  BY <1>1, <1>2, ConcatProperties
<1> HIDE DEF t
<1>4. /\ \A k \in 1 .. Len(s) : t[k] = s[k]
      /\ \A k \in 1 .. Size(i) : t[Len(s) + k] = <<i, k>>
      /\ \A k \in 1 .. Len(t) : k \in 1 .. Len(s) \/ k - Len(s) \in 1 .. Size(i)
  <2>1. ASSUME NEW k \in 1 .. Size(i) PROVE t[Len(s) + k] = <<i, k>>
    <3>1. Len(s) + k \in 1 .. Len(s) + Size(i) /\ ~(Len(s) + k <= Len(s)) /\ Len(s) + k - Len(s) = k
      BY <1>1, <1>2
    <3>2. t[Len(s) + k] = a[Len(s) + k - Len(s)]
      BY <1>3, <3>1
    <3>3. t[Len(s) + k] = a[k]
      BY <3>1, <3>2
    <3> QED
      BY <1>2, <3>3
  <2> QED
    BY <1>1, <1>2, <1>3, <2>1
<1>5. \A j \in 1 .. Len(t) : \/ j \in 1 .. Len(s) /\ t[j] = s[j]
                           \/ \E k \in 1 .. Size(i) : j = Len(s) + k /\ t[j] = <<i, k>>
  <2> TAKE j \in 1 .. Len(t)
  <2>1. CASE j \in 1 .. Len(s)
    BY <1>4, <2>1
  <2>2. CASE j - Len(s) \in 1 .. Size(i)
    <3>1. j = Len(s) + (j - Len(s))
      BY <1>1, <1>3
    <3> QED
      BY <1>4, <2>2, <3>1
  <2> QED
    BY <1>4, <2>1, <2>2
<1>6. \A j \in 1 .. Len(t) : t[j][2] \in 1 .. Size(t[j][1])
  <2> TAKE j \in 1 .. Len(t)
  <2>1. CASE j \in 1 .. Len(s) /\ t[j] = s[j]
    BY <2>1 DEF Stream
  <2>2. ASSUME NEW k \in 1 .. Size(i), t[j] = <<i, k>> PROVE t[j][2] \in 1 .. Size(t[j][1])
    BY <2>2
  <2> QED
    BY <1>5, <2>1, <2>2
<1>7. ASSUME NEW j \in 1 .. Len(t), NEW m \in 0 .. Size(t[j][1]) - t[j][2]
      PROVE  j + m <= Len(t) /\ t[j + m] = <<t[j][1], t[j][2] + m>>
  <2>1. CASE j \in 1 .. Len(s) /\ t[j] = s[j]
    <3>1. j + m <= Len(s) /\ s[j + m] = <<s[j][1], s[j][2] + m>>
      BY <2>1 DEF Stream
    <3>2. m \in Int /\ m >= 0
      BY <1>7
    <3>3. j + m \in 1 .. Len(s)
      BY <2>1, <3>1, <3>2, <1>1
    <3> QED
      BY <3>1, <3>3, <2>1, <1>1, <1>2, <1>3, <1>4
  <2>2. ASSUME NEW k \in 1 .. Size(i), j = Len(s) + k, t[j] = <<i, k>>
        PROVE  j + m <= Len(t) /\ t[j + m] = <<t[j][1], t[j][2] + m>>
    <3>1. m \in 0 .. Size(i) - k
      BY <1>7, <2>2
    <3>2. k + m \in 1 .. Size(i) /\ j + m = Len(s) + (k + m)
      BY <1>1, <1>2, <2>2, <3>1
    <3>3. t[j + m] = <<i, k + m>>
      BY <1>4, <3>2
    <3> QED
      BY <1>1, <1>2, <1>3, <2>2, <3>2, <3>3
  <2> QED
    BY <1>5, <2>1, <2>2
<1>8. ASSUME NEW j \in 1 .. Len(t) - 1, t[j][2] = Size(t[j][1])
      PROVE  t[j + 1][2] = 1
  <2>0. j \in 1 .. Len(t)
    BY <1>1, <1>2, <1>3
  <2>1. CASE j \in 1 .. Len(s) /\ t[j] = s[j]
    <3>1. CASE j < Len(s)
      <4>1. j \in 1 .. Len(s) - 1 /\ j + 1 \in 1 .. Len(s)
        BY <1>1, <2>1, <3>1
      <4>2. s[j + 1][2] = 1
        BY <1>8, <2>1, <4>1 DEF Stream
      <4> QED
        BY <1>4, <4>1, <4>2
    <3>2. CASE j = Len(s)
      <4>1. 1 \in 1 .. Size(i) /\ j + 1 = Len(s) + 1
        BY <1>2, <3>2
      <4>2. t[Len(s) + 1] = <<i, 1>>
        BY <1>4, <4>1
      <4> QED
        BY <4>1, <4>2
    <3> QED
      BY <1>1, <2>1, <3>1, <3>2
  <2>2. ASSUME NEW k \in 1 .. Size(i), j = Len(s) + k, t[j] = <<i, k>> PROVE FALSE
    BY <1>1, <1>2, <1>3, <1>8, <2>2
  <2> QED
    BY <1>5, <2>0, <2>1, <2>2
<1>9. ASSUME NEW j \in 1 .. Len(t), NEW k \in 1 .. Len(t), j < k
      PROVE  After(t[j][1], t[k][1]) \/ (t[j][1] = t[k][1] /\ t[j][2] < t[k][2])
  <2>1. CASE k \in 1 .. Len(s) /\ t[k] = s[k]
    <3>1. j \in 1 .. Len(s) /\ t[j] = s[j]
      BY <1>1, <1>4, <1>9, <2>1
    <3> QED
      BY <1>9, <2>1, <3>1 DEF Stream
  <2>2. ASSUME NEW n \in 1 .. Size(i), k = Len(s) + n, t[k] = <<i, n>>
        PROVE  After(t[j][1], t[k][1]) \/ (t[j][1] = t[k][1] /\ t[j][2] < t[k][2])
    <3>1. CASE j \in 1 .. Len(s) /\ t[j] = s[j]
      BY <2>2, <3>1 DEF Later, Numbers
    <3>2. ASSUME NEW q \in 1 .. Size(i), j = Len(s) + q, t[j] = <<i, q>>
          PROVE  t[j][1] = t[k][1] /\ t[j][2] < t[k][2]
      BY <1>1, <1>2, <1>9, <2>2, <3>2
    <3> QED
      BY <1>5, <3>1, <3>2
  <2> QED
    BY <1>5, <2>1, <2>2
<1>10. Stream(t)
  BY <1>3, <1>6, <1>7, <1>8, <1>9 DEF Stream
<1>11. Numbers(t) = Numbers(s) \cup {i}
  <2>1. \A k \in 1 .. Len(t) : t[k][1] \in Numbers(s) \cup {i}
    BY <1>5 DEF Numbers
  <2>2. \A k \in 1 .. Len(s) : k \in 1 .. Len(t) /\ t[k] = s[k]
    BY <1>1, <1>2, <1>3, <1>4
  <2>3. Len(s) + 1 \in 1 .. Len(t) /\ t[Len(s) + 1][1] = i
    BY <1>1, <1>2, <1>3, <1>4
  <2>4. Numbers(t) \subseteq Numbers(s) \cup {i}
    BY <2>1 DEF Numbers
  <2>5. Numbers(s) \subseteq Numbers(t)
    BY <2>2 DEF Numbers
  <2>6. i \in Numbers(t)
    BY <2>3 DEF Numbers
  <2> QED
    BY <2>4, <2>5, <2>6
<1>12. t # <<>> /\ (s # <<>> => t[1] = s[1]) /\ (s = <<>> => t[1][2] = 1)
  <2>1. t # <<>>
    BY <1>1, <1>2, <1>3, EmptySeq
  <2>2. s # <<>> => t[1] = s[1]
    BY <1>1, <1>4, EmptySeq
  <2>3. s = <<>> => t[1][2] = 1
    <3> SUFFICES ASSUME s = <<>> PROVE t[1][2] = 1
      OBVIOUS
    <3>1. Len(s) = 0
      BY EmptySeq
    <3>2. 1 \in 1 .. Size(i) /\ Len(s) + 1 = 1
      BY <1>2, <3>1
    <3> QED
      BY <1>4, <3>2
  <2> QED
    BY <2>1, <2>2, <2>3
<1> QED
  BY <1>10, <1>11, <1>12 DEF FromStart, t, a

\* A stream is one still when more messages are sent, or fail.
LEMMA StreamKept ==
  ASSUME NEW s, Stream(s), failed \subseteq failed',
         \A i \in 1 .. Len(sent) : i \in 1 .. Len(sent') /\ sent'[i] = sent[i]
  PROVE  Stream(s)'
<1>1. s \in Seq(SentBytes')
  <2>1. SentBytes \subseteq SentBytes'
    BY DEF SentBytes
  <2> QED
    BY <2>1, SeqMonotonic DEF Stream
<1>2. \A j \in 1 .. Len(s) : s[j][1] \in 1 .. Len(sent)
  <2>1. \A j \in 1 .. Len(s) : s[j] \in (1 .. Len(sent)) \X Nat
    BY DEF Stream, SentBytes
  <2> QED
    BY <2>1
<1>3. \A j \in 1 .. Len(s) : Size(s[j][1])' = Size(s[j][1])
  BY <1>2 DEF Size
<1>4. \A i, j : After(i, j) => After(i, j)'
  BY DEF After
<1>5. \A j \in 1 .. Len(s) : s[j][2] \in 1 .. Size(s[j][1])'
  BY <1>3 DEF Stream
<1>6. \A j \in 1 .. Len(s) : \A m \in 0 .. Size(s[j][1])' - s[j][2] :
        j + m <= Len(s) /\ s[j + m] = <<s[j][1], s[j][2] + m>>
  <2> TAKE j \in 1 .. Len(s)
  <2>1. 0 .. Size(s[j][1])' - s[j][2] = 0 .. Size(s[j][1]) - s[j][2]
    BY <1>3
  <2> QED
    BY <2>1 DEF Stream
<1>7. \A j \in 1 .. Len(s) - 1 : s[j][2] = Size(s[j][1])' => s[j + 1][2] = 1
  <2> TAKE j \in 1 .. Len(s) - 1
  <2>1. j \in 1 .. Len(s)
    BY DEF Stream
  <2>2. Size(s[j][1])' = Size(s[j][1])
    BY <1>3, <2>1
  <2> QED
    BY <2>2 DEF Stream
<1>8. \A j, k \in 1 .. Len(s) : j < k =>
        After(s[j][1], s[k][1])' \/ (s[j][1] = s[k][1] /\ s[j][2] < s[k][2])
  BY <1>4 DEF Stream
<1> QED
  BY <1>1, <1>5, <1>6, <1>7, <1>8 DEF Stream

\* The receiver's stream, given a name in a proof.
LEMMA DownStreamIs ==
  ASSUME NEW s, Stream(s)', s = downStream'
  PROVE  Stream(downStream)'
BY DEF Stream

\* One more message at the end of a list.
LEMMA InOrderAppend ==
  ASSUME NEW list \in Seq(1 .. Len(sent)), NEW i \in 1 .. Len(sent), Later(Range(list), {i}),
         InOrder(list)
  PROVE  /\ InOrder(Append(list, i)) /\ Append(list, i) \in Seq(1 .. Len(sent))
         /\ Range(Append(list, i)) = Range(list) \cup {i}
<1> DEFINE t == Append(list, i)
<1>1. /\ t \in Seq(1 .. Len(sent)) /\ DOMAIN t = 1 .. Len(list) + 1
      /\ DOMAIN list = 1 .. Len(list) /\ Len(list) \in Nat
      /\ \A k \in 1 .. Len(list) : t[k] = list[k]
      /\ t[Len(list) + 1] = i
  BY AppendProperties, LenProperties
<1> HIDE DEF t
<1>2. \A k \in DOMAIN t :
        (k \in DOMAIN list /\ t[k] = list[k]) \/ (k = Len(list) + 1 /\ t[k] = i)
  BY <1>1
<1>3. DOMAIN list \subseteq DOMAIN t /\ Len(list) + 1 \in DOMAIN t
  BY <1>1
<1>4. Range(t) = Range(list) \cup {i}
  BY <1>1, <1>2, <1>3 DEF Range
<1>5. 0 \notin Range(t)
  BY <1>4 DEF InOrder
<1>6. ASSUME NEW j \in DOMAIN t, NEW k \in DOMAIN t, j < k
      PROVE  t[j] < t[k] \/ (t[j] = t[k] /\ t[j] \in failed)
  <2>1. CASE k \in DOMAIN list
    <3>1. j \in DOMAIN list
      BY <1>1, <1>6, <2>1
    <3> QED
      BY <1>1, <1>6, <2>1, <3>1 DEF InOrder
  <2>2. CASE k = Len(list) + 1
    <3>1. j \in DOMAIN list
      BY <1>1, <1>6, <2>2
    <3>2. t[j] \in Range(list) /\ t[k] = i
      BY <1>1, <2>2, <3>1 DEF Range
    <3> QED
      BY <3>2 DEF Later, After
  <2> QED
    BY <1>2, <2>1, <2>2
<1>7. InOrder(t)
  BY <1>5, <1>6 DEF InOrder
<1> QED
  BY <1>1, <1>4, <1>7 DEF t

\* The first byte of a sequence of bytes that was sent.
LEMMA FirstByte ==
  ASSUME NEW s \in Seq(SentBytes), s # <<>>
  PROVE  s[1][1] \in 1 .. Len(sent) /\ 1 \in 1 .. Len(s)
<1>1. 1 \in 1 .. Len(s)
  BY EmptySeq
<1>2. s[1] \in (1 .. Len(sent)) \X Nat
  BY <1>1 DEF SentBytes
<1> QED
  BY <1>1, <1>2

LEMMA BytesAssociate ==
  \A a, b, c \in Seq(SentBytes) : (a \o b) \o c = a \o (b \o c)
BY ConcatAssociative

\* A stream in two parts begins with the first of them.
LEMMA FirstPart ==
  ASSUME NEW s \in Seq(SentBytes), NEW t \in Seq(SentBytes), s # <<>>
  PROVE  s \o t # <<>> /\ (s \o t)[1] = s[1]
<1>1. Len(s) \in Nat \ {0} /\ Len(t) \in Nat
  BY EmptySeq, LenProperties
<1>2. /\ s \o t \in Seq(SentBytes) /\ Len(s \o t) = Len(s) + Len(t)
      /\ \A i \in 1 .. Len(s) + Len(t) : (s \o t)[i] = IF i <= Len(s) THEN s[i] ELSE t[i - Len(s)]
  BY ConcatProperties
<1>3. 1 \in 1 .. Len(s) + Len(t) /\ 1 <= Len(s)
  BY <1>1
<1>4. Len(s \o t) > 0
  BY <1>1, <1>2
<1> QED
  BY <1>2, <1>3, <1>4, EmptySeq

LEMMA NumbersSent ==
  ASSUME NEW s \in Seq(SentBytes)
  PROVE  Numbers(s) \subseteq 1 .. Len(sent)
<1>1. \A j \in 1 .. Len(s) : s[j] \in (1 .. Len(sent)) \X Nat
  BY DEF SentBytes
<1> QED
  BY <1>1 DEF Numbers

-----------------------------------------------------------------------------
(* The steps, and that messages stay whole.                                *)

LEMMA WholeInit == Init => WholeIInv
<1> SUFFICES ASSUME Init PROVE WholeIInv
  OBVIOUS
<1> USE DEF Init
<1>1. upStream = <<>> /\ downStream = <<>>
  <2>1. <<>> \o <<>> = <<>>
    BY ConcatEmptySeq, EmptySeq
  <2> QED
    BY <2>1 DEF upStream, downStream
<1>2. Stream(<<>>) /\ Numbers(<<>>) = {} /\ FromStart(<<>>) /\ Len(<<>>) = 0
  BY EmptySeq DEF Stream, Numbers, FromStart
<1>3. Len(sent) = 0 /\ Range(received) = {} /\ Range(dispatched) = {}
  BY EmptySeq DEF Range
<1>4. InOrder(dispatched) /\ InOrder(received)
  BY <1>3 DEF InOrder
<1>5. ReadSoFar
  BY <1>1, <1>2, FramingAssumption DEF ReadSoFar, Wanted
<1>6. Flow
  BY <1>1, <1>2, <1>3 DEF Flow, Later, Done
<1>7. Kept
  BY <1>3, EmptySeq, FramingAssumption DEF Kept
<1> QED
  BY <1>4, <1>5, <1>6, <1>7, FramingInit DEF WholeIInv

\* The sender begins with a message that comes after all the others.
LEMMA WholeSend ==
  ASSUME WholeIInv, NEW n \in Payloads, Send(n)
  PROVE  WholeIInv'
<1> USE DEF WholeIInv
<1>1. /\ link = "up" /\ link' = link /\ attempt = 0 /\ Len(sent) < MaxSent
      /\ sent' = Append(sent, n) /\ attempt' = 1 /\ err' = "OK"
      /\ UNCHANGED <<up, router, down, receiver, failed, dropped, lost>>
  BY DEF Send
<1>2. FramingIInv'
  BY SenderStep
<1>3. sent \in Seq(Payloads) /\ up \in Seq(SentBytes) /\ buffer \in Seq(SentBytes)
      /\ (state = "drop" => buffer = <<>>)
  BY DEF FramingIInv, StreamOK, Asks
<1>4. /\ Len(sent') = Len(sent) + 1 /\ Len(sent) \in Nat
      /\ \A i \in 1 .. Len(sent) : i \in 1 .. Len(sent') /\ sent'[i] = sent[i]
  BY <1>1, <1>3, AppendProperties
<1>5. SentBytes \subseteq SentBytes' /\ 1 .. Len(sent) \subseteq 1 .. Len(sent')
  BY <1>4 DEF SentBytes
<1>6. Kept'
  <2>1. down' \in Seq(SentBytes') /\ got' \in Seq(SentBytes')
        /\ dispatched' \in Seq(1 .. Len(sent')) /\ received' \in Seq(1 .. Len(sent'))
    BY <1>1, <1>5, SeqMonotonic DEF Kept, router, receiver
  <2> QED
    BY <1>1, <1>4, <1>5, <2>1, FramingAssumption DEF Kept, router, receiver
<1>7. InOrder(dispatched)' /\ InOrder(received)'
  BY <1>1 DEF InOrder, router, receiver
<1>8. upStream' = upStream /\ downStream' = downStream /\ Done' = Done
  BY <1>1 DEF upStream, downStream, Done, router, receiver
<1>9. Stream(upStream)' /\ Stream(downStream)'
  <2>1. PICK s, t : s = upStream /\ t = downStream
    OBVIOUS
  <2>2. Stream(s)' /\ Stream(t)'
    BY <1>1, <1>4, <2>1, StreamKept DEF Flow
  <2> QED
    BY <1>8, <2>1, <2>2 DEF Stream
<1>10. Flow'
  <2>1. Numbers(upStream) \subseteq 1 .. Len(sent) /\ Numbers(downStream) \subseteq 1 .. Len(sent)
    BY <1>1, NumbersSent DEF Flow, Stream
  <2>2. Done \subseteq 1 .. Len(sent)
    BY RangeOfSeq DEF Done, Kept
  <2>3. \A i \in 1 .. Len(sent) : i < Len(sent')
    BY <1>4
  <2>4. Later(Done \cup Numbers(downStream) \cup Numbers(upStream), {Len(sent)})'
    BY <1>8, <2>1, <2>2, <2>3 DEF Later, After, Numbers
  <2> QED
    BY <1>1, <1>8, <1>9, <2>4 DEF Flow, Later, After, Numbers, receiver
<1>11. ReadSoFar'
  <2>1. ReadSoFar /\ UNCHANGED <<state, buffer, bytes_to_read, up, place, got>>
    BY <1>1 DEF router, receiver
  <2>2. buffer # <<>> => Size(buffer[1][1])' = Size(buffer[1][1])
    BY <1>3, <1>4, <2>1, FirstByte DEF Size
  <2>3. up # <<>> => Size(up[1][1])' = Size(up[1][1])
    BY <1>3, <1>4, <2>1, FirstByte DEF Size
  <2>4. got # <<>> => DecodePayload(got)' = DecodePayload(got)
    BY <1>4, <2>1, FirstByte DEF DecodePayload, Kept
  <2>5. place = "payload" => got # <<>>
    BY <2>1 DEF ReadSoFar
  <2>6. Wanted' = Wanted
    BY <2>1, <2>4, <2>5 DEF Wanted
  <2> QED
    BY <1>8, <2>1, <2>2, <2>3, <2>6 DEF ReadSoFar, FromStart
<1> QED
  BY <1>2, <1>6, <1>7, <1>10, <1>11

\* It is sent again only after a failure.
LEMMA WholeAttempt ==
  ASSUME WholeIInv, SendMsg \/ SendMsgFails \/ ShortWrite
  PROVE  WholeIInv'
<1> USE DEF WholeIInv
<1> DEFINE n == Len(sent)
<1>1. /\ link = "up" /\ attempt > 0 /\ sent' = sent
      /\ UNCHANGED <<router, down, receiver, dropped, lost>>
      /\ failed' \in {failed, failed \cup {n}} /\ link' \in {"up", "torn"}
  BY DEF SendMsg, SendMsgFails, ShortWrite
<1>2. FramingIInv'
  BY SenderStep
<1>3. /\ sent \in Seq(Payloads) /\ up \in Seq(SentBytes) /\ buffer \in Seq(SentBytes)
      /\ (state = "drop" => buffer = <<>>) /\ n \in 1 .. Len(sent)
  BY <1>1 DEF FramingIInv, StreamOK, Asks
<1>4. attempt' \in 0 .. 3 /\ err' \in {"OK", "errno", "FAIL"} /\ (attempt' > 0 => err' # "OK")
  BY DEF SendMsg, SendMsgFails, ShortWrite, Attempted, Kept
<1> HIDE DEF n
<1>5. Kept'
  BY <1>1, <1>3, <1>4 DEF Kept, SentBytes, router, receiver
<1>6. InOrder(dispatched)' /\ InOrder(received)'
  BY <1>1 DEF InOrder, router, receiver
<1>7. downStream' = downStream /\ Done' = Done
  BY <1>1 DEF downStream, Done, router, receiver
<1>8. /\ Later(Done \cup Numbers(downStream) \cup Numbers(upStream), {n})
      /\ err # "OK" => n \in failed
  BY <1>1 DEF Flow, n
<1>9. CASE SendMsg
  <2>1. up' = up \o Message(n) /\ failed' = failed /\ err' = err
    BY <1>9 DEF SendMsg, Attempted, n
  <2>2. upStream' = upStream \o Message(n)
    <3>1. Message(n) \in Seq(SentBytes)
      BY <1>3, Sized
    <3>2. (buffer \o up) \o Message(n) = buffer \o (up \o Message(n))
      BY <1>3, <3>1, BytesAssociate
    <3>3. buffer' = buffer
      BY <1>1 DEF router
    <3> QED
      BY <2>1, <3>2, <3>3 DEF upStream
  <2>3. PICK s, t : s = upStream /\ t = downStream
    OBVIOUS
  <2>4. Stream(s) /\ Stream(t) /\ Later(Numbers(s), {n})
    BY <1>1, <1>8, <2>3 DEF Flow, Later
  <2>5. /\ Stream(s \o Message(n)) /\ Numbers(s \o Message(n)) = Numbers(s) \cup {n}
        /\ FromStart(s) => FromStart(s \o Message(n))
        /\ s # <<>> => (s \o Message(n))[1] = s[1] /\ s \o Message(n) # <<>>
    BY <1>3, <2>4, StreamMessage
  <2>6. PICK u : u = upStream'
    OBVIOUS
  <2>7. Stream(u) /\ Numbers(u) = Numbers(s) \cup {n} /\ (FromStart(s) => FromStart(u))
        /\ (s # <<>> => u[1] = s[1] /\ u # <<>>)
    BY <2>2, <2>3, <2>5, <2>6
  <2>8. Stream(u)' /\ Stream(t)'
    BY <1>1, <2>1, <2>4, <2>7, StreamKept
  <2>9. Stream(upStream)' /\ Stream(downStream)'
    BY <1>7, <2>3, <2>6, <2>8 DEF Stream
  <2>10. Flow'
    <3>1. Numbers(upStream)' = Numbers(upStream) \cup {n} /\ Numbers(downStream)' = Numbers(downStream)
      BY <1>7, <2>3, <2>6, <2>7 DEF Numbers
    <3>2. \A i, j : After(i, j)' = After(i, j)
      BY <2>1 DEF After
    <3>3. Later(Done \cup Numbers(downStream), Numbers(upStream) \cup {n})
      BY <1>1, <1>8 DEF Flow, Later
    <3>4. attempt' > 0 => n \in failed
      BY <1>4, <1>8, <2>1
    <3>5. n' = n
      BY <1>1 DEF n
    <3>6. n = Len(sent)
      BY DEF n
    <3>7. Later(Done \cup Numbers(downStream), Numbers(upStream))'
      BY <1>7, <3>1, <3>2, <3>3 DEF Later
    <3>8. Later(Range(received), Numbers(downStream))'
      BY <1>1, <1>7, <3>1, <3>2 DEF Flow, Later, receiver
    <3>9. attempt' > 0 =>
            /\ Later(Done \cup Numbers(downStream) \cup Numbers(upStream), {n})'
            /\ n' \in failed'
      <4> SUFFICES ASSUME attempt' > 0
                   PROVE  /\ Later(Done \cup Numbers(downStream) \cup Numbers(upStream), {n})'
                          /\ n' \in failed'
        OBVIOUS
      <4>1. n \in failed
        BY <3>4
      <4>2. \A i \in Done \cup Numbers(downStream) \cup Numbers(upStream) \cup {n} : After(i, n)
        BY <1>8, <4>1 DEF Later, After
      <4> QED
        BY <1>7, <2>1, <3>1, <3>2, <3>5, <4>1, <4>2 DEF Later
    <3> QED
      BY <2>9, <3>7, <3>8, <3>9 DEF Flow, n
  <2>11. ReadSoFar'
    <3>1. ReadSoFar /\ UNCHANGED <<state, buffer, bytes_to_read, place, got>>
      BY <1>1 DEF router, receiver
    <3>2. state = "drop" => upStream = up /\ upStream' = up'
      <4>1. up' \in Seq(SentBytes')
        BY <1>2 DEF FramingIInv, StreamOK
      <4> QED
        BY <1>3, <3>1, <4>1, ConcatEmptySeq DEF upStream
    <3>3. Wanted' = Wanted
      BY <1>1, <3>1 DEF Wanted, DecodePayload
    <3>4. \A i : Size(i)' = Size(i)
      BY <1>1 DEF Size
    <3> QED
      BY <1>7, <2>3, <2>6, <2>7, <3>1, <3>2, <3>3, <3>4 DEF ReadSoFar, FromStart
  <2> QED
    BY <1>2, <1>5, <1>6, <2>10, <2>11
<1>10. CASE SendMsgFails
  <2>1. up' = up /\ failed' = failed \cup {n}
    BY <1>10 DEF SendMsgFails, n
  <2>2. upStream' = upStream
    BY <1>1, <2>1 DEF upStream, router
  <2>3. PICK s, t : s = upStream /\ t = downStream
    OBVIOUS
  <2>4. Stream(s)' /\ Stream(t)'
    BY <1>1, <2>3, StreamKept DEF Flow
  <2>5. Stream(upStream)' /\ Stream(downStream)'
    <3>1. s = upStream' /\ t = downStream'
      BY <1>7, <2>2, <2>3
    <3>2. Stream(upStream)'
      BY <2>4, <3>1 DEF Stream
    <3>3. Stream(downStream)'
      BY <2>4, <3>1 DEF Stream
    <3> QED
      BY <3>2, <3>3
  <2>6. \A i, j : After(i, j) => After(i, j)'
    BY <2>1 DEF After
  <2>7. Flow'
    <3>1. Numbers(upStream)' = Numbers(upStream) /\ Numbers(downStream)' = Numbers(downStream)
      BY <1>7, <2>2 DEF Numbers
    <3>2. n' = n /\ n = Len(sent)
      BY <1>1 DEF n
    <3>3. Later(Done \cup Numbers(downStream), Numbers(upStream))'
      BY <1>1, <1>7, <2>6, <3>1 DEF Flow, Later
    <3>4. Later(Range(received), Numbers(downStream))'
      BY <1>1, <2>6, <3>1 DEF Flow, Later, receiver
    <3>5. Later(Done \cup Numbers(downStream) \cup Numbers(upStream), {n})'
      BY <1>7, <1>8, <2>6, <3>1, <3>2 DEF Later
    <3> QED
      BY <2>1, <2>5, <3>2, <3>3, <3>4, <3>5 DEF Flow, n
  <2>8. ReadSoFar'
    <3>1. ReadSoFar /\ UNCHANGED <<state, buffer, bytes_to_read, place, got>>
      BY <1>1 DEF router, receiver
    <3> QED
      BY <1>1, <1>7, <2>1, <2>2, <3>1 DEF ReadSoFar, FromStart, Wanted, DecodePayload, Size
  <2> QED
    BY <1>2, <1>5, <1>6, <2>7, <2>8
<1>11. CASE ShortWrite
  BY <1>2, <1>5, <1>6, <1>11 DEF ShortWrite
<1> QED
  BY <1>9, <1>10, <1>11

\* What the receiver has is not touched by reading what was sent.
LEMMA WholeReader ==
  ASSUME WholeIInv, link = "up", link' = link,
         UNCHANGED <<sender, down, receiver, failed, lost>>, dispatched' = dispatched,
         dropped' \subseteq 1 .. Len(sent), FramingIInv',
         NEW s, s = upStream', Stream(s), Numbers(s) \subseteq Numbers(upStream),
         /\ state' # "drop" => FromStart(s)
         /\ state' = "payload" => buffer' # <<>> /\ bytes_to_read' = Size(buffer'[1][1])
         /\ state' = "drop" /\ bytes_to_read' = 0 => FromStart(up')
         /\ state' = "drop" /\ bytes_to_read' > 0 =>
              up' # <<>> /\ up'[1][2] + bytes_to_read' = Size(up'[1][1]) + 1
  PROVE  WholeIInv'
<1> USE DEF WholeIInv
<1>1. UNCHANGED <<sent, attempt, err, down, place, got, received, dispatched, failed, lost>>
  BY DEF sender, receiver
<1>2. Kept'
  BY <1>1 DEF Kept, SentBytes
<1>3. InOrder(dispatched)' /\ InOrder(received)'
  BY <1>1 DEF InOrder
<1>4. Stream(upStream)'
  <2>1. Stream(s)'
    BY <1>1, StreamKept
  <2> QED
    BY <2>1 DEF Stream
<1>5. Stream(downStream)'
  <2>1. PICK t : t = downStream
    OBVIOUS
  <2>2. Stream(t)'
    BY <1>1, <2>1, StreamKept DEF Flow
  <2>3. t = downStream'
    BY <1>1, <2>1 DEF downStream
  <2> QED
    BY <2>2, <2>3 DEF Stream
<1>6. Flow'
  <2>1. /\ Numbers(upStream)' \subseteq Numbers(upStream)
        /\ Numbers(downStream)' = Numbers(downStream) /\ Done' = Done
    BY <1>1 DEF Numbers, Done, downStream
  <2>2. \A i, j : After(i, j)' = After(i, j)
    BY <1>1 DEF After
  <2>3. Flow
    OBVIOUS
  <2>4. Later(Done \cup Numbers(downStream), Numbers(upStream))'
    BY <2>1, <2>2, <2>3 DEF Flow, Later
  <2>5. Later(Range(received), Numbers(downStream))'
    BY <1>1, <2>1, <2>2, <2>3 DEF Flow, Later
  <2>6. attempt > 0 => Later(Done \cup Numbers(downStream) \cup Numbers(upStream), {Len(sent)})'
    BY <1>1, <2>1, <2>2, <2>3 DEF Flow, Later
  <2> QED
    BY <1>1, <1>4, <1>5, <2>3, <2>4, <2>5, <2>6 DEF Flow
<1>7. ReadSoFar'
  <2>1. ReadSoFar
    OBVIOUS
  <2>2. FromStart(downStream)' /\ (place' = "payload" => got' # <<>>) /\ Len(got') <= Wanted'
    BY <1>1, <2>1 DEF ReadSoFar, FromStart, downStream, Wanted, DecodePayload
  <2>3. \A i : Size(i)' = Size(i)
    BY <1>1 DEF Size
  <2> QED
    BY <2>2, <2>3 DEF ReadSoFar, FromStart
<1> QED
  BY <1>2, <1>3, <1>6, <1>7

\* The message dispatched is the one the stream begins with, forwarded or not.
LEMMA WholeDispatch ==
  ASSUME WholeIInv, link = "up", link' \in {"up", "torn"}, FramingIInv',
         UNCHANGED <<sender, receiver, failed, dropped>>,
         upStream # <<>>, FromStart(upStream),
         NEW i, i = upStream[1][1],
         up' = SubSeq(upStream, Size(i) + 1, Len(upStream)),
         down' = down \/ down' = down \o Message(i),
         lost' = lost \/ lost' = lost \cup {i},
         dispatched' = Append(dispatched, i), Reset
  PROVE  WholeIInv'
<1> USE DEF WholeIInv
<1>1. UNCHANGED <<sent, attempt, err, place, got, received, failed, dropped>>
  BY DEF sender, receiver
<1>2. sent \in Seq(Payloads) /\ Flow /\ ReadSoFar
  BY DEF FramingIInv, StreamOK
<1>3. /\ i \in 1 .. Len(sent) /\ i \in Numbers(upStream) /\ Size(i) \in 1 .. Len(upStream)
      /\ FromStart(up') /\ Later({i}, Numbers(up'))
  BY <1>2, StreamHead DEF Flow
<1>4. PICK s, t : s = up' /\ t = downStream'
  OBVIOUS
<1>5. Stream(s) /\ Numbers(s) \subseteq Numbers(upStream)
  <2>1. Size(i) \in 0 .. Len(upStream)
    BY <1>3
  <2> QED
    BY <1>2, <1>4, <2>1, StreamRest DEF Flow
<1>6. upStream' = s
  <2>1. buffer' = <<>> /\ up' \in Seq(SentBytes)
    BY <1>4, <1>5 DEF Reset, Stream
  <2> QED
    BY <1>4, <2>1, ConcatEmptySeq DEF upStream
<1>7. Message(i) \in Seq(SentBytes)
  BY <1>2, <1>3, Sized
<1>8. t = downStream \/ t = downStream \o Message(i)
  <2>1. got \in Seq(SentBytes) /\ down \in Seq(SentBytes)
    BY DEF Kept
  <2>2. (got \o down) \o Message(i) = got \o (down \o Message(i))
    BY <1>7, <2>1, BytesAssociate
  <2> QED
    BY <1>1, <1>4, <2>2 DEF downStream
<1>9. Later(Done \cup Numbers(downStream), {i}) /\ Later(Range(received), {i})
  BY <1>2, <1>3 DEF Flow, Later, Done
<1>10. /\ Stream(t) /\ Numbers(t) \subseteq Numbers(downStream) \cup {i} /\ FromStart(t)
  <2>1. Later(Numbers(downStream), {i}) /\ FromStart(downStream)
    BY <1>2, <1>9 DEF Later, ReadSoFar
  <2>2. CASE t = downStream
    BY <1>2, <2>1, <2>2 DEF Flow
  <2>3. CASE t = downStream \o Message(i)
    BY <1>2, <1>3, <2>1, <2>3, StreamMessage DEF Flow
  <2> QED
    BY <1>8, <2>2, <2>3
<1>11. /\ InOrder(dispatched') /\ dispatched' \in Seq(1 .. Len(sent))
       /\ Range(dispatched') = Range(dispatched) \cup {i}
  <2>1. Later(Range(dispatched), {i})
    BY <1>9 DEF Later, Done
  <2>2. dispatched \in Seq(1 .. Len(sent))
    BY DEF Kept
  <2> QED
    BY <1>3, <2>1, <2>2, InOrderAppend
<1>12. InOrder(dispatched)' /\ InOrder(received)'
  BY <1>1, <1>11 DEF InOrder
<1>13. Kept'
  <2>1. down' \in Seq(SentBytes)
    <3>1. down \in Seq(SentBytes)
      BY DEF Kept
    <3>2. down \o Message(i) \in Seq(SentBytes)
      BY <1>7, <3>1, ConcatProperties
    <3> QED
      BY <3>1, <3>2
  <2>2. lost \subseteq 1 .. Len(sent)
    BY DEF Kept
  <2>3. lost' \subseteq 1 .. Len(sent)
    BY <1>3, <2>2
  <2>4. link' \in {"up", "closed", "torn"} /\ failed \cup dropped \subseteq 1 .. Len(sent)
    BY DEF Kept
  <2> QED
    BY <1>1, <1>11, <2>1, <2>3, <2>4 DEF Kept, SentBytes
<1>14. Stream(upStream)' /\ Stream(downStream)'
  <2>1. Stream(s)' /\ Stream(t)'
    BY <1>1, <1>5, <1>10, StreamKept
  <2>2. Stream(upStream)'
    BY <1>6, <2>1 DEF Stream
  <2>3. Stream(downStream)'
    BY <1>4, <2>1 DEF Stream
  <2> QED
    BY <2>2, <2>3
<1>15. Flow'
  <2>0. Numbers(upStream)' = Numbers(s) /\ Numbers(downStream)' = Numbers(t)
    BY <1>4, <1>6 DEF Numbers
  <2>1. /\ Numbers(upStream)' \subseteq Numbers(upStream) /\ Later({i}, Numbers(upStream)')
        /\ Numbers(downStream)' \subseteq Numbers(downStream) \cup {i}
    BY <1>3, <1>4, <1>5, <1>10, <2>0
  <2>2. Done' = Done \cup {i}
    BY <1>1, <1>11 DEF Done
  <2>3. \A j, k : After(j, k)' = After(j, k)
    BY <1>1 DEF After
  <2>4. Later(Done \cup Numbers(downStream), Numbers(upStream))'
    BY <1>2, <2>1, <2>2, <2>3 DEF Flow, Later
  <2>5. Later(Range(received), Numbers(downStream))'
    BY <1>1, <1>2, <1>9, <2>1, <2>3 DEF Flow, Later
  <2>6. attempt > 0 => Later(Done \cup Numbers(downStream) \cup Numbers(upStream), {Len(sent)})'
    BY <1>1, <1>2, <1>3, <2>1, <2>2, <2>3 DEF Flow, Later
  <2> QED
    BY <1>1, <1>2, <1>14, <2>4, <2>5, <2>6 DEF Flow
<1>16. ReadSoFar'
  <2>1. FromStart(upStream)' /\ state' = "preamble"
    BY <1>3, <1>4, <1>6 DEF FromStart, Reset
  <2>2. FromStart(downStream)'
    BY <1>4, <1>10 DEF FromStart
  <2>3. (place' = "payload" => got' # <<>>) /\ Len(got') <= Wanted'
    BY <1>1, <1>2 DEF ReadSoFar, Wanted, DecodePayload
  <2> QED
    BY <2>1, <2>2, <2>3 DEF ReadSoFar
<1> QED
  BY <1>12, <1>13, <1>15, <1>16

LEMMA WholeRouter ==
  ASSUME WholeIInv, RouterRead
  PROVE  WholeIInv'
<1> USE DEF WholeIInv
<1>1. PICK n \in 1 .. Smaller(Len(up), bytes_to_read - Len(buffer)) :
        LET bytes == buffer \o SubSeq(up, 1, n)
        IN  /\ up' = SubSeq(up, n + 1, Len(up))
            /\ IF Len(bytes) < bytes_to_read THEN Partial(bytes)
               ELSE \/ state = "preamble" /\ PreambleRead(bytes)
                    \/ state = "header" /\ HeaderRead(bytes)
                    \/ state = "payload" /\ PayloadRead(bytes)
  BY DEF RouterRead
<1> DEFINE bytes == buffer \o SubSeq(up, 1, n)
           s == upStream
           i == s[1][1]
<1>2. /\ n \in 1 .. Len(up) /\ n <= bytes_to_read - Len(buffer)
      /\ Len(up) \in Nat /\ Len(buffer) \in Nat /\ bytes_to_read \in Nat
      /\ buffer \in Seq(SentBytes) /\ up \in Seq(SentBytes) /\ sent \in Seq(Payloads)
  BY DEF Smaller, FramingIInv, StreamOK, Sizes
<1>3. /\ state # "drop" /\ link = "up" /\ Flow /\ ReadSoFar
      /\ UNCHANGED <<sender, receiver, failed>> /\ sent' = sent
  BY DEF RouterRead, sender
<1>4. FramingIInv'
  BY RouterStep
<1>5. n \in 0 .. Len(up)
  BY <1>2
<1>6. /\ bytes \o up' = s /\ bytes = SubSeq(s, 1, Len(buffer) + n)
      /\ up' = SubSeq(s, Len(buffer) + n + 1, Len(s))
  <2>1. /\ (buffer \o SubSeq(up, 1, n)) \o SubSeq(up, n + 1, Len(up)) = buffer \o up
        /\ buffer \o SubSeq(up, 1, n) = SubSeq(buffer \o up, 1, Len(buffer) + n)
        /\ SubSeq(up, n + 1, Len(up)) = SubSeq(buffer \o up, Len(buffer) + n + 1, Len(buffer \o up))
    BY <1>2, <1>5, Moved
  <2> QED
    BY <1>1, <2>1 DEF upStream
<1>7. Stream(s) /\ FromStart(s) /\ s \in Seq(SentBytes)
  BY <1>3 DEF Flow, ReadSoFar, Stream
<1>8. bytes \in Seq(SentBytes) /\ Len(bytes) = Len(buffer) + n /\ Len(bytes) > 0 /\ bytes # <<>>
  <2>1. SubSeq(up, 1, n) \in Seq(SentBytes) /\ Len(SubSeq(up, 1, n)) = n
    BY <1>2, <1>5, CutAt
  <2>2. bytes \in Seq(SentBytes) /\ Len(bytes) = Len(buffer) + n
    BY <1>2, <2>1, ConcatProperties
  <2> HIDE DEF bytes
  <2>3. Len(bytes) > 0
    BY <1>2, <2>2
  <2>4. Len(<<>>) = 0
    BY EmptySeq
  <2> QED
    BY <2>2, <2>3, <2>4
<1>9. up' \in Seq(SentBytes)
  BY <1>1, <1>2, <1>5, CutAt
<1> HIDE DEF bytes
<1>10. s # <<>> /\ s[1] = bytes[1]
  BY <1>6, <1>8, <1>9, FirstPart
<1>11. buffer # <<>> => buffer[1] = s[1]
  BY <1>2, FirstPart DEF upStream
<1>12. /\ i \in 1 .. Len(sent) /\ i \in Numbers(s) /\ Size(i) \in 1 .. Len(s)
       /\ \A k \in 1 .. Size(i) : s[k] = <<i, k>> /\ SubSeq(s, 1, k) = SubSeq(Message(i), 1, k)
       /\ SubSeq(s, 1, Size(i)) = Message(i)
       /\ FromStart(SubSeq(s, Size(i) + 1, Len(s)))
  BY <1>2, <1>7, <1>10, StreamHead
<1>13. /\ Header <= Size(i) /\ Header \in Nat /\ Preamble \in 1 .. Header - 1 /\ Size(i) \in Nat
       /\ Len(Message(i)) = Size(i) /\ Message(i) \in Seq(SentBytes)
  BY <1>2, <1>12, Sized
<1>14. bytes[1][1] = i /\ \A k \in 1 .. Size(i) : Len(bytes) = k => Starts(bytes, k)
  BY <1>6, <1>8, <1>10, <1>12 DEF Starts
<1>15. CASE /\ buffer' = bytes /\ UNCHANGED <<downlink, dispatched, dropped>> /\ state' # "drop"
            /\ state' = "payload" => bytes_to_read' = Size(i)
  <2>1. upStream' = s
    BY <1>6, <1>15 DEF upStream
  <2>2. buffer' # <<>> /\ buffer'[1][1] = i
    BY <1>8, <1>14, <1>15
  <2>3. PICK r : r = s
    OBVIOUS
  <2>4. dropped' \subseteq 1 .. Len(sent)
    BY <1>15 DEF Kept
  <2> QED
    BY <1>3, <1>4, <1>7, <1>15, <2>1, <2>2, <2>3, <2>4, WholeReader DEF downlink
<1>16. CASE Len(bytes) < bytes_to_read
  <2>1. Partial(bytes)
    BY <1>1, <1>16 DEF bytes
  <2>2. state = "payload" => bytes_to_read = Size(i)
    BY <1>3, <1>11 DEF ReadSoFar
  <2> QED
    BY <1>3, <1>15, <2>1, <2>2 DEF Partial
<1>17. CASE Len(bytes) = bytes_to_read
  <2>1. \/ state = "preamble" /\ PreambleRead(bytes)
        \/ state = "header" /\ HeaderRead(bytes)
        \/ state = "payload" /\ PayloadRead(bytes)
    BY <1>1, <1>2, <1>17 DEF bytes
  <2>2. CASE state = "preamble" /\ PreambleRead(bytes)
    <3>1. Starts(bytes, Preamble)
      <4>1. Len(bytes) = Preamble /\ Preamble \in 1 .. Size(i)
        BY <1>13, <1>17, <2>2 DEF FramingIInv, Asks
      <4> QED
        BY <1>14, <4>1
    <3> QED
      BY <1>15, <2>2, <3>1 DEF PreambleRead
  <2>3. CASE state = "header" /\ HeaderRead(bytes)
    <3>1. Starts(bytes, Header) /\ Len(bytes) = Header /\ Header \in 1 .. Size(i)
      <4>1. Len(bytes) = Header /\ Header \in 1 .. Size(i)
        BY <1>13, <1>17, <2>3 DEF FramingIInv, Asks
      <4> QED
        BY <1>14, <4>1
    <3>2. DecodePayload(bytes) = sent[i] /\ Header + DecodePayload(bytes) = Size(i) /\ sent[i] \in Nat
      <4>1. DecodePayload(bytes) = sent[i]
        BY <1>14 DEF DecodePayload
      <4>2. sent[i] \in Payloads
        BY <1>2, <1>12
      <4> QED
        BY <4>1, <4>2, FramingAssumption DEF Size
    <3>3. CASE state' = "payload" /\ bytes_to_read' = Size(i) /\ buffer' = bytes
               /\ UNCHANGED <<dispatched, downlink, dropped>>
      BY <1>15, <3>3
    <3>4. CASE /\ state' = "drop" /\ bytes_to_read' = sent[i] /\ buffer' = <<>>
               /\ dropped' = dropped \cup {i} /\ UNCHANGED <<dispatched, downlink>>
      <4>1. up' = SubSeq(s, Header + 1, Len(s)) /\ Header \in 0 .. Len(s)
        <5>1. Len(s) \in Nat
          BY <1>7, LenProperties
        <5>2. Header \in 0 .. Len(s)
          BY <1>12, <1>13, <5>1
        <5>3. Len(buffer) + n = Header
          BY <1>8, <3>1
        <5> QED
          BY <1>6, <5>2, <5>3
      <4>2. PICK r : r = up'
        OBVIOUS
      <4>3. Stream(r) /\ Numbers(r) \subseteq Numbers(s)
        BY <1>7, <4>1, <4>2, StreamRest
      <4>4. upStream' = r
        BY <3>4, <4>2, <1>9, ConcatEmptySeq DEF upStream
      <4>5. dropped' \subseteq 1 .. Len(sent)
        BY <1>12, <3>4 DEF Kept
      <4>6. bytes_to_read' = 0 => FromStart(up')
        <5> SUFFICES ASSUME bytes_to_read' = 0 PROVE FromStart(up')
          OBVIOUS
        <5>1. Header = Size(i)
          BY <1>13, <3>2, <3>4
        <5> QED
          BY <1>12, <4>1, <5>1
      <4>7. bytes_to_read' > 0 =>
              up' # <<>> /\ up'[1][2] + bytes_to_read' = Size(up'[1][1]) + 1
        <5> SUFFICES ASSUME bytes_to_read' > 0
                     PROVE  up' # <<>> /\ up'[1][2] + bytes_to_read' = Size(up'[1][1]) + 1
          OBVIOUS
        <5>1. Header + 1 \in 1 .. Size(i) /\ Size(i) = Header + sent[i] /\ Size(i) <= Len(s)
          BY <1>12, <1>13, <3>2, <3>4
        <5>2. Len(up') = Len(s) - Header /\ \A k \in 1 .. Len(s) - Header : up'[k] = s[Header + k]
          BY <1>7, <4>1, CutAt
        <5>3. 1 \in 1 .. Len(s) - Header /\ Len(up') > 0
          BY <1>7, <1>13, <5>1, <5>2, LenProperties
        <5>4. up'[1] = <<i, Header + 1>>
          BY <1>12, <5>1, <5>2, <5>3
        <5>5. up' # <<>>
          BY <5>3, EmptySeq
        <5> QED
          BY <1>13, <3>2, <3>4, <5>1, <5>4, <5>5
      <4> QED
        BY <1>3, <1>4, <3>4, <4>2, <4>3, <4>4, <4>5, <4>6, <4>7, WholeReader DEF downlink
    <3> QED
      BY <1>14, <2>3, <3>1, <3>2, <3>3, <3>4 DEF HeaderRead
  <2>4. CASE state = "payload" /\ PayloadRead(bytes)
    <3>1. Len(bytes) = Size(i) /\ bytes = Message(i)
      <4>1. bytes_to_read = Size(i)
        BY <1>3, <1>11, <2>4 DEF ReadSoFar
      <4> QED
        BY <1>6, <1>8, <1>12, <1>17, <4>1
    <3>2. Whole(bytes) = i
      BY <1>14, <3>1 DEF Whole
    <3>3. down' = down \/ down' = down \o Message(i)
      <4> DEFINE h == SubSeq(Message(i), 1, Header)
                 p == SubSeq(Message(i), Header + 1, Len(Message(i)))
      <4>1. Header \in 0 .. Len(Message(i))
        BY <1>13
      <4>2. h \in Seq(SentBytes) /\ p \in Seq(SentBytes)
        BY <1>13, <4>1, CutAt
      <4>3. h \o p = Message(i)
        <5>1. <<>> \in Seq(SentBytes) /\ \A a \in Seq(SentBytes) : <<>> \o a = a
          BY ConcatEmptySeq, EmptySeq
        <5>2. (<<>> \o h) \o p = <<>> \o Message(i)
          BY <1>13, <4>1, <5>1, Moved
        <5> QED
          BY <1>13, <4>2, <5>1, <5>2
      <4>4. down' = down \/ down' = (down \o h) \o p
        <5>1. \/ down' = down
              \/ down' = down \o SubSeq(Message(bytes[1][1]), 1, Header)
                             \o SubSeq(bytes, Header + 1, Len(bytes))
          BY <2>4 DEF PayloadRead, Forward
        <5>2. SubSeq(Message(bytes[1][1]), 1, Header) = h /\ SubSeq(bytes, Header + 1, Len(bytes)) = p
          BY <1>14, <3>1
        <5> HIDE DEF h, p
        <5> QED
          BY <5>1, <5>2
      <4>5. down \in Seq(SentBytes)
        BY DEF Kept
      <4> HIDE DEF h, p
      <4>6. (down \o h) \o p = down \o (h \o p)
        BY <4>2, <4>5, BytesAssociate
      <4> QED
        BY <4>3, <4>4, <4>6
    <3>4. /\ dispatched' = Append(dispatched, i) /\ Reset /\ dropped' = dropped
      BY <2>4, <3>2 DEF PayloadRead
    <3>5. up' = SubSeq(s, Size(i) + 1, Len(s))
      BY <1>6, <1>8, <3>1
    <3>6. link' \in {"up", "torn"} /\ (lost' = lost \/ lost' = lost \cup {i})
      BY <1>3, <1>14, <2>4 DEF PayloadRead, Forward
    <3>7. PICK k : k = i
      OBVIOUS
    <3> QED
      BY <1>3, <1>4, <1>7, <1>10, <3>3, <3>4, <3>5, <3>6, <3>7, WholeDispatch
  <2> QED
    BY <2>1, <2>2, <2>3, <2>4
<1> QED
  BY <1>2, <1>8, <1>16, <1>17

\* What is dropped is the rest of one message.
LEMMA WholeDrop ==
  ASSUME WholeIInv, ReadAndDrop
  PROVE  WholeIInv'
<1> USE DEF WholeIInv
<1>1. /\ state = "drop" /\ link = "up" /\ link' = link /\ Flow /\ ReadSoFar
      /\ UNCHANGED <<sender, down, receiver, failed, lost, dispatched, dropped>>
      /\ dropped' \subseteq 1 .. Len(sent)
  BY DEF ReadAndDrop, Kept
<1>2. FramingIInv'
  BY DropStep
<1>3. /\ up \in Seq(SentBytes) /\ buffer = <<>> /\ bytes_to_read \in Nat /\ Len(up) \in Nat
      /\ sent \in Seq(Payloads)
  BY <1>1 DEF FramingIInv, StreamOK, Sizes, Asks
<1>4. upStream = up /\ Stream(up)
  BY <1>1, <1>3, ConcatEmptySeq DEF upStream, Flow
<1>5. CASE bytes_to_read = 0
  <2>1. Reset /\ up' = up
    BY <1>5 DEF ReadAndDrop
  <2>2. upStream' = up /\ FromStart(up) /\ state' = "preamble"
    BY <1>1, <1>3, <1>5, <2>1, ConcatEmptySeq DEF upStream, Reset, ReadSoFar
  <2>3. PICK r : r = up
    OBVIOUS
  <2> QED
    BY <1>1, <1>2, <1>4, <2>2, <2>3, WholeReader
<1>6. CASE bytes_to_read # 0
  <2>1. PICK n \in 1 .. Smaller(Len(up), bytes_to_read) :
          /\ up' = SubSeq(up, n + 1, Len(up)) /\ bytes_to_read' = bytes_to_read - n
          /\ UNCHANGED <<state, buffer>>
    BY <1>6 DEF ReadAndDrop
  <2>2. n \in 1 .. Len(up) /\ n <= bytes_to_read /\ n \in 0 .. Len(up)
    BY <1>3, <2>1 DEF Smaller
  <2>3. PICK r : r = up'
    OBVIOUS
  <2>4. Stream(r) /\ Numbers(r) \subseteq Numbers(upStream)
    BY <1>4, <2>1, <2>2, <2>3, StreamRest
  <2>5. upStream' = r /\ state' = "drop"
    BY <1>1, <1>3, <2>1, <2>3, <2>4, ConcatEmptySeq DEF upStream, Stream
  <2> DEFINE i == up[1][1]
             k == up[1][2]
  <2>6. up # <<>> /\ k + bytes_to_read = Size(i) + 1 /\ i \in 1 .. Len(sent)
    <3>1. up # <<>> /\ k + bytes_to_read = Size(i) + 1
      BY <1>1, <1>3, <1>6 DEF ReadSoFar
    <3> QED
      BY <1>3, <3>1, FirstByte
  <2>7. k \in 1 .. Size(i) /\ Size(i) \in Nat /\ 1 \in 1 .. Len(up)
    BY <1>3, <1>4, <2>6, FirstByte, Sized DEF Stream
  <2>8. \A m \in 0 .. Size(i) - k : 1 + m <= Len(up) /\ up[1 + m] = <<i, k + m>>
    BY <1>4, <2>7 DEF Stream
  <2> HIDE DEF i, k
  <2>9. Len(r) = Len(up) - n /\ \A m \in 1 .. Len(up) - n : r[m] = up[n + m]
    BY <1>3, <2>1, <2>2, <2>3, CutAt
  <2>10. bytes_to_read' = 0 => FromStart(r)
    <3> SUFFICES ASSUME bytes_to_read' = 0, r # <<>> PROVE r[1][2] = 1
      BY DEF FromStart
    <3>0. n = bytes_to_read /\ n \in Nat \ {0}
      BY <1>3, <2>1, <2>2
    <3>1. n - 1 \in 0 .. Size(i) - k /\ 1 + (n - 1) = n /\ k + (n - 1) = Size(i)
      BY <2>6, <2>7, <3>0
    <3>2. up[n] = <<i, Size(i)>>
      BY <2>8, <3>1
    <3>3. Len(r) > 0
      BY <2>4, EmptySeq DEF Stream
    <3>4. n \in 1 .. Len(up) - 1 /\ 1 \in 1 .. Len(up) - n
      BY <1>3, <2>2, <2>9, <3>3
    <3>5. up[n + 1][2] = 1
      BY <1>4, <3>2, <3>4 DEF Stream
    <3> QED
      BY <2>9, <3>4, <3>5
  <2>11. bytes_to_read' > 0 => r # <<>> /\ r[1][2] + bytes_to_read' = Size(r[1][1]) + 1
    <3> SUFFICES ASSUME bytes_to_read' > 0
                 PROVE  r # <<>> /\ r[1][2] + bytes_to_read' = Size(r[1][1]) + 1
      OBVIOUS
    <3>1. n \in 0 .. Size(i) - k /\ 1 + n <= Len(up) /\ up[1 + n] = <<i, k + n>>
      BY <1>3, <2>1, <2>2, <2>6, <2>7, <2>8
    <3>2. 1 \in 1 .. Len(up) - n /\ 1 + n = n + 1
      BY <1>3, <2>2, <3>1
    <3>3. r[1] = <<i, k + n>> /\ Len(r) > 0
      BY <1>3, <2>9, <3>1, <3>2
    <3>4. r # <<>>
      BY <3>3, EmptySeq
    <3> QED
      BY <1>3, <2>1, <2>2, <2>6, <2>7, <3>3, <3>4
  <2> QED
    BY <1>1, <1>2, <2>3, <2>4, <2>5, <2>10, <2>11, WholeReader
<1> QED
  BY <1>5, <1>6

\* The receiver reads a part, or hands on the message its stream begins with.
LEMMA WholeReceive ==
  ASSUME WholeIInv, Receive
  PROVE  WholeIInv'
<1> USE DEF WholeIInv
<1> DEFINE i == downStream[1][1]
<1>1. PICK n \in Smaller(1, Wanted - Len(got)) .. Smaller(Len(down), Wanted - Len(got)) :
        /\ down' = SubSeq(down, n + 1, Len(down))
        /\ Received(got \o SubSeq(down, 1, n))
  BY DEF Receive
<1>2. /\ link # "torn" /\ link' = link /\ Flow /\ ReadSoFar
      /\ UNCHANGED <<sent, attempt, err, up, state, buffer, bytes_to_read, capacity, dispatched>>
      /\ UNCHANGED <<failed, dropped, lost>>
  BY DEF Receive, sender, router
<1>3. sent \in Seq(Payloads) /\ down \in Seq(SentBytes) /\ got \in Seq(SentBytes)
      /\ Len(down) \in Nat /\ Len(got) \in Nat
  BY LenProperties DEF FramingIInv, StreamOK, Kept
<1>4. Wanted \in Nat /\ Len(got) <= Wanted
  <2>1. ASSUME place = "payload" PROVE DecodePayload(got) \in Nat
    <3>1. got[1][1] \in 1 .. Len(sent)
      BY <1>2, <1>3, <2>1, FirstByte DEF ReadSoFar
    <3>2. sent[got[1][1]] \in Payloads
      BY <1>3, <3>1
    <3> QED
      BY <3>2, FramingAssumption DEF DecodePayload
  <2> QED
    BY <1>2, <2>1, FramingAssumption DEF Wanted, Kept, ReadSoFar
<1>5. n \in 0 .. Len(down) /\ Len(got) + n <= Wanted
  BY <1>1, <1>3, <1>4 DEF Smaller
<1>6. PICK bytes : bytes = got \o SubSeq(down, 1, n)
  OBVIOUS
<1>7. /\ bytes \o down' = downStream /\ bytes = SubSeq(downStream, 1, Len(got) + n)
      /\ down' = SubSeq(downStream, Len(got) + n + 1, Len(downStream))
  <2>1. /\ (got \o SubSeq(down, 1, n)) \o SubSeq(down, n + 1, Len(down)) = got \o down
        /\ got \o SubSeq(down, 1, n) = SubSeq(got \o down, 1, Len(got) + n)
        /\ SubSeq(down, n + 1, Len(down)) = SubSeq(got \o down, Len(got) + n + 1, Len(got \o down))
    BY <1>3, <1>5, Moved
  <2> QED
    BY <1>1, <1>6, <2>1 DEF downStream
<1>8. /\ bytes \in Seq(SentBytes) /\ Len(bytes) = Len(got) + n /\ Len(bytes) <= Wanted
      /\ down' \in Seq(SentBytes)
  <2>1. /\ SubSeq(down, 1, n) \in Seq(SentBytes) /\ Len(SubSeq(down, 1, n)) = n
        /\ SubSeq(down, n + 1, Len(down)) \in Seq(SentBytes)
    BY <1>3, <1>5, CutAt
  <2>2. bytes \in Seq(SentBytes) /\ Len(bytes) = Len(got) + n
    BY <1>3, <1>6, <2>1, ConcatProperties
  <2> QED
    BY <1>1, <1>5, <2>1, <2>2
<1>9. bytes # <<>> => downStream # <<>> /\ downStream[1] = bytes[1]
  BY <1>7, <1>8, FirstPart
<1>10. got # <<>> => downStream # <<>> /\ downStream[1] = got[1]
  BY <1>3, FirstPart DEF downStream
<1>11. downStream # <<>> =>
         /\ i \in 1 .. Len(sent) /\ i \in Numbers(downStream) /\ Size(i) \in 1 .. Len(downStream)
         /\ SubSeq(downStream, 1, Size(i)) = Message(i)
         /\ FromStart(SubSeq(downStream, Size(i) + 1, Len(downStream)))
         /\ Later({i}, Numbers(SubSeq(downStream, Size(i) + 1, Len(downStream))))
  BY <1>2, <1>3, StreamHead DEF Flow, ReadSoFar
<1>12. FramingIInv'
  BY <1>2 DEF FramingIInv, StreamOK, Sizes, Asks, SentBytes
<1>13. /\ Stream(upStream)' /\ Numbers(upStream)' = Numbers(upStream)
       /\ \A j, k : After(j, k)' = After(j, k)
  <2>1. PICK s : s = upStream
    OBVIOUS
  <2>2. Stream(s)'
    BY <1>2, <2>1, StreamKept DEF Flow
  <2>3. s = upStream'
    BY <1>2, <2>1 DEF upStream
  <2>4. Stream(upStream)'
    BY <2>2, <2>3 DEF Stream
  <2> QED
    BY <1>2, <2>1, <2>3, <2>4 DEF Numbers, After
<1>14. state' # "drop" => FromStart(upStream)'
  BY <1>2 DEF ReadSoFar, FromStart, upStream
<1>15. /\ state' = "payload" => buffer' # <<>> /\ bytes_to_read' = Size(buffer[1][1])'
       /\ state' = "drop" /\ bytes_to_read' = 0 => FromStart(up)'
       /\ state' = "drop" /\ bytes_to_read' > 0 =>
            up' # <<>> /\ up'[1][2] + bytes_to_read' = Size(up[1][1])' + 1
  BY <1>2 DEF ReadSoFar, FromStart, Size
<1>16. CASE /\ got' = bytes /\ UNCHANGED received /\ place' \in {"preamble", "header", "payload"}
            /\ place' = "payload" => bytes # <<>> /\ Len(bytes) <= Header + DecodePayload(bytes)
            /\ place' = "header" => Len(bytes) <= Header
            /\ place' = "preamble" => Len(bytes) <= Preamble
  <2>1. downStream' = downStream /\ Done' = Done
    BY <1>2, <1>7, <1>16 DEF downStream, Done
  <2>2. Kept'
    BY <1>2, <1>8, <1>16 DEF Kept, SentBytes
  <2>3. InOrder(dispatched)' /\ InOrder(received)'
    BY <1>2, <1>16 DEF InOrder
  <2>4. Stream(downStream)' /\ Numbers(downStream)' = Numbers(downStream)
    <3>1. PICK s : s = downStream
      OBVIOUS
    <3>2. Stream(s)'
      BY <1>2, <3>1, StreamKept DEF Flow
    <3>3. Stream(downStream)'
      BY <2>1, <3>1, <3>2 DEF Stream
    <3> QED
      BY <2>1, <3>3 DEF Numbers
  <2>5. Flow'
    BY <1>2, <1>13, <1>16, <2>1, <2>4 DEF Flow, Later
  <2>6. Wanted' = CASE place' = "preamble" -> Preamble
                    [] place' = "header" -> Header
                    [] place' = "payload" -> Header + DecodePayload(bytes)
    BY <1>2, <1>16 DEF Wanted, DecodePayload
  <2>7. Len(got') <= Wanted' /\ (place' = "payload" => got' # <<>>)
    BY <1>16, <2>6
  <2>8. FromStart(downStream)'
    BY <1>2, <2>1 DEF ReadSoFar, FromStart
  <2> QED
    BY <1>12, <1>14, <1>15, <2>2, <2>3, <2>5, <2>7, <2>8 DEF ReadSoFar
<1>17. CASE Len(bytes) < Wanted
  <2>1. got' = bytes /\ UNCHANGED <<place, received>>
    BY <1>1, <1>6, <1>17 DEF Received
  <2>2. place = "payload" => bytes # <<>> /\ DecodePayload(bytes) = DecodePayload(got)
    <3> SUFFICES ASSUME place = "payload"
                 PROVE  bytes # <<>> /\ DecodePayload(bytes) = DecodePayload(got)
      OBVIOUS
    <3>1. got # <<>>
      BY <1>2 DEF ReadSoFar
    <3>2. bytes # <<>>
      BY <1>3, <1>5, <1>8, <3>1, EmptySeq
    <3> QED
      BY <1>9, <1>10, <3>1, <3>2 DEF DecodePayload
  <2>3. /\ place = "payload" => Len(bytes) <= Header + DecodePayload(bytes)
        /\ place = "header" => Len(bytes) <= Header
        /\ place = "preamble" => Len(bytes) <= Preamble
    BY <1>8, <2>2 DEF Wanted
  <2> QED
    BY <1>16, <2>1, <2>2, <2>3 DEF Kept
<1>18. CASE Len(bytes) = Wanted
  <2>1. CASE place = "preamble"
    <3>1. Wanted = Preamble
      BY <2>1 DEF Wanted
    <3>2. got' = bytes /\ received' = received /\ place' = "header"
      BY <1>1, <1>6, <1>18, <2>1 DEF Received
    <3>3. Len(bytes) <= Header
      BY <1>18, <3>1, FramingAssumption
    <3> QED
      BY <1>16, <3>2, <3>3
  <2>2. CASE place = "header"
    <3>1. got' = bytes /\ received' = received /\ place' = "payload" /\ Len(bytes) = Header
      BY <1>1, <1>6, <1>18, <2>2 DEF Received, Wanted
    <3>2. bytes # <<>> /\ Len(bytes) \in Nat
      BY <1>8, <3>1, EmptySeq, FramingAssumption
    <3>3. DecodePayload(bytes) \in Nat
      <4>1. bytes[1][1] \in 1 .. Len(sent)
        BY <1>8, <3>2, FirstByte
      <4>2. sent[bytes[1][1]] \in Payloads
        BY <1>3, <4>1
      <4> QED
        BY <4>2, FramingAssumption DEF DecodePayload
    <3>4. Len(bytes) <= Header + DecodePayload(bytes)
      BY <3>1, <3>2, <3>3
    <3> QED
      BY <1>16, <3>1, <3>2, <3>4
  <2>3. CASE place = "payload"
    <3>1. got # <<>> /\ downStream # <<>> /\ downStream[1] = got[1] /\ Wanted = Size(i)
      BY <1>2, <1>10, <2>3 DEF ReadSoFar, Wanted, DecodePayload, Size
    <3>2. PICK m : m = i
      OBVIOUS
    <3>3. /\ m \in 1 .. Len(sent) /\ m \in Numbers(downStream) /\ Size(m) \in 1 .. Len(downStream)
          /\ SubSeq(downStream, 1, Size(m)) = Message(m)
          /\ FromStart(SubSeq(downStream, Size(m) + 1, Len(downStream)))
          /\ Later({m}, Numbers(SubSeq(downStream, Size(m) + 1, Len(downStream))))
      BY <1>11, <3>1, <3>2
    <3>4. Len(got) + n = Size(m)
      BY <1>8, <1>18, <3>1, <3>2
    <3>5. bytes = Message(m) /\ down' = SubSeq(downStream, Size(m) + 1, Len(downStream))
      BY <1>7, <3>3, <3>4
    <3>6. bytes[1][1] = m
      <4>1. bytes # <<>>
        <5>1. Len(bytes) > 0
          BY <1>8, <3>3, <3>4
        <5> QED
          BY <5>1, EmptySeq
      <4> QED
        BY <1>9, <3>2, <4>1
    <3>7. Whole(bytes) = m
      BY <3>5, <3>6 DEF Whole
    <3>8. place' = "preamble" /\ got' = <<>> /\ received' = Append(received, m)
      BY <1>1, <1>6, <1>18, <2>3, <3>7 DEF Received
    <3>9. PICK s : s = down'
      OBVIOUS
    <3>10. /\ Stream(s) /\ Numbers(s) \subseteq Numbers(downStream) /\ FromStart(s)
           /\ Later({m}, Numbers(s))
      <4>1. Size(m) \in 0 .. Len(downStream)
        BY <3>3
      <4> QED
        BY <1>2, <3>3, <3>5, <3>9, <4>1, StreamRest DEF Flow
    <3>11. downStream' = s
      BY <1>8, <3>8, <3>9, ConcatEmptySeq DEF downStream
    <3>12. received \in Seq(1 .. Len(sent)) /\ Later(Range(received), {m})
      BY <1>2, <3>3 DEF Kept, Flow, Later
    <3>13. /\ InOrder(received') /\ received' \in Seq(1 .. Len(sent))
           /\ Range(received') = Range(received) \cup {m}
      BY <3>3, <3>8, <3>12, InOrderAppend
    <3>14. InOrder(dispatched)' /\ InOrder(received)'
      BY <1>2, <3>13 DEF InOrder
    <3>15. Kept'
      <4>1. got' \in Seq(SentBytes)
        BY <3>8, EmptySeq
      <4> QED
        BY <1>2, <1>8, <3>8, <3>13, <4>1 DEF Kept, SentBytes
    <3>16. Stream(downStream)' /\ Numbers(downStream)' = Numbers(s)
      <4>1. Stream(s)'
        BY <1>2, <3>10, StreamKept
      <4>2. Stream(downStream)'
        BY <3>11, <4>1, DownStreamIs
      <4> QED
        BY <3>11, <4>2 DEF Numbers
    <3>17. Done' = Done \cup {m}
      BY <1>2, <3>13 DEF Done
    <3>18. Flow'
      <4>1. Later({m}, Numbers(upStream)) /\ (attempt > 0 => After(m, Len(sent)))
        BY <1>2, <3>3 DEF Flow, Later
      <4>2. Later(Done \cup Numbers(downStream), Numbers(upStream))'
        BY <1>2, <1>13, <3>10, <3>16, <3>17, <4>1 DEF Flow, Later
      <4>3. Later(Range(received), Numbers(downStream))'
        BY <1>2, <1>13, <3>10, <3>13, <3>16 DEF Flow, Later
      <4>4. attempt > 0 => Later(Done \cup Numbers(downStream) \cup Numbers(upStream), {Len(sent)})'
        BY <1>2, <1>13, <3>10, <3>16, <3>17, <4>1 DEF Flow, Later
      <4> QED
        BY <1>2, <1>13, <3>16, <4>2, <4>3, <4>4 DEF Flow
    <3>19. FromStart(downStream)' /\ Len(got') <= Wanted'
      BY <3>8, <3>10, <3>11, EmptySeq, FramingAssumption DEF FromStart, Wanted
    <3> QED
      BY <1>12, <1>14, <1>15, <3>8, <3>14, <3>15, <3>18, <3>19 DEF ReadSoFar
  <2> QED
    BY <2>1, <2>2, <2>3 DEF Kept
<1>19. Len(bytes) < Wanted \/ Len(bytes) = Wanted
  <2>1. Len(bytes) \in Nat
    BY <1>8, LenProperties
  <2> QED
    BY <1>4, <1>8, <2>1
<1> QED
  BY <1>17, <1>18, <1>19

\* After a reconnect there are new streams, and the sender goes on where it was.
LEMMA WholeReconnect ==
  ASSUME WholeIInv, NEW noticed \in BOOLEAN, Reconnect(noticed)
  PROVE  WholeIInv'
<1> USE DEF WholeIInv
<1>1. FramingIInv'
  BY FramingStep DEF Next
<1>2. /\ link # "torn" /\ Flow /\ ReadSoFar
      /\ UNCHANGED <<sent, attempt, err, dispatched, received, failed, dropped>>
      /\ up' = <<>> /\ down' = <<>> /\ buffer' = <<>> /\ state' = "preamble"
      /\ lost' = DOMAIN sent \ Range(received)
      /\ \/ link' = "up" /\ place' = "preamble" /\ got' = <<>>
         \/ link' = "torn" /\ UNCHANGED <<place, got>>
  BY DEF Reconnect, Reset, sender
<1>3. Kept'
  <2>1. DOMAIN sent = 1 .. Len(sent)
    BY LenProperties DEF FramingIInv, StreamOK
  <2> QED
    BY <1>2, <2>1, EmptySeq DEF Kept, SentBytes
<1>4. InOrder(dispatched)' /\ InOrder(received)'
  BY <1>2 DEF InOrder
<1>5. ASSUME link' = "up", place' = "preamble", got' = <<>> PROVE ReadSoFar' /\ Flow'
  <2>1. upStream' = <<>> /\ downStream' = <<>>
    <3>1. <<>> \o <<>> = <<>>
      BY ConcatEmptySeq, EmptySeq
    <3> QED
      BY <1>2, <1>5, <3>1 DEF upStream, downStream
  <2>2. Len(<<>>) = 0 /\ <<>> \in Seq(SentBytes')
    BY EmptySeq
  <2>3. Stream(upStream)' /\ Stream(downStream)' /\ Numbers(upStream)' = {} /\ Numbers(downStream)' = {}
    BY <2>1, <2>2 DEF Stream, Numbers
  <2>4. Done' = Done /\ \A j, k : After(j, k)' = After(j, k)
    BY <1>2 DEF Done, After
  <2>5. Flow'
    BY <1>2, <2>3, <2>4 DEF Flow, Later
  <2>6. ReadSoFar'
    BY <1>2, <1>5, <2>1, <2>2, FramingAssumption DEF ReadSoFar, FromStart, Wanted
  <2> QED
    BY <2>5, <2>6
<1> QED
  BY <1>1, <1>2, <1>3, <1>4, <1>5

LEMMA WholeStep == WholeIInv /\ [Next]_vars => WholeIInv'
<1> SUFFICES ASSUME WholeIInv, [Next]_vars PROVE WholeIInv'
  OBVIOUS
<1>1. ASSUME NEW n \in Payloads, Send(n) PROVE WholeIInv'
  BY <1>1, WholeSend
<1>2. CASE SendMsg \/ SendMsgFails \/ ShortWrite
  BY <1>2, WholeAttempt
<1>3. CASE RouterRead \/ ReadAndDrop \/ Receive
  BY <1>3, WholeRouter, WholeDrop, WholeReceive
<1>4. CASE ReadNothing \/ UNCHANGED vars
  <2>1. FramingIInv'
    BY FramingStep DEF WholeIInv
  <2>2. UNCHANGED <<sent, attempt, err, up, state, buffer, bytes_to_read, dispatched, down, place,
                    got, received, failed, dropped, lost>>
        /\ (link' = link \/ (link = "up" /\ link' = "closed"))
    BY <1>4 DEF ReadNothing, vars, sender, router, receiver
  <2>3. Kept' /\ InOrder(dispatched)' /\ InOrder(received)'
    BY <2>2 DEF WholeIInv, Kept, SentBytes, InOrder
  <2>4. upStream' = upStream /\ downStream' = downStream /\ Done' = Done
    BY <2>2 DEF upStream, downStream, Done
  <2>5. \A i : Size(i)' = Size(i)
    BY <2>2 DEF Size
  <2>6. SentBytes' = SentBytes /\ \A i, j : After(i, j)' = After(i, j)
    BY <2>2 DEF SentBytes, After
  <2>7. Stream(upStream)' = Stream(upStream) /\ Stream(downStream)' = Stream(downStream)
    BY <2>4, <2>5, <2>6 DEF Stream
  <2>8. Flow => Flow'
    BY <2>2, <2>4, <2>6, <2>7 DEF Flow, Later, Numbers
  <2>9. ReadSoFar => ReadSoFar'
    BY <2>2, <2>4, <2>5 DEF ReadSoFar, FromStart, Wanted, DecodePayload
  <2> QED
    BY <2>1, <2>2, <2>3, <2>8, <2>9 DEF WholeIInv
<1>5. ASSUME NEW noticed \in BOOLEAN, Reconnect(noticed) PROVE WholeIInv'
  BY <1>5, WholeReconnect
<1> QED
  BY <1>1, <1>2, <1>3, <1>4, <1>5 DEF Next

(* Whatever recv returns at a time, however often sendmsg fails and the    *)
(* connection is lost, rtRouted dispatches messages that were sent, whole  *)
(* and in the order they were sent, and so does rtConnection_Read hand     *)
(* them on; none comes twice but one whose sendmsg failed.                 *)
THEOREM MessagesStayWhole == Spec => []WholeAndInOrder
<1>1. WholeIInv => WholeAndInOrder
  <2> SUFFICES ASSUME WholeIInv PROVE WholeAndInOrder
    OBVIOUS
  <2> USE DEF WholeIInv
  <2>1. Len(sent) \in Nat /\ Len(sent) <= MaxSent /\ MaxSent \in Nat
    BY LenProperties, FramingAssumption DEF FramingIInv, StreamOK, Kept
  <2>2. SentBytes \subseteq Bytes /\ 1 .. Len(sent) \subseteq 0 .. MaxSent
        /\ 1 .. Len(sent) \subseteq 1 .. MaxSent
    BY <2>1 DEF SentBytes, Bytes
  <2>3. up \in Seq(Bytes) /\ down \in Seq(Bytes) /\ buffer \in Seq(Bytes) /\ got \in Seq(Bytes)
    BY <2>2, SeqMonotonic DEF FramingIInv, StreamOK, Kept
  <2>4. dispatched \in Seq(0 .. MaxSent) /\ received \in Seq(0 .. MaxSent)
    BY <2>2, SeqMonotonic DEF Kept
  <2>5. TypeOK
    BY <2>1, <2>2, <2>3, <2>4 DEF FramingIInv, StreamOK, Sizes, Kept, TypeOK
  <2> QED
    BY <2>5 DEF WholeAndInOrder
<1>2. Spec => []WholeIInv
  BY WholeInit, WholeStep, PTL DEF Spec
<1> QED
  BY <1>1, <1>2, PTL
=============================================================================
