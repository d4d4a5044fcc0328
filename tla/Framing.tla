------------------------------ MODULE Framing ------------------------------
(***************************************************************************)
(* Messages as bytes: a client writes each message, header and payload,    *)
(* with one sendmsg (rtConnection_SendInternal); the router reads whatever *)
(* recv returns and goes on where it stopped (rtConnectedClient_Read), and *)
(* forwards a complete message (rtRouted_ForwardMessage); the receiving    *)
(* client reads preamble, rest of the header and payload, each with a loop *)
(* of recv (rtConnection_ReadUntil, rtConnection_Read).                    *)
(*                                                                         *)
(* The byte <<i, k>> is the k-th byte of the i-th message of the sender;   *)
(* sent[i] is its payload length.  A header is Header bytes long, of which *)
(* the first Preamble ones hold marker, version and header length.         *)
(*                                                                         *)
(* Three things tear the stream apart: sendmsg of a sender interrupted in  *)
(* the middle of a message, which is then sent again from its start;       *)
(* sendmsg of the router interrupted there, which then goes on with the    *)
(* next message; and con->fd replaced by a reconnecting sender while the   *)
(* reader has read a message by half.  The model records them              *)
(* (link = "torn") and stops there.                                        *)
(***************************************************************************)
EXTENDS Naturals, SequencesExt

CONSTANTS
  Preamble, Header,  \* RTMESSAGEHEADER_PREAMBLE_LENGTH, length of a header
  Payloads,          \* payload lengths clients send
  BufferSize,        \* RTMSG_CLIENT_READ_BUFFER_SIZE
  MaxSent            \* bound: messages sent

ASSUME FramingAssumption ==
  /\ Header \in Nat /\ Preamble \in 1 .. Header - 1
  /\ Payloads \subseteq Nat
  /\ BufferSize \in Nat /\ BufferSize >= 2 * Header
  /\ MaxSent \in Nat

VARIABLES
  link,                  \* "up", "closed" (by the router) or "torn"
  sent, attempt, err,    \* the sender: messages, attempt of the last one, its error
  up,                    \* bytes on the way to the router
  state,                 \* rtConnectedClient.state, or "drop": in ReadAndDropBytes
  buffer,                \* read_buffer up to bytes_read
  bytes_to_read,
  capacity,              \* read_buffer_capacity
  dispatched,            \* messages dispatched, 0 for one that is no message sent
  down,                  \* bytes on the way to the receiver
  place, got,            \* the receiver: what it reads, the message read so far
  received,              \* messages handed on by rtConnection_Read
  failed, dropped, lost  \* messages with a failed sendmsg; too large; lost with
                         \* the connection, or not forwarded

sender == <<sent, attempt, err>>
router == <<state, buffer, bytes_to_read, capacity, dispatched>>
receiver == <<place, got, received>>
downlink == <<link, down, lost>>
vars == <<link, sender, up, router, down, receiver, failed, dropped, lost>>

Smaller(a, b) == IF a < b THEN a ELSE b
Message(i) == [k \in 1 .. Header + sent[i] |-> <<i, k>>]

-----------------------------------------------------------------------------
(* The header.  Bytes decode to what was encoded if they are the ones a    *)
(* header was encoded to, and not (with some of the markers wrong) if not. *)

\* The start of the message that bytes begin with, up to its n-th byte.
Starts(bytes, n) == bytes = SubSeq(Message(bytes[1][1]), 1, n)

\* header_length, decoded from the preamble
DecodeLength(bytes) == Header

\* rtMessageHeader_Decode: the payload length
DecodePayload(bytes) == sent[bytes[1][1]]

\* The message that bytes are, whole and with nothing else.
Whole(bytes) == IF bytes = Message(bytes[1][1]) THEN bytes[1][1] ELSE 0

-----------------------------------------------------------------------------
(* rtConnection_SendInternal.                                              *)

Send(n) ==
  /\ link = "up" /\ attempt = 0 /\ Len(sent) < MaxSent
  /\ sent' = Append(sent, n)
  /\ attempt' = 1
  /\ err' = "OK"
  /\ UNCHANGED <<link, up, router, down, receiver, failed, dropped, lost>>

\* The end of an attempt.  err keeps the error of an earlier attempt, so that a
\* message sent after a failure is sent again, up to three times in all.
Attempted(e) ==
  /\ err' = IF e = "OK" THEN err ELSE e
  /\ attempt' = IF err' # "OK" /\ attempt < 3 THEN attempt + 1 ELSE 0

SendMsg ==
  /\ link = "up" /\ attempt > 0
  /\ up' = up \o Message(Len(sent))
  /\ Attempted("OK")
  /\ UNCHANGED <<link, sent, router, down, receiver, failed, dropped, lost>>

\* sendmsg fails without having written anything (EINTR, ENOMEM).
SendMsgFails ==
  /\ link = "up" /\ attempt > 0
  /\ Attempted("errno")
  /\ failed' = failed \cup {Len(sent)}
  /\ UNCHANGED <<link, sent, up, router, down, receiver, dropped, lost>>

\* Fewer bytes are written than asked for: the next attempt starts anew.
ShortWrite ==
  /\ link = "up" /\ attempt > 0
  /\ Attempted("FAIL")
  /\ link' = "torn"
  /\ UNCHANGED <<sent, up, router, down, receiver, failed, dropped, lost>>

-----------------------------------------------------------------------------
(* The router: rtConnectedClient_Read, once per select.                    *)

\* rtConnectedClient_Reset
Reset ==
  /\ state' = "preamble"
  /\ buffer' = <<>>
  /\ bytes_to_read' = Preamble

\* Variant: room for a payload only.
GrowForPayload(n, read) ==
  IF capacity < n - read THEN capacity' = n - read ELSE UNCHANGED capacity

\* Room for a whole message of "n" bytes, of which "read" are in the buffer.
Grow(n, read) ==
  IF capacity < n + read THEN capacity' = n + read ELSE UNCHANGED capacity

PreambleRead(bytes) ==
  IF ~Starts(bytes, Preamble)
  THEN Reset /\ UNCHANGED <<capacity, dispatched, downlink, dropped>>
  ELSE /\ state' = "header"
       /\ bytes_to_read' = DecodeLength(bytes)
       /\ buffer' = bytes
       /\ UNCHANGED <<capacity, dispatched, downlink, dropped>>

\* Variant: bytes_to_read is set to the payload length, not raised by it.
HeaderReadAssigned(bytes) ==
  /\ state' = "payload"
  /\ bytes_to_read' = DecodePayload(bytes)
  /\ buffer' = bytes
  /\ UNCHANGED <<capacity, dispatched, downlink, dropped>>

\* The header is decoded; the buffer may have to grow, which may fail: then the
\* payload is read and thrown away.
HeaderRead(bytes) ==
  LET n == Header + DecodePayload(bytes)
  IN  IF ~Starts(bytes, Header)
      THEN Reset /\ UNCHANGED <<capacity, dispatched, downlink, dropped>>
      ELSE \/ /\ state' = "payload"
              /\ bytes_to_read' = n
              /\ buffer' = bytes
              /\ Grow(n, Header)
              /\ UNCHANGED <<dispatched, downlink, dropped>>
           \/ /\ capacity < n + Header
              /\ state' = "drop"
              /\ bytes_to_read' = DecodePayload(bytes)
              /\ buffer' = <<>>
              /\ dropped' = dropped \cup {bytes[1][1]}
              /\ UNCHANGED <<capacity, dispatched, downlink>>

\* rtRouted_ForwardMessage: a header encoded anew, and the payload as read.  sendmsg
\* may fail, or write a part of it; the router goes on with the next message.
Forward(bytes) ==
  \/ /\ down' = down \o SubSeq(Message(bytes[1][1]), 1, Header)
                  \o SubSeq(bytes, Header + 1, Len(bytes))
     /\ UNCHANGED <<link, lost>>
  \/ /\ lost' = lost \cup {bytes[1][1]}
     /\ UNCHANGED <<link, down>>
  \/ /\ link' = "torn"
     /\ UNCHANGED <<down, lost>>

\* The message is complete: dispatched, and a grown buffer given back.
PayloadRead(bytes) ==
  /\ dispatched' = Append(dispatched, Whole(bytes))
  /\ Forward(bytes)
  /\ Reset
  /\ capacity' = BufferSize
  /\ UNCHANGED dropped

\* Variant: every recv is counted from the start of the buffer.
PartialFromStart(bytes) ==
  /\ buffer' = SubSeq(bytes, Len(buffer) + 1, Len(bytes))
  /\ UNCHANGED <<state, bytes_to_read, capacity, dispatched, downlink, dropped>>

\* recv has fewer bytes than the state asks for.
Partial(bytes) ==
  /\ buffer' = bytes
  /\ UNCHANGED <<state, bytes_to_read, capacity, dispatched, downlink, dropped>>

RouterRead ==
  /\ link = "up" /\ state # "drop" /\ up # <<>>
  /\ bytes_to_read > Len(buffer)
  /\ \E n \in 1 .. Smaller(Len(up), bytes_to_read - Len(buffer)) :
       LET bytes == buffer \o SubSeq(up, 1, n)
       IN  /\ up' = SubSeq(up, n + 1, Len(up))
           /\ IF Len(bytes) < bytes_to_read THEN Partial(bytes)
              ELSE \/ state = "preamble" /\ PreambleRead(bytes)
                   \/ state = "header" /\ HeaderRead(bytes)
                   \/ state = "payload" /\ PayloadRead(bytes)
  /\ UNCHANGED <<sender, receiver, failed>>

\* With nothing left to read of a message, recv is asked for no bytes and returns
\* zero, which is taken for the end of the stream: the client is disconnected.
ReadNothing ==
  /\ link = "up" /\ state # "drop" /\ up # <<>>
  /\ bytes_to_read = Len(buffer)
  /\ link' = "closed"
  /\ UNCHANGED <<sender, up, router, down, receiver, failed, dropped, lost>>

\* _rtConnection_ReadAndDropBytes; the daemon does nothing else meanwhile.
ReadAndDrop ==
  /\ link = "up" /\ state = "drop"
  /\ IF bytes_to_read = 0 THEN Reset /\ UNCHANGED up
     ELSE \E n \in 1 .. Smaller(Len(up), bytes_to_read) :
            /\ up' = SubSeq(up, n + 1, Len(up))
            /\ bytes_to_read' = bytes_to_read - n
            /\ UNCHANGED <<state, buffer>>
  /\ UNCHANGED <<link, sender, capacity, dispatched, down, receiver, failed, dropped, lost>>

-----------------------------------------------------------------------------
(* The receiver: rtConnection_ReadUntil and rtConnection_Read.             *)

\* Where the part of a message that is being read ends.
Wanted ==
  CASE place = "preamble" -> Preamble
    [] place = "header"   -> Header
    [] place = "payload"  -> Header + DecodePayload(got)

\* Bytes of the current part have come; the next part follows when it is complete.
Received(bytes) ==
  IF Len(bytes) < Wanted
  THEN got' = bytes /\ UNCHANGED <<place, received>>
  ELSE CASE place = "preamble" ->
              place' = "header" /\ got' = bytes /\ UNCHANGED received
         [] place = "header" ->
              place' = "payload" /\ got' = bytes /\ UNCHANGED received
         [] place = "payload" ->
              /\ place' = "preamble" /\ got' = <<>>
              /\ received' = Append(received, Whole(bytes))

Receive ==
  /\ link # "torn"
  /\ down # <<>> \/ Len(got) = Wanted
  /\ \E n \in Smaller(1, Wanted - Len(got)) .. Smaller(Len(down), Wanted - Len(got)) :
       /\ down' = SubSeq(down, n + 1, Len(down))
       /\ Received(got \o SubSeq(down, 1, n))
  /\ UNCHANGED <<link, sender, up, router, failed, dropped, lost>>

-----------------------------------------------------------------------------
(* The router goes away and comes back: all that was on the way is lost,   *)
(* and a recv that waits returns.  (A sender may also replace a connection *)
(* the router still has; see ConnReconnect.)                               *)

\* Whoever reconnects replaces con->fd.  The reader, if it notices first, starts
\* with a new message; otherwise it goes on reading what it was reading.
Reconnect(noticed) ==
  /\ link # "torn"
  /\ IF noticed \/ got = <<>>
     THEN link' = "up" /\ place' = "preamble" /\ got' = <<>>
     ELSE link' = "torn" /\ UNCHANGED <<place, got>>
  /\ up' = <<>> /\ down' = <<>>
  /\ Reset
  /\ capacity' = BufferSize
  /\ lost' = DOMAIN sent \ Range(received)
  /\ UNCHANGED <<sender, dispatched, received, failed, dropped>>

-----------------------------------------------------------------------------
Init ==
  /\ link = "up"
  /\ sent = <<>> /\ attempt = 0 /\ err = "OK"
  /\ up = <<>> /\ down = <<>>
  /\ state = "preamble" /\ buffer = <<>> /\ bytes_to_read = Preamble
  /\ capacity = BufferSize
  /\ dispatched = <<>>
  /\ place = "preamble" /\ got = <<>> /\ received = <<>>
  /\ failed = {} /\ dropped = {} /\ lost = {}

Next ==
  \/ \E n \in Payloads : Send(n)
  \/ SendMsg \/ SendMsgFails \/ ShortWrite
  \/ RouterRead \/ ReadNothing \/ ReadAndDrop
  \/ Receive
  \/ \E noticed \in BOOLEAN : Reconnect(noticed)

Spec == Init /\ [][Next]_vars

\* Every thread gets on, and recv returns bytes that are there.
FairSpec ==
  /\ Spec
  /\ WF_vars(SendMsg \/ SendMsgFails \/ ShortWrite)
  /\ WF_vars(RouterRead \/ ReadNothing \/ ReadAndDrop)
  /\ WF_vars(Receive)

-----------------------------------------------------------------------------
(* Properties.                                                             *)

Bytes == (1 .. MaxSent) \X Nat

\* Types of the variables.
TypeOK ==
  /\ link \in {"up", "closed", "torn"}
  /\ sent \in Seq(Payloads) /\ Len(sent) <= MaxSent
  /\ attempt \in 0 .. 3
  /\ err \in {"OK", "errno", "FAIL"}
  /\ up \in Seq(Bytes) /\ down \in Seq(Bytes) /\ buffer \in Seq(Bytes) /\ got \in Seq(Bytes)
  /\ state \in {"preamble", "header", "payload", "drop"}
  /\ bytes_to_read \in Nat /\ capacity \in Nat
  /\ place \in {"preamble", "header", "payload"}
  /\ dispatched \in Seq(0 .. MaxSent) /\ received \in Seq(0 .. MaxSent)
  /\ failed \cup dropped \cup lost \subseteq 1 .. MaxSent

\* Messages of a list are messages sent, whole, in the order they were sent, and
\* more than once only if a sendmsg of theirs failed.
InOrder(list) ==
  /\ 0 \notin Range(list)
  /\ \A j, k \in DOMAIN list : j < k =>
       list[j] < list[k] \/ (list[j] = list[k] /\ list[j] \in failed)

\* However recv cuts the two streams, and through failed writes and reconnects, the
\* router dispatches the messages it was sent and the receiver those it forwards.
WholeAndInOrder == TypeOK /\ InOrder(dispatched) /\ InOrder(received)

\* recv never writes past read_buffer, whatever the size of a message, and a message
\* larger than normal does not leave a larger buffer behind.
BufferFits ==
  /\ Len(buffer) <= capacity
  /\ state # "drop" => bytes_to_read <= capacity
  /\ state \in {"preamble", "header"} => capacity = BufferSize

\* A message that was sent arrives, unless a sendmsg of it failed, memory for it was
\* short, the connection was lost, or an empty payload before it made the router close
\* the connection.
Arrives ==
  \A i \in 1 .. MaxSent :
    i \in DOMAIN sent /\ attempt = 0 ~>
      \/ i \in Range(received) \cup dropped \cup lost \cup failed
      \/ link = "torn"
      \/ \E j \in DOMAIN sent : j <= i /\ sent[j] = 0
=============================================================================
