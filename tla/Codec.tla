------------------------------- MODULE Codec -------------------------------
(***************************************************************************)
(* Conversions: the message header and its encoders, base64 for binary     *)
(* fields, and times in milliseconds.  A state is an input and what has    *)
(* been made of it so far; each step is a call of one function.            *)
(***************************************************************************)
EXTENDS Integers, Sequences

CONSTANTS
  Binaries, Texts,    \* what is encoded; what is decoded without having been encoded
  HeaderLists,        \* headers that one reader decodes, one after the other
  Memories,           \* what its memory for a header held before
  Limit,              \* RBUS_BINARY_DATA_SIZE_LIMIT
  Starts, Millis,     \* times, numbers of milliseconds
  Naps, MaxWakes,     \* lengths of waits in nanoseconds; a bound on their number
  MaxTopic            \* RTMSG_HEADER_MAX_TOPIC_LENGTH

Byte == 0 .. 255
UInt32 == {n \in Nat : n \div 65536 < 65536}
Second == 1000000000  \* in nanoseconds
Millisecond == 1000000
Pad == 64             \* "=" in base64
Other == 65           \* any that is no base64 character

\* A topic is an array of characters, 0 at and after its end.
IsTopic(t) ==
  /\ t \in [1 .. MaxTopic -> Byte]
  /\ \E n \in 0 .. MaxTopic - 1 : \A k \in 1 .. MaxTopic : t[k] = 0 <=> k > n

IsHeader(h) ==
  /\ h = [sequence_number |-> h.sequence_number, flags |-> h.flags,
          control_data |-> h.control_data, payload_length |-> h.payload_length,
          topic |-> h.topic, reply_topic |-> h.reply_topic]
  /\ {h.sequence_number, h.flags, h.control_data, h.payload_length} \subseteq UInt32
  /\ IsTopic(h.topic) /\ IsTopic(h.reply_topic)

\* A whole number of groups of three is within the limit of the text, too: 1026 bytes.
ASSUME CodecAssumption ==
  /\ Limit \in Nat /\ Limit % 3 = 0 /\ MaxTopic \in UInt32
  /\ \A b \in Binaries : b \in Seq(Byte)
  /\ \A t \in Texts : t \in Seq(0 .. Other) /\ t # <<>>
  /\ \A l \in HeaderLists : Len(l) \in Nat /\ \A i \in 1 .. Len(l) : IsHeader(l[i])
  /\ \A t \in Starts : t.sec \in Nat /\ t.nsec \in 0 .. Second - 1
  /\ Millis \subseteq Nat /\ Naps \subseteq Nat /\ MaxWakes \in Nat

VARIABLES input, output, stage

codecVars == <<input, output, stage>>

Failed == [error |-> "RT_ERROR"]

-----------------------------------------------------------------------------
(* rtEncoder: numbers of two and of four bytes, the most significant first *)
(* (htons, htonl), read at a place k of the buffer.                        *)

EncodeUInt16(n) == <<(n \div 256) % 256, n % 256>>

EncodeInt32(n) ==
  <<(n \div 16777216) % 256, (n \div 65536) % 256, (n \div 256) % 256, n % 256>>

DecodeUInt16(bytes, k) == 256 * bytes[k] + bytes[k + 1]

DecodeInt32(bytes, k) ==
  16777216 * bytes[k] + 65536 * bytes[k + 1] + 256 * bytes[k + 2] + bytes[k + 3]

-----------------------------------------------------------------------------
(* rtMessageHeader.                                                        *)

Marker == 43690
Version == 2
SizeWithoutStrings == 32

\* strlen
StrLen(topic) == CHOOSE n \in 0 .. MaxTopic - 1 : \A k \in 1 .. n + 1 : topic[k] = 0 <=> k = n + 1

\* rtEncoder_EncodeString
EncodeString(topic) == EncodeInt32(StrLen(topic)) \o [k \in 1 .. StrLen(topic) |-> topic[k]]

EncodeHeader(h) ==
  EncodeUInt16(Marker) \o EncodeUInt16(Version)
  \o EncodeUInt16(SizeWithoutStrings + StrLen(h.topic) + StrLen(h.reply_topic))
  \o EncodeInt32(h.sequence_number) \o EncodeInt32(h.flags)
  \o EncodeInt32(h.control_data) \o EncodeInt32(h.payload_length)
  \o EncodeString(h.topic) \o EncodeString(h.reply_topic)
  \o EncodeUInt16(Marker)

\* Variant: the header is decoded over what was there.
InitNothing(h) == h

NoTopic == [k \in 1 .. MaxTopic |-> 0]

\* rtMessageHeader_Init
InitHeader(h) ==
  [sequence_number |-> 0, flags |-> 0, control_data |-> 0, payload_length |-> 0,
   topic |-> NoTopic, reply_topic |-> NoTopic]

\* rtEncoder_DecodeStr: n characters from place at, without a 0 after them.
DecodeStr(topic, bytes, at, n) ==
  [k \in 1 .. MaxTopic |-> IF k <= n THEN bytes[at + k - 1] ELSE topic[k]]

DecodeHeader(h, bytes) ==
  LET n == DecodeInt32(bytes, 23)
      m == DecodeInt32(bytes, 27 + n)
  IN  IF DecodeUInt16(bytes, 1) # Marker \/ n >= MaxTopic THEN Failed
      ELSE IF m >= MaxTopic \/ DecodeUInt16(bytes, 31 + n + m) # Marker THEN Failed
      ELSE [sequence_number |-> DecodeInt32(bytes, 7), flags |-> DecodeInt32(bytes, 11),
            control_data |-> DecodeInt32(bytes, 15), payload_length |-> DecodeInt32(bytes, 19),
            topic |-> DecodeStr(h.topic, bytes, 27, n),
            reply_topic |-> DecodeStr(h.reply_topic, bytes, 31 + n, m)]

\* rtMessageHeader_Init, once for what rtConnection_Read receives
ClearHeader ==
  /\ input.kind = "header" /\ stage = "input"
  /\ output' = [header |-> InitHeader(input.memory), bytes |-> <<>>, count |-> 0]
  /\ stage' = "decoded"
  /\ UNCHANGED input

\* rtMessageHeader_Encode, of the next header that comes
SendHeader ==
  /\ input.kind = "header" /\ stage = "decoded"
  /\ output.count < Len(input.headers)
  /\ output' = [header |-> output.header,
                bytes |-> EncodeHeader(input.headers[output.count + 1]),
                count |-> output.count + 1]
  /\ stage' = "encoded"
  /\ UNCHANGED input

\* rtMessageHeader_Decode.  rtConnection_Read decodes a further header into the same
\* memory, without clearing it, when the rest of a message cannot be read.
ReceiveHeader ==
  /\ input.kind = "header" /\ stage = "encoded"
  /\ output' = [output EXCEPT !.header = DecodeHeader(output.header, output.bytes)]
  /\ stage' = "decoded"
  /\ UNCHANGED input

-----------------------------------------------------------------------------
(* rtBase64.  A character stands for its 6 bits, Pad or Other; three bytes *)
(* are a group of four characters.                                         *)

\* The bits that no byte gives are 0.
ByteAt(b, k) == IF k <= Len(b) THEN b[k] ELSE 0

\* The four characters of group g, counted from 0.
Group(b, g) ==
  LET x == ByteAt(b, 3 * g + 1)  y == ByteAt(b, 3 * g + 2)  z == ByteAt(b, 3 * g + 3)
  IN  <<x \div 4, ((x % 4) * 16) + (y \div 16), ((y % 16) * 4) + (z \div 64), z % 64>>

\* The bytes allocated by rtBase64_encode, for n to be encoded.
EncodedSize(n) == ((n * 4) \div 3) + 1 + (IF n % 3 # 0 THEN 4 ELSE 0)

\* A last group of one or two bytes has one character more, and padding.
EncodeBase64(b) ==
  LET last    == Len(b) % 3
      whole   == 4 * (Len(b) \div 3)
      chars   == whole + (IF last = 0 THEN 0 ELSE last + 1)
      written == whole + (IF last = 0 THEN 0 ELSE 4)
  IN  IF Len(b) > Limit THEN Failed
      ELSE [text |-> [k \in 1 .. written |->
                        IF k <= chars THEN Group(b, (k - 1) \div 4)[((k - 1) % 4) + 1] ELSE Pad],
            out_size |-> EncodedSize(Len(b))]

IsChar(c) == c < Pad

\* The three bytes of group g of a text of characters.
Ungroup(t, g) ==
  LET c(k) == IF IsChar(t[4 * g + k]) THEN t[4 * g + k] ELSE 0
  IN  <<c(1) * 4 + (c(2) \div 16), ((c(2) * 16) % 256) + (c(3) \div 4), ((c(3) * 64) % 256) + c(4)>>

\* num_padding_bytes
Padding(t) ==
  IF t[Len(t) - 1] = Pad THEN 2 ELSE IF t[Len(t)] = Pad THEN 1 ELSE 0

DecodeBase64(t) ==
  IF Len(t) > (Limit * 4) \div 3 \/ Len(t) % 4 # 0 THEN Failed
  ELSE LET pad     == Padding(t)
           whole   == IF pad = 0 THEN Len(t) ELSE Len(t) - 4
           written == 3 * (whole \div 4) + (IF pad = 0 THEN 0 ELSE 3 - pad)
       IN  IF \E k \in 1 .. Len(t) - pad : ~IsChar(t[k]) THEN Failed
           ELSE [bytes |-> [k \in 1 .. written |-> Ungroup(t, (k - 1) \div 3)[((k - 1) % 3) + 1]],
                 out_size |-> ((Len(t) * 3) \div 4) - pad]

Encode ==
  /\ input.kind = "binary" /\ stage = "input"
  /\ output' = EncodeBase64(input.bytes)
  /\ stage' = "encoded"
  /\ UNCHANGED input

\* No text is empty: that reads before its start.
Decode ==
  /\ \/ input.kind = "binary" /\ stage = "encoded" /\ output # Failed /\ output.text # <<>>
     \/ input.kind = "text" /\ stage = "input"
  /\ output' = DecodeBase64(IF input.kind = "binary" THEN output.text ELSE input.text)
  /\ stage' = "decoded"
  /\ UNCHANGED input

-----------------------------------------------------------------------------
(* rtTime, and the times of rtThreadPool.                                  *)

\* Variant: a fraction that is a whole second is kept.
LaterLazy(t, ms) ==
  LET nsec == t.nsec + ((ms % 1000) * Millisecond)
  IN  IF nsec > Second THEN [sec |-> t.sec + (ms \div 1000) + 1, nsec |-> nsec - Second]
      ELSE [sec |-> t.sec + (ms \div 1000), nsec |-> nsec]

\* rtTime_Later, timeAddMS
Later(t, ms) ==
  LET nsec == t.nsec + ((ms % 1000) * Millisecond)
  IN  IF nsec >= Second THEN [sec |-> t.sec + (ms \div 1000) + 1, nsec |-> nsec - Second]
      ELSE [sec |-> t.sec + (ms \div 1000), nsec |-> nsec]

\* rtTime_Elapsed
Elapsed(s, e) ==
  IF e.nsec >= s.nsec
  THEN (e.sec - s.sec) * 1000 + ((e.nsec - s.nsec) \div Millisecond)
  ELSE (e.sec - s.sec - 1) * 1000 + ((Second + e.nsec - s.nsec) \div Millisecond)

\* timeGetElapsed of the thread pool: nanoseconds where the fraction wraps
PoolElapsed(s, e) ==
  IF e.nsec >= s.nsec
  THEN (e.sec - s.sec) * 1000 + ((e.nsec - s.nsec) \div Millisecond)
  ELSE (e.sec - s.sec - 1) * 1000 + (Second + e.nsec - s.nsec)

\* rtTime_Compare
Compare(l, r) ==
  IF l.sec < r.sec \/ (l.sec = r.sec /\ l.nsec < r.nsec) THEN -1
  ELSE IF l.sec > r.sec \/ (l.sec = r.sec /\ l.nsec > r.nsec) THEN 1 ELSE 0

AddTime ==
  /\ input.kind = "time" /\ stage = "input"
  /\ output' = Later(input.start, input.ms)
  /\ stage' = "encoded"
  /\ UNCHANGED input

\* The clock, some nanoseconds later.
After(t, ns) ==
  [sec |-> t.sec + ((t.nsec + ns) \div Second), nsec |-> (t.nsec + ns) % Second]

\* The time is measured at the deadline or after it.
MeasureTime ==
  /\ input.kind = "time" /\ stage = "encoded"
  /\ \E late \in Naps \cup {0} :
       LET now == After(output, late)
       IN  output' = [late |-> late, elapsed |-> Elapsed(input.start, now),
                      order |-> Compare(now, input.start)]
  /\ stage' = "decoded"
  /\ UNCHANGED input

\* A limited wait of StopAllThread; "waited" and "borrowed" only record what happens.
BeginStop ==
  /\ input.kind = "stop" /\ stage = "input"
  /\ output' = [now |-> input.start, remaining |-> input.ms,
                waited |-> 0, wakes |-> 0, borrowed |-> FALSE]
  /\ stage' = "waiting"
  /\ UNCHANGED input

\* The thread wakes up and subtracts the time that has passed.
StopWakes ==
  /\ input.kind = "stop" /\ stage = "waiting"
  /\ output.remaining > 0 /\ output.wakes < MaxWakes
  /\ \E nap \in Naps :
       LET now == After(output.now, nap)
       IN  output' = [now |-> now,
                      remaining |-> output.remaining - PoolElapsed(output.now, now),
                      waited |-> output.waited + nap,
                      wakes |-> output.wakes + 1,
                      borrowed |-> output.borrowed \/ now.nsec < output.now.nsec]
  /\ UNCHANGED <<input, stage>>

-----------------------------------------------------------------------------
Inputs ==
       [kind : {"binary"}, bytes : Binaries]
  \cup [kind : {"text"}, text : Texts]
  \cup [kind : {"header"}, headers : HeaderLists, memory : Memories]
  \cup [kind : {"time", "stop"}, start : Starts, ms : Millis]

CodecInit == input \in Inputs /\ output = "nothing" /\ stage = "input"

CodecNext ==
  \/ ClearHeader \/ SendHeader \/ ReceiveHeader
  \/ Encode \/ Decode
  \/ AddTime \/ MeasureTime \/ BeginStop \/ StopWakes

CodecSpec == CodecInit /\ [][CodecNext]_codecVars

-----------------------------------------------------------------------------
(* Properties.                                                             *)

Done(kind) == stage = "decoded" /\ input.kind = kind

\* The numbers of g are those of h.
SameNumbers(g, h) ==
  /\ g.sequence_number = h.sequence_number /\ g.flags = h.flags
  /\ g.control_data = h.control_data /\ g.payload_length = h.payload_length

\* The string of t is that of u; t need not end where u ends.
StartsWith(t, u) == \A k \in 1 .. StrLen(u) : t[k] = u[k]

\* A header is received as it was sent, though topics are copied without their end: the
\* first one after Init whatever the memory held, and any later one in its numbers and the
\* characters of its topics.  A later topic has its end, too, when no header decoded into
\* the memory since Init had a longer one; else it keeps the tail of the longer one, as
\* the code does.
HeaderRoundTrip ==
  Done("header") /\ output.count > 0 =>
    LET h == input.headers[output.count]
        g == output.header
    IN  /\ output.count = 1 => g = h
        /\ SameNumbers(g, h)
        /\ StartsWith(g.topic, h.topic) /\ StartsWith(g.reply_topic, h.reply_topic)
        /\ (\A i \in 1 .. output.count : StrLen(input.headers[i].topic) <= StrLen(h.topic))
             => g.topic = h.topic
        /\ (\A i \in 1 .. output.count :
              StrLen(input.headers[i].reply_topic) <= StrLen(h.reply_topic))
             => g.reply_topic = h.reply_topic

\* Binary data arrives as it was sent, for every length of the last group.
BinaryRoundTrip == Done("binary") => output # Failed /\ output.bytes = input.bytes

\* Neither function writes more than it allocates: the text and its terminator, and
\* the bytes of any text, well formed or not.
ConversionsFit ==
  /\ input.kind = "binary" /\ stage = "encoded" /\ output # Failed =>
       Len(output.text) + 1 <= output.out_size
  /\ stage = "decoded" /\ input.kind \in {"binary", "text"} /\ output # Failed =>
       Len(output.bytes) = output.out_size

\* What was encoded is decoded to the same, within the memory allocated for it.
RoundTrips == HeaderRoundTrip /\ BinaryRoundTrip /\ ConversionsFit

\* A deadline is a proper time after its start, at the distance asked for; what has
\* passed at any later time is measured in the milliseconds completed.
TimesAgree ==
  /\ input.kind = "time" /\ stage = "encoded" => output.nsec \in 0 .. Second - 1
  /\ Done("time") =>
       /\ output.elapsed = input.ms + (output.late \div Millisecond)
       /\ output.order = IF input.ms = 0 /\ output.late = 0 THEN 0 ELSE 1

\* A limited wait of StopAllThread counts off at least what has passed, but for less than
\* a millisecond each time it wakes up (timeGetElapsed truncates): it ends that much late
\* and no later.  It counts off no more than has passed, and does not end early, unless it
\* woke up in a lower fraction of a second than it started from, where timeGetElapsed
\* takes nanoseconds for milliseconds.
StopCountsTime ==
  stage = "waiting" =>
    LET counted == input.ms - output.remaining
    IN  /\ output.waited \div Millisecond <= counted + output.wakes
        /\ ~output.borrowed => counted <= output.waited \div Millisecond

\* The functions that add, compare and subtract times agree with each other, and the
\* error of the pool's own one is as bounded as that.
TimesRight == TimesAgree /\ StopCountsTime
=============================================================================
