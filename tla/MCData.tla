------------------------------- MODULE MCData -------------------------------
(* Instances of List, HashMap and Codec for TLC.  A behaviour is about one  *)
(* of them: the states of the three add up, they do not multiply.           *)
EXTENDS List, HashMap, Codec, SequencesExt, TLC

VARIABLE subject

\* All keys in one bucket; one each; two by two; one bucket until the map has grown.
MCHashes ==
  {[k \in Key |-> 0], [k \in Key |-> k], [k \in Key |-> k \div 2], [k \in Key |-> 4 * k]}

\* Up to the limit and one more, with every length of the last group of three.
MCBinaries == BoundedSeq({0, 3, 255}, Limit + 1)
MCTexts == [1 .. 4 -> {0, 63, Pad, Other}] \cup [1 .. 8 -> {63, Pad}] \cup [1 .. 3 -> {63}]

MCTopics == {[k \in 1 .. MaxTopic |-> IF k <= n THEN c ELSE 0] : n \in 0 .. MaxTopic - 1, c \in {65, 255}}
MCHeader ==
  [sequence_number : {65535}, flags : {2}, control_data : {0}, payload_length : {0, 2147483647},
   topic : MCTopics, reply_topic : MCTopics]

MCHeaderLists == MCHeader \X MCHeader
MCMemories ==
  {h \in MCHeader : h.topic[MaxTopic - 1] = 255 /\ h.reply_topic[MaxTopic - 1] = 255}

MCStarts == [sec : {0, 2}, nsec : {0, 1, 499999999, 999000000, 999999999}]
MCMillis == {0, 1, 2, 500, 999, 1000, 1001, 2500}

NoInput == [kind |-> "none"]

Symmetry == Permutations(Item) \cup Permutations(Data) \cup Permutations(Value)

Init ==
  /\ subject \in {"list", "map", "codec"}
  /\ IF subject = "list" THEN ListInit
     ELSE /\ user = "borrowing"
          /\ front = Null /\ back = Null /\ free = Null /\ cursor = Null /\ sought = Null
          /\ next = [i \in Item |-> Null] /\ prev = next /\ data = next
          /\ size = 0 /\ allocated = {} /\ heap = {} /\ loop = "none"
          /\ items = <<>> /\ freed = <<>>
  /\ IF subject = "map" THEN MapInit
     ELSE /\ hasher = [k \in Key |-> 0] /\ copiesValues = FALSE
          /\ buckets = Empty /\ mapSize = 0 /\ copies = [x \in Key \cup Value |-> 0]
  /\ IF subject = "codec" THEN CodecInit
     ELSE input = NoInput /\ output = "nothing" /\ stage = "input"

Next ==
  \/ subject = "list" /\ ListNext /\ UNCHANGED <<subject, mapVars, codecVars>>
  \/ subject = "map" /\ MapNext /\ UNCHANGED <<subject, listVars, codecVars>>
  \/ subject = "codec" /\ CodecNext /\ UNCHANGED <<subject, listVars, mapVars>>

Spec == Init /\ [][Next]_<<subject, listVars, mapVars, codecVars>>
=============================================================================
