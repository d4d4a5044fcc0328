------------------------------ MODULE MCProvider ------------------------------
(* The shape of the sample, with a list in a list: an end point with two adapters. *)
EXTENDS Provider

P(name, writable) == [name |-> name, writable |-> writable]

W == <<"WiFi">>
E == Append(W, "EndPoint")
A == Append(E, "Adapter")

MCModel ==
  W :> [isList |-> FALSE, properties |-> <<P("ENum", FALSE), P("EIds", FALSE)>>] @@
  E :> [isList |-> TRUE,
        properties |-> <<P("SSID", TRUE), P("Status", TRUE), P("Channel", FALSE),
                         P("ANum", FALSE), P("AIds", FALSE)>>] @@
  A :> [isList |-> TRUE, properties |-> <<P("Alias", TRUE)>>]

Item(o, i) == Append(o, i)
AdaptersOf(i) == Append(Item(E, i), "Adapter")
AdapterOf(i, j) == Item(AdaptersOf(i), j)

MCRegistrations ==
  <<<<"Sun">>, W, Item(E, "1"), AdapterOf("1", "1"), AdapterOf("1", "2")>>

MCNames ==
  {W, E, <<"Sun">>} \cup {Item(E, i) : i \in {"0", "1"}}
    \cup {AdaptersOf(i) : i \in {"0", "1"}}
    \cup {AdapterOf(i, j) : i \in {"0", "1"}, j \in {"0", "1", "2"}}

EndPointValues == "SSID" :> "s" @@ "Status" :> "t" @@ "ANum" :> 2 @@ "AIds" :> <<"1", "2">>
MCFirstValues ==
  <<"Sun">> :> <<>> @@
  W :> ("ENum" :> 1 @@ "EIds" :> <<"1">>) @@
  Item(E, "1") :> EndPointValues @@
  AdapterOf("1", "1") :> ("Alias" :> "a") @@ AdapterOf("1", "2") :> ("Alias" :> "b")

MCSettable == W :> {} @@ E :> {"SSID", "Status"} @@ A :> {}
MCStaged == {"SSID", "Status"}
MCCountOf == "EndPoint" :> "ENum" @@ "Adapter" :> "ANum"
MCIdsOf == "EndPoint" :> "EIds" @@ "Adapter" :> "AIds"

Get(name, property, recursive) ==
  [op |-> "get", name |-> name, property |-> property, pairs |-> <<>>,
   recursive |-> recursive, cost |-> IF recursive \/ name = AdaptersOf("1") THEN 2 ELSE 1]
Set(name, pairs) ==
  [op |-> "set", name |-> name, property |-> "set", pairs |-> pairs,
   recursive |-> FALSE, cost |-> 1]

MCCalls ==
  {Get(W, All, TRUE), Get(AdaptersOf("1"), All, FALSE), Get(Item(E, "1"), All, FALSE),
   Get(W, "ENum", FALSE), Get(Item(E, "1"), "SSID", TRUE), Get(<<"Sun">>, All, TRUE),
   Get(<<"Sun">>, "Name", TRUE),
   Set(Item(E, "1"), <<<<"SSID", "u">>, <<"Status", "v">>>>),
   Set(Item(E, "1"), <<<<"SSID", "w">>, <<"Channel", "9">>, <<"Status">>>>),
   Set(Item(E, "1"), <<<<"Status", "x">>>>),
   [Set(W, <<>>) EXCEPT !.op = "bare"]}

ASSUME ReadsCanBeComplete == DataAgrees
=============================================================================
