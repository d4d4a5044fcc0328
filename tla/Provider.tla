------------------------------- MODULE Provider -------------------------------
(***************************************************************************)
(* The data provider layer, src/dataProvider: a host process registers an   *)
(* object for each instance it provides (main of sample_provider_wifi.cpp)  *)
(* and answers requests from the callback thread of its connection          *)
(* (dmProviderHost.cpp, dmProvider.cpp); clients read and write instances,  *)
(* a list item by item and a tree object by object (dmClient.cpp,           *)
(* dmProviderDatabase.cpp), each query one request on the topic of the      *)
(* instance.                                                                *)
(*                                                                         *)
(* A step is one request sent, one handled, one answer taken, or a step of  *)
(* the registering thread that the callback thread can see.  Only the       *)
(* callback thread touches the provided objects, so a request is handled in *)
(* one step.  The objects are those of the sample: EndPointObject keeps     *)
(* what a transaction sets aside until endTransaction.                      *)
(***************************************************************************)
EXTENDS DataModel, FiniteSetsExt

CONSTANTS
  Registrations, \* the instances registered, in order
  FirstValues,   \* instance -> the properties it can give, with their values
  Settable,      \* object -> the properties it has a setter or a doSet for
  Staged,        \* the two properties a transaction of an end point sets aside
  CountOf, IdsOf, \* list part -> the properties of its parent that describe it
  Clients, Calls, \* clients, and the runQuery calls they may make
  MaxCalls,      \* bound: calls made by all clients, by their cost
  MaxFailures    \* bound: requests that time out and registrations that fail

All == "*"          \* the property of a query that ends in a dot
NoValue == ""
NoRequest == [op |-> "none"]
NoJob == [request |-> NoRequest, params |-> <<>>]

\* An instance is registered once.  A call: get or set, or a set whose text has no value
\* ("bare").  Its cost is what it counts for in the bound.
ASSUME ProviderAssumption ==
  /\ Registrations \in Seq(Range(Registrations)) /\ IsInjective(Registrations)
  /\ Range(Registrations) = DOMAIN FirstValues
  /\ DOMAIN FirstValues \cup {k.name : k \in Calls} \subseteq Names
  /\ \A k \in Calls : k.op \in {"get", "set", "bare"} /\ k.pairs \in Seq(Range(k.pairs))
  /\ MaxCalls \in Nat /\ MaxFailures \in Nat

VARIABLES
  reg,        \* the registering thread: registrations done, failed, and where it is
  subs,       \* listeners added that the router has not heard of, in order
  routes,     \* instances whose topic the router has a route for
  providers,  \* m_providers: instances whose object is in the map
  values,     \* the provided objects
  wire,       \* requests on the way to the router
  inbox,      \* requests that wait for the callback thread
  job,        \* the request it handles, with its parameters, or NoJob
  replies,    \* responses on the way to clients that wait for them
  at, stack,  \* of each client: where it is, and the calls of runGet it is in
  call,       \* of each client: its call of runQuery
  asked,      \* of each client: the request it waits for, or NoRequest
  ok,         \* of each client: what its last runGet or runSet returned
  shown,      \* of each client: what onResult was called with
  errors,     \* of each client: 1 once this call has called onError, else 0
  unmet,      \* of each client: the queries of this call that got no values
  calls, timeouts  \* cost of the calls and number of timeouts, for the bounds

hostVars == <<reg, subs, routes, providers>>
clientVars == <<at, stack, call, asked, ok, shown, errors, unmet>>
bounds == <<calls, timeouts>>
vars == <<hostVars, values, wire, inbox, job, replies, clientVars, bounds>>

-----------------------------------------------------------------------------
(* Registration: dmProviderHost::registerProvider.                         *)

Registering == reg.done < Len(Registrations)
Instance == Registrations[reg.done + 1]

Registered == reg' = [reg EXCEPT !.done = @ + 1, !.at = "listen"]

\* An instance of an object in the database gets a listener on its topic.
AddListener ==
  /\ Registering /\ reg.at = "listen"
  /\ ObjectOf(Instance) # NoObject
  /\ subs' = Append(subs, Instance)
  /\ reg' = [reg EXCEPT !.at = "insert"]
  /\ UNCHANGED <<routes, providers, values, wire, inbox, job, replies, clientVars, bounds>>

\* No such object, or rtConnection_AddListener fails; the sample goes on.
NotRegistered ==
  /\ Registering /\ reg.at = "listen"
  /\ \/ /\ ObjectOf(Instance) = NoObject
        /\ reg' = [reg EXCEPT !.done = @ + 1]
     \/ /\ ObjectOf(Instance) # NoObject
        /\ reg.refused + timeouts < MaxFailures
        /\ reg' = [reg EXCEPT !.done = @ + 1, !.refused = @ + 1]
  /\ UNCHANGED <<subs, routes, providers, values, wire, inbox, job, replies, clientVars, bounds>>

\* Only then is the object put into the map, which the callback thread reads.
InsertStarts ==
  /\ reg.at = "insert"
  /\ reg' = [reg EXCEPT !.at = "inserting"]
  /\ UNCHANGED <<subs, routes, providers, values, wire, inbox, job, replies, clientVars, bounds>>

\* Variant: the item of a list is entered under the name of its list.
InsertEndsByList ==
  /\ reg.at = "inserting"
  /\ providers' = providers \cup {IF Found[Instance].item THEN Front(Instance) ELSE Instance}
  /\ Registered
  /\ UNCHANGED <<subs, routes, values, wire, inbox, job, replies, clientVars, bounds>>

InsertEnds ==
  /\ reg.at = "inserting"
  /\ providers' = providers \cup {Instance}
  /\ Registered
  /\ UNCHANGED <<subs, routes, values, wire, inbox, job, replies, clientVars, bounds>>

\* The router hears of a listener.
Subscribed ==
  /\ subs # <<>>
  /\ subs' = Tail(subs)
  /\ routes' = routes \cup {Head(subs)}
  /\ UNCHANGED <<reg, providers, values, wire, inbox, job, replies, clientVars, bounds>>

-----------------------------------------------------------------------------
(* A request in the host: requestHandler.                                  *)

Properties(name) == Model[ObjectOf(name)].properties

\* decodeGetRequest: the properties asked for.
GetParams(r) ==
  CASE ObjectOf(r.name) = NoObject -> <<>>
    [] ObjectOf(r.name) # NoObject /\ r.property = All ->
         [i \in DOMAIN Properties(r.name) |->
            Info(ObjectOf(r.name), Properties(r.name)[i].name, FALSE)]
    [] OTHER -> <<Info(ObjectOf(r.name), r.property, FALSE)>>

\* decodeSetRequest: the pairs to set, each at its place in the text.  parseMultisetValue
\* drops a pair without a value; an unknown property is taken for writable, so that it is
\* reported.
WellFormed(pairs) == {i \in DOMAIN pairs : Len(pairs[i]) = 2}
SetParams(r) ==
  IF ObjectOf(r.name) = NoObject THEN <<>>
  ELSE [i \in WellFormed(r.pairs) |->
          Info(ObjectOf(r.name), r.pairs[i][1], TRUE) @@ [value |-> r.pairs[i][2]]]

Entry(p, v, fine) == [property |-> p.label, value |-> v, fine |-> fine]

\* dmProvider::doGet: a getter, or the doGet of the object, gives the value.
Got(name, params) ==
  [i \in DOMAIN params |->
     IF params[i].name \in DOMAIN values[name]
     THEN Entry(params[i], values[name][params[i].name], TRUE)
     ELSE Entry(params[i], NoValue, FALSE)]

InTransaction(params) == Cardinality(DOMAIN params) > 1

\* dmProvider::doSet takes the parameters one by one; one that is not writable, or has
\* no setter and no doSet, is reported and the rest goes on.
Takes(name, p) == p.writable /\ p.name \in Settable[ObjectOf(name)]
SetResults(name, params) ==
  [i \in DOMAIN params |->
     IF Takes(name, params[i]) THEN Entry(params[i], params[i].value, TRUE)
                               ELSE Entry(params[i], NoValue, FALSE)]

\* The parameters that set a property; the last of them decides.
Sets(name, params, property) ==
  {i \in DOMAIN params : Takes(name, params[i]) /\ params[i].name = property}
LastSet(name, params, property) == params[Max(Sets(name, params, property))].value

SetsAside(name, params, property) ==
  Sets(name, params, property) # {} /\ LastSet(name, params, property) # NoValue

\* Variant: what was set aside is committed as far as there is any.
CommitsSome(name, params) == \E p \in Staged : SetsAside(name, params, p)

\* endTransaction of EndPointObject: both or neither.
Commits(name, params) == \A p \in Staged : SetsAside(name, params, p)

\* The values of the object afterwards, with beginTransaction and endTransaction
\* around two parameters or more.
Kept(name, params) ==
  [p \in DOMAIN values[name] |->
     IF \/ Sets(name, params, p) = {}
        \/ InTransaction(params) /\ p \in Staged /\ ~Commits(name, params)
     THEN values[name][p]
     ELSE LastSet(name, params, p)]

\* A response reaches a client that still waits for it; it may hold no entry.
Reply(r, entries, raced) ==
  replies' = IF asked[r.client] = r
             THEN replies \cup {[to |-> r, entries |-> entries, raced |-> raced]}
             ELSE replies

\* The lookup in m_providers while another thread inserts is a data race: it may
\* find the new object or not, and miss any other.
MayFind(name) == name \in providers \/ (reg.at = "inserting" /\ name = Instance)
MayMiss(name) == name \notin providers \/ reg.at = "inserting"

\* The callback thread takes a request and decodes it.
Take ==
  /\ job = NoJob /\ inbox # <<>>
  /\ job' = [request |-> Head(inbox),
             params |-> IF Head(inbox).op = "get" THEN GetParams(Head(inbox))
                                                  ELSE SetParams(Head(inbox))]
  /\ inbox' = Tail(inbox)
  /\ UNCHANGED <<hostVars, values, wire, replies, clientVars, bounds>>

\* doGet or doSet of the object in the map; without one the result is empty, and its
\* status is RT_OK either way.
Handle ==
  LET r == job.request
  IN  /\ job # NoJob
      /\ job' = NoJob
      /\ \/ /\ MayFind(r.name) /\ r.op = "get"
            /\ Reply(r, Got(r.name, job.params), FALSE)
            /\ UNCHANGED values
         \/ /\ MayFind(r.name) /\ r.op = "set"
            /\ Reply(r, SetResults(r.name, job.params), FALSE)
            /\ values' = [values EXCEPT ![r.name] = Kept(r.name, job.params)]
         \/ /\ MayMiss(r.name)
            /\ Reply(r, <<>>, reg.at = "inserting")
            /\ UNCHANGED values
      /\ UNCHANGED <<hostVars, wire, inbox, clientVars, bounds>>

\* The router passes a request on, or answers that there is no one to take it, which
\* rtConnection_SendRequest turns into an error.
Route(r) ==
  /\ r \in wire
  /\ wire' = wire \ {r}
  /\ \/ /\ r.name \in routes
        /\ inbox' = Append(inbox, r)
        /\ UNCHANGED replies
     \/ /\ r.name \notin routes
        /\ Reply(r, <<>>, FALSE)
        /\ UNCHANGED inbox
  /\ UNCHANGED <<hostVars, values, job, clientVars, bounds>>

-----------------------------------------------------------------------------
(* A client: dmClientImpl.  A frame is a call of runGet: of a whole list    *)
(* (list) or not.                                                           *)
(*   count, ids   the queries for the number and the ids of the entries     *)
(*   item         the query for entry i, or of a frame that is no list for  *)
(*                its name and property                                     *)
(*   children     the call for child j                                      *)

Frame(name, property) ==
  [name |-> name, property |-> property,
   list |-> property = All /\ IsWholeList(name),
   step |-> IF property = All /\ IsWholeList(name) THEN "count" ELSE "item",
   num |-> 0, ids |-> <<>>, i |-> 1, j |-> 1, ok |-> TRUE]

Top(c) == Head(stack[c])
Last1(name) == name[Len(name)]

\* What a frame asks for next.
Target(f) ==
  CASE f.step = "count" -> [name |-> Front(f.name), property |-> CountOf[Last1(f.name)]]
    [] f.step = "ids" -> [name |-> Front(f.name), property |-> IdsOf[Last1(f.name)]]
    [] f.list /\ f.step = "item" -> [name |-> Append(f.name, f.ids[f.i]), property |-> All]
    [] OTHER -> [name |-> f.name, property |-> f.property]

\* The instance whose children a frame is at.
At(f) == IF f.list THEN Append(f.name, f.ids[f.i]) ELSE f.name

\* runQuery is called: runGet of a wildcard without an object returns at once.
Call(c, k) ==
  /\ at[c] = "idle" /\ calls + k.cost <= MaxCalls
  /\ calls' = calls + k.cost
  /\ call' = [call EXCEPT ![c] = k]
  /\ shown' = [shown EXCEPT ![c] = {}]
  /\ errors' = [errors EXCEPT ![c] = 0]
  /\ unmet' = [unmet EXCEPT ![c] = {}]
  /\ IF k.op = "get" /\ k.property = All /\ ObjectOf(k.name) = NoObject
     THEN /\ at' = [at EXCEPT ![c] = "returned"]
          /\ ok' = [ok EXCEPT ![c] = FALSE]
          /\ UNCHANGED stack
     ELSE /\ at' = [at EXCEPT ![c] = "running"]
          /\ stack' = [stack EXCEPT ![c] = <<Frame(k.name, k.property)>>]
          /\ UNCHANGED ok
  /\ UNCHANGED <<hostVars, values, wire, inbox, job, replies, asked, timeouts>>

Refused(c) == ObjectOf(Target(Top(c)).name) = NoObject \/ call[c].op = "bare"

\* runOneQuery sends the request of a query.  "ready" is a history variable: whether
\* registerProvider had returned for the name and the router had its route.
Ask(c) ==
  LET q == Target(Top(c))
      r == [client |-> c, op |-> call[c].op, name |-> q.name, property |-> q.property,
            pairs |-> call[c].pairs, no |-> timeouts,
            ready |-> q.name \in routes
                     /\ \E i \in 1 .. reg.done : Registrations[i] = q.name]
  IN  /\ at[c] = "running" /\ Top(c).step # "children"
      /\ ~Refused(c)
      /\ wire' = wire \cup {r}
      /\ asked' = [asked EXCEPT ![c] = r]
      /\ at' = [at EXCEPT ![c] = "waiting"]
      /\ UNCHANGED <<hostVars, values, inbox, job, replies, stack, call, ok, shown, errors,
                     unmet, bounds>>

Return(c, b) ==
  /\ ok' = [ok EXCEPT ![c] = b]
  /\ IF Len(stack[c]) = 1
     THEN /\ at' = [at EXCEPT ![c] = "returned"]
          /\ stack' = [stack EXCEPT ![c] = <<>>]
     ELSE /\ at' = [at EXCEPT ![c] = "running"]
          /\ stack' = [stack EXCEPT ![c] = [Tail(@) EXCEPT ![1].ok = b]]

Continue(c, f) ==
  /\ at' = [at EXCEPT ![c] = "running"]
  /\ stack' = [stack EXCEPT ![c] = <<f>> \o Tail(@)]
  /\ UNCHANGED ok

\* The loop over the entries goes on, or runGet returns.
NextItem(c, f) ==
  IF f.list /\ f.i < f.num
  THEN Continue(c, [f EXCEPT !.i = @ + 1, !.j = 1, !.step = "item"])
  ELSE Return(c, f.ok)

\* Past the query of an item.
Queried(c, f) ==
  IF call[c].recursive THEN Continue(c, [f EXCEPT !.step = "children", !.j = 1])
                       ELSE NextItem(c, f)

\* createQuery finds no object, or exec has a text it could not read: the query fails
\* before a request is made.
NoQuery(c) ==
  LET f == Top(c)
  IN  /\ at[c] = "running" /\ f.step # "children"
      /\ Refused(c)
      /\ errors' = [errors EXCEPT ![c] = 1]
      /\ IF f.step \in {"count", "ids"} \/ call[c].op # "get" THEN Return(c, FALSE)
         ELSE Queried(c, [f EXCEPT !.ok = FALSE])
      /\ UNCHANGED <<hostVars, values, wire, inbox, job, replies, call, asked, shown, unmet, bounds>>

\* getResultValue, read as what the caller takes it for: the last entry of the name,
\* whatever its status; one that failed has an empty text.  Without an entry the value
\* is 0: the number 0, or one id, "0".
ValueOf(entries, property, none, empty) ==
  LET fits == {i \in DOMAIN entries : entries[i].property = property}
  IN  CASE fits = {} -> none
        [] fits # {} /\ entries[Max(fits)].fine -> entries[Max(fits)].value
        [] OTHER -> empty

\* Variant: a mismatch is not reported.
WithIdsSilently(c, f, ids) ==
  /\ IF Len(ids) # f.num THEN Return(c, FALSE)
                         ELSE Continue(c, [f EXCEPT !.ids = ids, !.step = "item"])
  /\ UNCHANGED errors

\* The ids have to be as many as the number said.
WithIds(c, f, ids) ==
  IF Len(ids) # f.num
  THEN /\ errors' = [errors EXCEPT ![c] = 1]
       /\ Return(c, FALSE)
  ELSE /\ Continue(c, [f EXCEPT !.ids = ids, !.step = "item"])
       /\ UNCHANGED errors

\* splitString finds one id in a text without any, an empty one.
Ids(value) == IF value = <<>> THEN <<NoValue>> ELSE value

\* History: a query that got no values, for an instance or to describe a list, with
\* the number of items its list is said to have.
Unmet(f) == [name |-> Target(f).name, property |-> Target(f).property,
             describes |-> f.step # "item", num |-> f.num]

\* A query ended with these results.  A request that failed has none, and the status
\* RT_OK of a result that was never filled in: exec returns true whatever
\* makeRequest met.
Result(c, entries) ==
  LET f == Top(c)
      shows == {[name |-> Target(f).name, property |-> entries[i].property] :
                  i \in DOMAIN entries}
  IN  /\ asked' = [asked EXCEPT ![c] = NoRequest]
      /\ unmet' = [unmet EXCEPT ![c] = IF entries = <<>> THEN @ \cup {Unmet(f)} ELSE @]
      /\ CASE f.step = "count" ->
                /\ Continue(c, [f EXCEPT !.num = ValueOf(entries, Target(f).property, 0, 0),
                                         !.step = "ids"])
                /\ UNCHANGED <<errors, shown>>
           [] f.step = "ids" ->
                /\ WithIds(c, f, Ids(ValueOf(entries, Target(f).property, <<"0">>, <<>>)))
                /\ UNCHANGED shown
           [] OTHER ->
                /\ shown' = [shown EXCEPT ![c] = @ \cup shows]
                /\ IF call[c].op = "get" THEN Queried(c, f) ELSE Return(c, TRUE)
                /\ UNCHANGED errors

Answered(c) ==
  /\ \E p \in replies :
       /\ p.to = asked[c]
       /\ replies' = replies \ {p}
       /\ Result(c, p.entries)
  /\ UNCHANGED <<hostVars, values, wire, inbox, job, call, bounds>>

\* rtConnection_SendRequest gives up after five seconds; a response is released.
TimesOut(c) ==
  /\ at[c] = "waiting" /\ reg.refused + timeouts < MaxFailures
  /\ timeouts' = timeouts + 1
  /\ replies' = {p \in replies : p.to # asked[c]}
  /\ Result(c, <<>>)
  /\ UNCHANGED <<hostVars, values, wire, inbox, job, call, calls>>

\* Variant: the loop does not move on to the next child.
ChildAgain(c) ==
  LET f == Top(c)
      below == Children(ObjectOf(At(f)))
      name == Append(At(f), Last1(below[f.j]))
  IN  /\ at[c] = "running" /\ f.step = "children"
      /\ ObjectOf(At(f)) # NoObject
      /\ IF f.j > Len(below) THEN NextItem(c, f)
         ELSE /\ stack' = [stack EXCEPT ![c] = <<Frame(name, All)>> \o @]
              /\ UNCHANGED <<at, ok>>
      /\ UNCHANGED <<hostVars, values, wire, inbox, job, replies, call, asked, shown, errors,
                     unmet, bounds>>

\* One child of the object is read, and its success replaces that of what was read
\* before; or there is none left.
Child(c) ==
  LET f == Top(c)
      below == Children(ObjectOf(At(f)))
      name == Append(At(f), Last1(below[f.j]))
  IN  /\ at[c] = "running" /\ f.step = "children"
      /\ ObjectOf(At(f)) # NoObject
      /\ IF f.j > Len(below) THEN NextItem(c, f)
         ELSE /\ stack' = [stack EXCEPT ![c] =
                             <<Frame(name, All), [f EXCEPT !.j = @ + 1]>> \o Tail(@)]
              /\ UNCHANGED <<at, ok>>
      /\ UNCHANGED <<hostVars, values, wire, inbox, job, replies, call, asked, shown, errors,
                     unmet, bounds>>

\* objectInfo is a null pointer here, and is used.
Crash(c) ==
  /\ at[c] = "running" /\ Top(c).step = "children"
  /\ ObjectOf(At(Top(c))) = NoObject
  /\ at' = [at EXCEPT ![c] = "crashed"]
  /\ UNCHANGED <<hostVars, values, wire, inbox, job, replies, stack, call, asked, ok, shown,
                 errors, unmet, bounds>>

Leave(c) ==
  /\ at[c] = "returned"
  /\ at' = [at EXCEPT ![c] = "idle"]
  /\ UNCHANGED <<hostVars, values, wire, inbox, job, replies, stack, call, asked, ok, shown,
                 errors, unmet, bounds>>

-----------------------------------------------------------------------------
NoCall == [op |-> "none", name |-> <<>>, property |-> All, pairs |-> <<>>, recursive |-> FALSE,
           cost |-> 1]

Init ==
  /\ reg = [done |-> 0, at |-> "listen", refused |-> 0]
  /\ subs = <<>> /\ routes = {} /\ providers = {}
  /\ values = FirstValues
  /\ wire = {} /\ inbox = <<>> /\ job = NoJob /\ replies = {}
  /\ at = [c \in Clients |-> "idle"]
  /\ stack = [c \in Clients |-> <<>>]
  /\ call = [c \in Clients |-> NoCall]
  /\ asked = [c \in Clients |-> NoRequest]
  /\ ok = [c \in Clients |-> TRUE]
  /\ shown = [c \in Clients |-> {}]
  /\ errors = [c \in Clients |-> 0]
  /\ unmet = [c \in Clients |-> {}]
  /\ calls = 0 /\ timeouts = 0

Step(c) ==
  Ask(c) \/ NoQuery(c) \/ Answered(c) \/ TimesOut(c) \/ Child(c) \/ Crash(c) \/ Leave(c)

Host ==
  AddListener \/ NotRegistered \/ InsertStarts \/ InsertEnds \/ Subscribed
  \/ Take \/ Handle

Next ==
  \/ Host
  \/ \E r \in wire : Route(r)
  \/ \E c \in Clients : (\E k \in Calls : Call(c, k)) \/ Step(c)

Spec == Init /\ [][Next]_vars

\* The callback thread handles what it is given, the router passes requests on, and a
\* client goes on when it can: its wait ends by itself.
Fairness ==
  /\ WF_vars(Take) /\ WF_vars(Handle)
  /\ WF_vars(\E r \in wire : Route(r))
  /\ \A c \in Clients : WF_vars(Step(c))

FairSpec == Spec /\ Fairness

-----------------------------------------------------------------------------
(* Properties.                                                             *)

\* Types; a client waits for at most one request, and every response under way is to
\* a request somebody waits for.
TypeOK ==
  /\ reg.done \in 0 .. Len(Registrations)
  /\ reg.at \in {"listen", "insert", "inserting"}
  /\ Range(subs) \cup routes \cup providers \subseteq Range(Registrations)
  /\ at \in [Clients -> {"idle", "running", "waiting", "returned", "crashed"}]
  /\ \A c \in Clients : at[c] = "waiting" <=> asked[c] # NoRequest
  /\ \A p \in replies : asked[p.to.client] = p.to
  /\ errors \in [Clients -> {0, 1}]

\* The properties of the instances in a set.
Shows(instances) ==
  UNION {{[name |-> n, property |-> p.name] : p \in Range(Properties(n))} : n \in instances}

\* What a read covers: every property of the instances under the name, or the one it
\* asks for, and of those below if it is recursive; taken from the instances there are
\* and not by the recursion of runGet.
Covered(k) ==
  LET below == {n \in DOMAIN FirstValues : IsPrefix(k.name, n) /\ n # k.name}
      items == {n \in below : Len(n) = Len(k.name) + 1}
  IN  (IF k.property # All THEN {[name |-> k.name, property |-> k.property]}
       ELSE IF IsWholeList(k.name) THEN Shows(items)
       ELSE Shows({k.name} \cap DOMAIN FirstValues))
      \cup (IF k.recursive THEN Shows(below) ELSE {})

\* What describes a list agrees with what is registered below it: its parent object gives
\* the number and the ids of the items, one at least, nothing sets them, and whatever is
\* registered below the list is below one of the ids.
ListAgrees(list) ==
  LET parent == Front(list)
      num == CountOf[Last1(list)]
      ids == IdsOf[Last1(list)]
      given == FirstValues[parent]
  IN  /\ ObjectOf(parent) # NoObject /\ All \notin {num, ids}
      /\ parent \in DOMAIN FirstValues =>
           /\ {num, ids} \subseteq DOMAIN given \ Settable[ObjectOf(parent)]
           /\ {num, ids} \subseteq {p.name : p \in Range(Properties(parent))}
           /\ given[ids] \in Seq(Range(given[ids])) /\ given[ids] # <<>>
           /\ given[num] = Len(given[ids])
           /\ \A n \in DOMAIN FirstValues :
                IsPrefix(list, n) => \E id \in Range(given[ids]) : IsPrefix(Append(list, id), n)
           /\ \A id \in Range(given[ids]) : Append(list, id) \in Names

\* Where reads can be complete: lists are described as they are, items of lists are
\* registered and not the lists, what is registered below an object is an instance of
\* one, and the names that runGet makes may be asked for.
DataAgrees ==
  /\ \A n \in DOMAIN FirstValues : ~IsWholeList(n)
  /\ \A n \in {m \in Names : ObjectOf(m) # NoObject} :
       /\ \A m \in DOMAIN FirstValues : IsPrefix(n, m) => ObjectOf(m) # NoObject
       /\ IF IsWholeList(n) THEN ListAgrees(n)
          ELSE \A o \in Range(Children(ObjectOf(n))) : Append(n, Last1(o)) \in Names

\* A read of something in the database.  A recursive one for a property of a list is left
\* out: it would recurse into the list as if it were an item.
IsRead(k) ==
  /\ k.op = "get" /\ ObjectOf(k.name) # NoObject
  /\ k.property # All /\ k.recursive => ~IsWholeList(k.name)

\* What a query for one name is to show.
Asks(name, property) ==
  IF property # All THEN {[name |-> name, property |-> property]}
  ELSE Shows({name} \cap DOMAIN FirstValues)

Missed(c) == UNION {Asks(u.name, u.property) : u \in unmet[c]}

Undescribed(c) == \E u \in unmet[c] : u.describes

\* A read whose lists were described returns true and has shown exactly what it covers,
\* item by item and child by child, but for what its own queries asked for in vain -
\* lost, or met by a host that had not registered the object: an item whose answer is
\* lost is missing without a word, where dmClient.cpp:126 says that the read is to return
\* false.  dmClientImpl::runGet, getProviderByObjectName, buildProviderTree.
ReadIsComplete ==
  \A c \in Clients :
    at[c] = "returned" /\ IsRead(call[c]) /\ ~Undescribed(c)
      => ok[c] /\ shown[c] \cup Missed(c) = Covered(call[c])

\* Where the number or the ids of a list got no values, the notifier was told of an
\* error, but for the ids of a list of one item: the value 0 is taken for one id.
LostListIsTold ==
  \A c \in Clients :
    at[c] = "returned" /\ IsRead(call[c]) /\ Undescribed(c)
      => errors[c] > 0 \/ \E u \in unmet[c] : u.describes /\ u.num = 1

\* A call of runQuery that returns false has told the notifier of an error, unless it
\* named nothing in the database with a wildcard, where runGet returns silently.
FailureIsTold ==
  \A c \in Clients :
    at[c] = "returned" /\ ~ok[c] =>
      \/ errors[c] > 0
      \/ call[c].property = All /\ ObjectOf(call[c].name) = NoObject

\* What a caller can rely on: a read is complete up to its own unanswered queries, and a
\* list that could not be described and a call that returns false are told of.
ReadsTellTruth == TypeOK /\ ReadIsComplete /\ LostListIsTold /\ FailureIsTold

\* A request sent after its object was registered and routed is answered by the
\* object, with an entry for each property asked for or set, and an empty answer
\* only to a set without a pair or to a lookup that raced with an insertion.
RegisteredAnswers ==
  \A p \in replies :
    p.to.ready =>
      \/ p.entries = <<>> /\ p.raced
      \/ LET params == IF p.to.op = "get" THEN GetParams(p.to) ELSE SetParams(p.to)
         IN  /\ DOMAIN p.entries = DOMAIN params
             /\ \A i \in DOMAIN params : p.entries[i].property = params[i].label

\* A set of several properties changes the SSID and the status of an end point
\* together, to what it asked for, or neither, whatever else it could not set.
BothOrNeither ==
  [][\A n \in DOMAIN values :
       LET asks(p) == \E i \in DOMAIN job.params :
                        job.params[i].name = p /\ job.params[i].value = values'[n][p]
           changes(p) == values'[n][p] # values[n][p]
       IN  (/\ InTransaction(job.params) /\ Staged \subseteq DOMAIN values[n]
            /\ \E p \in Staged : changes(p))
             => \A p \in Staged : asks(p)]_vars

\* A call ends, in spite of lost answers and in the middle of a recursion; only one
\* that recurses below a name that is not in the database may end in a crash.
CallReturns ==
  \A c \in Clients :
    at[c] \in {"running", "waiting"} ~>
      at[c] = "returned" \/ (at[c] = "crashed" /\ ObjectOf(call[c].name) = NoObject)
=============================================================================
