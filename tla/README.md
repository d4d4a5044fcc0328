# rtMessage in TLA+

Models, model-checking runs and proofs for rtMessage: a router daemon
(`rtrouted`), a client library (`rtConnection` and its helpers), and the thread
pool, containers, codecs and data-provider layer around them. Every definition is
a translation of the C source; line numbers below are lines of files of `src/`.
`PROJECT.json` maps each definition to its lines, and lists the runs, findings,
hazards and theorems.

## 1. The system

```
  application threads        reader thread   callback thread          other clients
     |  SendRequest             |  Read         |  callbacks                |
     v                          v               ^                           |
  +------------------- rtConnection ------------------+     socket     +----------+
  | pending_requests_list   listeners[64]   reconnect  |<------------->| rtrouted |
  +----------------------------------------------------+               |  clients |
                                                                       |  routes  |
  rtThreadPool: queue of tasks, workers, stop, destroy                 |  topic   |
  dmProviderHost / dmClient: get and set over requests                 |  tree    |
                                                                       +----------+
```

| component | state | operations | what is hard |
|---|---|---|---|
| topic routing tree, `rtRoutingTree.c` | topics with children, `routeList`, the cache `routeList2`, `isTable`; tree routes with their topics | add a route or alias, remove a route, remove a topic, look up a topic, a partial path or a route | pointers in both directions, a cache per topic, pruning after removals, row templates `{i}` standing for rows |
| router daemon, `rtrouted.c` | vectors of clients, listeners and routes, the tree, each client's inbox | accept, read, disconnect, subscribe/unsubscribe/alias, dispatch, discovery, advisories, diagnostics | any order of control messages of any clients; a client that dies between any two of them; a request whose provider is gone |
| requests, `rtConnection.c`, `rtSemaphore.c` | sequence number, pending list of stack entries, a semaphore and a response per entry, `con->mutex` | SendRequest, the response half of Read, the end of Destroy | timeouts racing with answers, late and repeated answers, failed sends and retries, destruction with requests pending |
| reconnect, `rtConnection.c` 304-489 | `reconnect_in_progress`, fd, state | ConnectAndRegister by whichever thread notices | one reconnect at a time, registering anew while the router may die again |
| listeners and callbacks, `rtConnection.c` 1260-1428, 1720-1918 | 64 slots, `callback_message_list`, `run_threads` | AddListener, RemoveListener, AddAlias, callback thread, stop | callback called without the mutex, slots reused, stop of waiting threads |
| thread pool, `rtThreadPool.c` | task list, `threadCount`, `busyThreadCount`, `isShutdown`, one mutex, two condition variables | RunTask, worker loop, StopAllThread, Destroy | lost wakeups, idle expiry, who frees the pool |
| byte stream, `rtConnection.c` 491-537, 1140-1258, 1471-1582, `rtrouted.c` 1548-1678 | per client of the daemon: state, bytes read, a buffer that grows; per connection: con->fd | write a message, resume a partial header or payload, forward | any split of the stream, failed and repeated writes, a socket replaced under the reader |
| key exchange, `rtCipher.c`, `rtrouted.c` 1322-1367 | a cipher per connection, a cipher and a key per client of the daemon | two messages of the client, one response | run by the thread that reconnects, which may have to read its own response |
| list, `rtList.c` | items in two directions, a chain of freed items with their data | insert, remove, find, remove by comparison, destroy | pointers at both ends, recycled items, who destroys the data |
| vector and hash map, `rtVector.c`, `rtHashMap.c` | growing array; buckets, copies of keys and values | push, remove, find; set, get, remove, resize | room behind the end, growing while setting |
| header, encoders, base64, times | none | encode, decode, later, elapsed, compare | widths, carries, decoding into used memory |
| data providers, `dataProvider/` | objects of a host by instance name, the data model, transactions | register, get, set, wildcard, list and recursive reads | lost answers in the middle of a read, requests during registration, partly refused sets |
| retainable, `rtRetainable.c` | reference count | retain, release | release by two threads |

The parts meet as follows. A client's listener is one entry of the router's
vector, named by its client and its listener id (`route_id`); the router puts
that id into the header of every message it forwards, and the callback thread
finds the listener by it. A request carries its sender's inbox as reply topic;
the answer comes back by the sequence number. When the router finds no route
for a request it turns the header around as `rtMessageFlags_Undeliverable`, so
the caller need not wait for its timeout. When a connection closes, the router
removes the client's routes from vector and tree and tells the listeners of the
advisory topic.

### What makes each part correct

- Router: exactly the holders of a topic get a message to it, in whatever order
  topics were registered, aliased and removed; no list the router follows holds
  freed memory; a partial path finds everything below it; a request is delivered
  or returned; disconnects are announced.
- Requests: a successful call returns its own response; every response is
  returned or released exactly once; the entry on a caller's stack is not used
  after the call; a call returns.
- Thread pool: every task accepted is run once unless the pool is stopped; the
  counters say what the workers do; a stop that reports success has let the work
  finish; the pool is freed when nobody uses it.
- Reconnect: one thread at a time replaces the socket; nobody waits for a reconnect
  that is over or never ends; a connection in use has its listeners registered; a stop
  ends the reader, wherever it is.
- Listeners: a callback gets the messages routed to it, in order and once; the
  router has routes for exactly the listeners of the connection; a stop ends both
  threads.
- Byte stream: whole messages come out in the order they went in, once, unless a
  write failed or was short or a socket was replaced; the buffer is never overrun.
- Key exchange: the two ends never hold different keys, and a connection in use comes to have one.
- Containers: pointers stand for a sequence, a map for a function; each object is
  owned once.
- Codecs: what is encoded is decoded, a header also after others into the same memory but
  for the tail a longer topic leaves; times agree with each other, and a limited wait
  counts what has passed up to a bounded error.
- Data providers: a read shows all that it covers and that was answered, and what it
  cannot do is told; a set of several values changes all or none of an end point.

## 2. Modules

| module | models | checked by |
|---|---|---|
| `RoutingTree` | `rtRoutingTree.c`: operators on a record `tree` | used by `Routed` |
| `Routed` | `rtrouted.c`: state and handlers of the daemon | `MCRouted` |
| `PubSub` | abstract: a table of registrations | property `ImplementsTable` of `Routed` |
| `ThreadPool` | `rtThreadPool.c`: lock regions of submitters, workers, stop, destroy | `MCThreadPool` |
| `ConnRequest` | requests over one connection | `MCConnRequest` |
| `Rpc` | abstract: calls that are given a response or none | property `ImplementsRpc` of `ConnRequest` |
| `ConnReconnect` | losing and regaining the router | `MCConnReconnect` |
| `KeyExchange` | extends `ConnReconnect` with the cipher, its exchange and the daemon's side of it | `MCKeyExchange` |
| `ConnListeners` | listeners, the message queue, the callback thread, the stop | `MCConnListeners` |
| `Framing` | bytes from a sender through the daemon to a receiver | `MCFraming` |
| `Sockets` | composes daemon and clients over bounded, blocking sockets | `MCSockets` |
| `List` | `rtList.c` on pointers | `MCData` |
| `Vector`, `HashMap` | `rtVector.c` as operators, `rtHashMap.c` as actions | `MCData` |
| `Dictionary` | abstract: a partial function | property `ImplementsDictionary` of `HashMap` |
| `Codec` | header, encoders, base64, times | `MCData` |
| `DataModel`, `Provider` | the database of objects; host and clients of the data-provider layer | `MCProvider` |
| `ThreadPool_proofs`, `KeyExchange_proofs` (also about `ConnReconnect`), `ConnRequest_proofs`, `ConnListeners_proofs`, `Framing_proofs`, `Data_proofs` (about `List`, `HashMap` and `Codec`), `Provider_proofs`, `Routed_proofs` | inductive invariants and theorems | TLAPS |

Definitions whose comment begins with "Variant:" are not used by the
specifications. Each is the definition below it with one plausible bug; put in
its place, it breaks the property that `mutants` in `PROJECT.json` pairs it
with.

### RoutingTree, Routed, PubSub

The tree is a record with four functions: the set of topics (a topic is the
sequence of its tokens, since the tree determines a topic's path) with a record
`childList`, `routeList`, `routeList2`, `isTable` for each; and `topicList`, the
topics of each allocated tree route. A tree route is a pair of the route entry
(client, listener id) and a generation number, so that a pointer to a freed tree
route stays different from one to its successor. (`NewTreeRoute` therefore never gives
out an address that a stale `routeList2` still holds, which `malloc` may.) Lists keep their order, since
`getChildByName` returns the first match: a literal child, `{i}` for a token
that is a row number or alias, or a wildcard.

`Routed` has the variables `clients`, `inboxes` (clients with an inbox
announced), `routes` (the vector), `tree`, `sent`, the set of what the last
handler passed to `sendmsg`, and the history variable `handled`, the event it handled. The daemon is one thread, so a handler is a step:

| action | handler |
|---|---|
| `Accept` | `rtRouted_AcceptClientConnection`, `rtRouted_RegisterNewClient` |
| `Disconnect` | the failed read in `main`: removal from the vector, advisory, `rtConnectedClient_Destroy` with `rtRouted_ClearClientRoutes` |
| `AddRoute`, `AddAlias`, `Unsubscribe`, `BadSubscribe` | the branches of `rtRouted_OnMessageSubscribe` |
| `Dispatch` | `rtRouter_DispatchMessageFromClient` with `rtRouted_ForwardMessage` and the undeliverable turn-around |
| `Discover` | the four discovery requests |

The clients are the environment, restricted to what the library does: plain
messages for listeners, requests for aliases, and removal of an expression only
when the client has a listener. `uses`, chosen at the start and constant, says
which expressions and ids the clients of a behaviour use (a workload), so that one
run covers workloads that would be too large together.

`PubSub` is what the daemon promises: a set of registrations; a publication goes
to exactly the holders of its topic; a plain registration is always accepted, an alias
exactly while its topic is not `closed`. A topic is closed by its first registration and
stays so without one, until the next removal of a listener or a client prunes what has
nothing at or below it any more (the tree keeps an empty `routeList` that long).
`Routed!ImplementsTable` maps the tree's `topicList` to the registrations, the topics
that have a `routeList` to the closed ones, and the forwarded messages to the deliveries;
caches, pruning, and the vector disappear. It requires of every event (`handled`) that
it is the step of the table meant for it, with its client, id and topic: not just any
step, so that an ignored registration or a message handed to the wrong topic, or to
nobody, violates it. It is checked by a run and proved (section 4).

### ThreadPool

A step is one lock region, or what a thread does between giving the lock back
and taking it again. A worker is at one of the places `none`, `created`,
`waiting`, `woken`, `expired` (its timed wait ended, the lock not yet taken),
`running`, `leaving` (about to test whether to free the pool), `freeing` and
`broken` (it touched a freed pool); the caller of stop and destroy is one thread. A signal wakes one waiting worker, and it is lost on a worker that is
already expiring; that is what `pthread_cond_timedwait` may do. `threadCount`
and `busyThreadCount` are `unsigned`; the type invariant says that they never
go below zero.

### ConnRequest

Callers, the reader thread and the thread that destroys the connection
interleave at `con->mutex`, the semaphore, and the end of a caller's stack frame.
`pending` is `pending_requests_list`, `sem` and `response` are the fields of a
caller's entry, `fate` follows each response from the responder that was asked through
reader, entry and release; a response under way is one whose responder was asked and
that has not been read. A send that fails is followed as it is written: `err` is not
reset, so up to two of the three `sendmsg` calls may have succeeded, each copy
reaches the listeners there are by then, and the entry goes (`SendFails`). The timeout branch goes to `dequeue_and_continue` *without* the mutex,
as the code does; its unlock fails harmlessly because the mutex is
`PTHREAD_MUTEX_ERRORCHECK`. `rtSemaphore_TimedWait` waits once, without a loop,
so a caller may wake with no response. A use of freed memory is undefined
behaviour: the model records it (`deadWrite`, `con = "freed"`) and does not
follow it. `late` is a history variable: the sequence numbers of requests that
timed out. The properties say that a lost response and a use of a dead entry come
from those only.

`Rpc` is what `rtConnection_SendRequest` promises: a call asks under a new number, again
under another one if the connection was lost, its request goes out once or, when the send
fails, up to twice, and the call is given at most one response: a client's, to the number
it asked under last, that no call was given before, and none to a request that went out
twice. It returns `RT_OK` exactly when it was given one. The mutex, the
list, the semaphores, the reader and the timeouts disappear; a response read, in an entry
or released is only "sent". `ReturnsOwnResponse` says the part of it that
can be seen in the state of one caller.

### ConnReconnect

Senders and the reader call `rtConnection_ConnectAndRegister` when `sendmsg` or
`recv` finds the connection gone. `link` is the state of the socket: `up`, `lost`
(the router closed it) or `unconnected` (a new socket, or one whose connect
failed); a write into a lost connection may succeed, for nothing. Which thread
may reconnect depends on comparisons of times with `con->reconnect_time` only, so
the model keeps their outcome, `fresh`. All senders share one time, as in the
code, and the owner renews it with each listener it sends.
`registered` is what the router knows of this client; a crash of the router
empties it.

`reading` says on which socket the reader's `recv` was called. It is called on what
`con->fd` is at that moment, and a sender that reconnects closes that descriptor
(`rtConnection.c:376`), which wakes nobody: the `recv` in progress keeps its socket. If
the router had closed that socket already, `recv` returns; if not (`replaced`), the reader
stays there, with a client the router still has, until the router closes it or a message
comes. A stop shuts down the new socket only.

### KeyExchange

What `ConnectAndRegister` does after the listeners when the connection has a
cipher, and the daemon's half of it. The owner of the reconnect stays at `register`;
`step` says how far its exchange is, `wire` what the daemon has not read of it,
`half`, `routerKey` what it has derived and what it uses. A key is an element of a
set that nobody holds before, because either end contributes to it. The response
must be read by the reader: it does so in its loop when a sender is the owner, and
in the nested branch of `rtConnection_SendRequestInternal` when it is the owner
itself. `secure` is chosen at the start, so that the run covers connections
without a cipher, too, which take the steps of `ConnReconnect`. The actions of
`ConnReconnect` are conjoined with what they do to the new variables;
`Lost` and `Fails` are new ways for a reconnect to end. With the cipher the reader waits
with `select` for a minute before it calls `recv`; the model takes the two as one wait,
which `ReadTimesOut` may end, though no fairness says that it does.

### ConnListeners

A step is one region under `con->mutex` or `callback_message_mutex`, or one
message to the router; between the two a listener is in the slots and not with
the router, or the other way round. `queue` is `callback_message_list`. The
callback thread reads `run_threads` at the three places where the code does, and
runs the callback (place `calling`) without a mutex. `stop` follows
`rtConnection_Destroy` through the reset of `run_threads`, the signal and the
joins. Ids are given out by a counter and never reused, so a closure is
identified by its id. Any thread may add and remove any expression, so the id that
`SendAdd` reads from the slot without the mutex may be 0 or another listener's: the router
then has a route without a listener, or takes the expression for an alias of the other
listener. A send may fail, unnoticed: the message is not written, or twice. Two history
variables name the expressions concerned: `overtaken`, with a listener that was removed
while it was being added, or whose listener's id was read for such a one; and `unsent`.
`RightListener` excuses the first, `RoutesFollowListeners` both, for the rest of the
behaviour, and nothing else. The router clears the first route of an expression, not the
one with the id of the message; the property says that this is enough.

### Framing

The byte `<<i, k>>` is the k-th byte of the i-th message, so that a reader that lost
its place is seen at once. `up` and `down` are the streams of the two sockets. The
daemon's reader takes any number of the bytes it asked for in a step and goes on
from `state`, `buffer` and `bytes_to_read`, the fields of `rtConnectedClient`; the
library's reader loops over `recv` (`place`, `got`). `sendmsg` may fail before it
has written anything, or write a part, the daemon's own too: a message it fails to
forward is `lost`, and it goes on with the next. A stream that the code cannot mend, a
short write followed by the message from its start or by the daemon's next one, or a new
socket under a reader in the middle of a message, is recorded as `torn` and not followed:
the properties say nothing of what comes after it. A reconnect loses
what is on the way and makes a new client of the daemon.

### Sockets

`Framing` has unbounded streams; here messages are whole and a socket holds
`Capacity` of them. The daemon reads a message only when it has sent on the last
one (`hand`). `lock` is `con->mutex`, held by an application or callback thread
until `sendmsg` returns, and needed by the reader for a response. Every thread gets
on whenever it can, the mutex and the daemon's choice of a client being fair.

### List, Vector, HashMap, Dictionary

`List` has the pointers of `rtList.c` as functions on items, and every function of
its API. Loops that call a comparison or a destroyer advance one item per step.
What must hold depends on how a list is used: `user` is one of the three ways in
which the library does (destroyer on every removal; none; recycled data), and
`heap` the objects of the user that exist. `items` and `freed` are the sequences the
pointers should stand for.

`Vector` is operators: what a push, a removal or a search makes of the array, its
count and its capacity. `HashMap` has an action for each operation of
`rtHashMap.c`; `hasher` is any of the functions in `Hashes`, so that keys collide
or do not, before and after a resize. `copies` counts the copies of keys and values
the map owns. Its refinement mapping to `Dictionary` is what `rtHashMap_Get`
returns for each key.

### Codec

A behaviour takes one input, calls the functions for it, and stops.
`EncodeHeader` and `DecodeHeader` are byte by byte, with numbers read at the place of the
buffer where the decoder has got to. A reader clears its memory once (`ClearHeader`, as
`rtConnection_Read` does at `rtConnection.c:1483`) and then receives one header or more
into it, as the retry loop of that function does when the rest of a message could not be
read or decrypted: topics are copied without their ends. The others are `EncodeBase64` with its length limit, and `DecodeBase64` with
padding and characters that are none, by groups of three bytes and four characters;
`rtTime_Later`, `rtTime_Elapsed` and `rtTime_Compare`, with the time measured a number of
nanoseconds after the deadline; and the loop of a limited wait of `StopAllThread`, which
subtracts what `timeGetElapsed` measures each time it wakes up, after any number of
nanoseconds (`StopWakes`; `waited`, `wakes` and `borrowed` are history). `CodecAssumption` says what the inputs are: the fields of a header
fit their width, a topic ends within its array, and the limit of binary data is a
multiple of three, as the code's 1026 is. With another limit the longest data that may be
encoded would be refused by the decoder, whose limit is four thirds of it, rounded down.

### DataModel, Provider

`DataModel` has the walk over a name that finds its object, skipping the ids of list
items. In `Provider` the host's main thread registers one object after the other
(listener, subscription, insertion into the map) while its callback thread handles
requests, each in one step since only this thread touches the objects. A client's
call of `runQuery` is a stack of calls of `runGet`, one query at a time. A query
may time out, before or after the host handled it, and a registration may fail.
The history variable `unmet` has the queries of a call that got no values, because they
or their answers were lost or the host had not registered the object. `getResultValue` is
`ValueOf`: the last entry of the name, whatever its status.
The instance has the shape of the Wi-Fi sample with a list in a list: an object without
properties, one with a number and ids, a list of one end point, two adapters below it.

## 3. Runs

Bounds are named in the modules (`MaxRoutes`, `MaxStale`, `MaxSeq`) or are the
sizes of the sets.

| run | result | shows |
|---|---|---|
| `routed` | holds | two clients, two listener ids each, one of three workloads: a branch of listeners and aliases beside and below each other; listeners and aliases at one topic and above each other; a table with row template, column and advisory listeners. No listed tree route is freed, and topics and routes list each other (`TreeConsistent`), `routeList2` misses nothing (`PartialQueryComplete`), a listener is not cut off by others' removals (`ListenerReachable`), rows reach the template (`RowsReachTemplate`), every event is its step of `PubSub` (`ImplementsTable`), a request is delivered or returned (`RequestNeverDropped`), a disconnect is announced (`DisconnectAdvised`) |
| `routed_stale_cache` | violated | `RouteList2Exact`, finding 1 |
| `pool` | holds | three tasks, three threads, limit two, expiring workers, stop, destroy: no task is lost, doubled, miscounted; `DoneUnlessExpired`: a task is run unless the pool is stopped or, while this very task was queued, an idle worker whose wait had timed out had not left yet; `StoppedWorkersEnd` |
| `pool_lost_wakeup` | violated | `TaskEventuallyDone`, finding 2 |
| `request` | holds | two callers, two responders, failed sends that leave up to two copies of the request, retries, timeouts, lost, late and double answers, spurious wakeups, destroy: requests implement `Rpc` (`ImplementsRpc`), `ResponseOwned`, `EntryAlive`, `RequestReturns` |
| `listeners` | holds | two threads that add and remove the same two expressions, two slots, two ids, two messages, sends that are not written or written twice, spurious wakeups, a stop: a callback gets messages of its own expression (`RightListener`), routes and listeners agree between the calls (`RoutesFollowListeners`), except for what sections 2 and 5 name; `HandledInOrder`, `MessagesHandled`, `StopReturns` |
| `reconnect` | holds | two senders and the reader, two listeners, with and without a cipher, a router that crashes and restarts at any time, a stop: `OneOwner`, `ListenersFollow`, `KeysAgree`, `KeyedUnlessSenderFailed`; every reconnect ends (`ReconnectEnds`), and a stop ends the reader (`StopEndsReader`), except where its owner waits for itself, and the reader is in `recv` on a socket replaced under it |
| `reconnect_interrupted` | violated | `ReaderKeepsRetrying`, finding 3 |
| `framing` | holds | two messages of no, one or four bytes, a header of three, a buffer of six: messages are whole and in order at the daemon and at the receiver (`WholeAndInOrder`), the read buffer is large enough and shrinks back (`BufferFits`), what was sent arrives unless a write failed or a connection was lost (`Arrives`); writes fail or are short on either side |
| `data` | holds | a list of three items in each of its three uses; a hash map of four keys and four hash functions through growing and shrinking; bounded inputs of the codecs. `ListCorrect` (pointers stand for a sequence, a search misses nothing, objects are owned once); `MapSound` (copies are owned once, no vector is read past its end) and `ImplementsDictionary`; `RoundTrips` (headers, the first into cleared memory and a further one into the same, and binary data, within what is allocated) and `TimesRight` (deadlines, and how far a limited wait may miss its end) |
| `provider` | holds | one client, calls of cost two in all, one failure: a read shows exactly what it covers but for its own unanswered queries, and a list that could not be described and a call that returns false are told of (`ReadsTellTruth`); `RegisteredAnswers`, `BothOrNeither`, `CallReturns` |
| `sockets` | violated | `ReaderContinues`, finding 4 |

Why the bounds are enough for the questions asked. In the tree every pointer
problem needs at most a topic, one above and one beside or below it, and two
owners; the instances have all of these, and two ids per client so that an
entry can be removed while another of the same client stays. `MaxRoutes = 2`
limits the vector, not the number of registrations over time; each entry may
have any number of aliases. `MaxStale = 2` allows one freed tree route beside
the live one of an entry; more would only repeat it. In the pool three tasks
exceed two workers, and a third thread can be created after the first expired.
With two callers there is one to be confused with the other; two sequence
numbers allow both to wait, or one to wait again after it timed out; the sequence
number's wrap at 2^32 is out of reach. Two senders and the reader are the owner of a
reconnect, one waiting for it and one that still fails; two listeners let a crash
fall between them; two keys let an old and a new one differ. With two slots, ids and
expressions a slot is used again by another thread while the first has yet to send. In `framing` the payload
of four bytes needs a larger buffer than six, a header and a payload can each be cut
at every byte, and the second message begins where the first ended. Three items are
a first, a last and one between; four keys let a map of two buckets grow and shrink.
The header of the run has topics of up to three characters, and numbers that fill
two and four bytes. In `provider` the calls that recurse or read a list cost two and
are made alone (so a read of a list in a list item, with two items of its own, and every
place to lose one of its answers are in the run, but no outer list of two items that have
children); two simple calls follow each other, with one failure at any of their
requests. `MCProvider` assumes of its data what `ReadsAreTruthful` assumes
(`DataAgrees`), so that the run shows data to be like that. The runs of `Routed` use a VIEW without `sent`: no action reads it, and
action properties are evaluated on every step. The symmetry sets of `routed` and
`data` permute values that no definition tells apart, and no liveness is checked
with them.

Deadlock is checked for the daemon. In the other models the system stops when it
has been destroyed or the bound on tasks, sequence numbers, ids, messages, calls or
inputs is used up, so it is not checked there; liveness is stated instead.

### Fairness

- `ThreadPool!FairSpec`: weak fairness of each worker's own steps and of the
  wake-up of the stopping thread. Workers are threads of the same process under
  a fair scheduler, and lock regions are short. Nothing makes an application
  submit or stop. `DoneUnlessExpired` excuses the tasks of finding 2.
- `ConnRequest!FairSpec`: `sendmsg` returns, a posted semaphore wakes its waiter,
  time passes (so a wait ends), the reader finishes what it holds the mutex for,
  and a caller that keeps asking gets the mutex (strong fairness of `Collect`,
  because other callers take it in between). No responder is ever obliged to
  answer.

- `ConnReconnect!FairSpec`: the reader and every sender inside a send function go
  on when they can, `connect` included. The router need not come back. Since
  `connect` is repeated `max_retries` times, a thread that finds the router down
  gives up; `Unlimited` (`RDKC_BUILD`) takes that away, and then nothing ends
  before the router is back.
  `ReconnectEnds` and `StopEndsReader` excuse `WaitsForItself`, the state of
  finding 3, and `StopEndsReader` excuses `ReadsReplaced` (section 5): the run shows that
  nothing else keeps them from holding. What the reader reads, and when, is up to others
  (`ReaderInput` is not fair); that a `recv` on a socket that is gone returns is.
- `KeyExchange!SecureFairSpec`: the same, and the daemon handles what it has been
  sent. The reader is not obliged to find the response in time, so an exchange may
  time out.
- `Framing!FairSpec`: the sender goes on with its attempts, the daemon reads when
  `select` says that it can, the receiver reads. A connection need not stay up.
- `Sockets!Spec`: every thread goes on when it can; one that waits for the mutex, and
  the daemon's reading of one client, get their turn among others (strong fairness),
  so that nobody starves and what the run finds is a mutual wait.
- `Provider!FairSpec`: the host's callback thread, the daemon and the clients go on; a
  registration need not, and a query may time out.
- `ConnListeners!FairSpec`: reader and callback thread run, callbacks return, and
  `rtConnection_Destroy` goes on once called. Nothing makes an application add,
  remove or stop, or the router forward.

## 4. Proofs

The type invariants of `ThreadPool`, `ConnRequest`, `ConnListeners`, `ConnReconnect` and
`KeyExchange`, and `ReturnsOwnResponse` and the action property `ListGuarded` of
`ConnRequest`, held on the instances of the runs before they were proved. The runs leave them to the proofs; of what
is proved they check only the properties that a hazard names.

`ThreadPool_proofs` proves, for any sets of threads and tasks, any limit
`maxThreadCount` and with or without expiry, from the named assumption of
`ThreadPool` on its constants:

| theorem | says |
|---|---|
| `TypeCorrect` | `Spec => []TypeOK`: in particular the unsigned counters never go below zero, and a busy worker has a task |
| `TasksInOnePlace` | no task is lost, duplicated or given to two workers |
| `CountersAreExact` | `threadCount` and `busyThreadCount` are the cardinalities of the sets they stand for |
| `StopOkCompletes` | a stop without limit that returns RT_OK has let all earlier tasks finish |
| `FreedWhenIdle` | the pool is freed only when no worker is in its loop or runs a task |

The invariants are not inductive one by one. Their conjunction `IInv` adds
`StopPhases`, what holds at each place of the stopping thread: once it is past
its wait, `isRunning` is reset, which is why nothing is submitted behind its
back, and `isShutdown` is only set later; whoever is about to free the pool has
seen it with no worker counted.
`CountersExact` is needed to turn the code's tests `busyThreadCount == 0` and
`threadCount == 0` into statements about workers, and lemmas on cardinalities
(a worker enters or leaves `Busy` or the loop) carry it through a step.
`TaskInOnePlace` is needed for the queue: the head of the list is with no worker
yet. The step is proved by one lemma per action, then combined by PTL.

`KeyExchange_proofs` proves of `ConnReconnect`, for any set of senders, any number of
listeners and with finite or unlimited retries, `OneOwnerAlways` (`Spec => []OneOwner`),
`ListenersAlwaysFollow` (`Spec => []ListenersFollow`) and `TypeCorrect`. The
cardinality in `OneOwner` is replaced by `OnlyOwner` (any two owners are the same
thread), so that no finiteness of `Senders` is needed, and `OwnerAt` is added: the
socket is not connected before the owner connects it, the slots it has passed are
registered as long as the connection is up, and it waits for itself only when the
connection is lost. Without `OwnerAt` the step in which the owner resets
`reconnect_in_progress` says nothing about what is registered. Every step of a
thread that is not the owner falls under one lemma, `BystanderStep`.

These lemmas serve again for the specification with the key exchange, `SecureSpec`: `SecureOneOwner`, `SecureListenersFollow`, and
`KeysAlwaysAgree` and `SecureTypeCorrect`. The invariant `KeyStep` says for a
connection that is up, and for each step of the exchange, what may be on its way:
before the request nothing is (`Clean`), while the owner waits at most one of
request, response in the socket and response in the entry exists, and it carries
the key the router has derived; once the second message is written the client's key
is that one. A connection that is lost needs no invariant, since `NewClient` starts
from nothing. `SlotsSent` separates the exchange from the registering of the
listeners. `KeyedOrKnown` (`KeyedUnlessSenderFailed`) needs `KeyedIInv` on top of this:
from the second message on the client has a key, while a reconnect is in progress
nobody has failed yet (`failedBy`), and a connection in use has a key, or the exchange
failed in a sender's hands, or the reader is on its way into another reconnect. These invariants were found to hold on the instances of the runs before
they were proved.

`ConnRequest_proofs` proves, for any number of callers, responders and requests, with
and without timeouts and destruction: `RequestTypeCorrect`, `OwnResponseReturned`
(`ReturnsOwnResponse`), `DeadEntryOnlyAfterTimeout` (`EntryAlive`) and
`ListChangesGuarded` (the action property `ListGuarded`). The invariant says of each
caller where it holds `con->mutex` (`Holds`), where its entry is listed (`Listed`), what
its entry and its result are (`EntryOfRequest`, `Outcome`), and of the reader that it
keeps the mutex from finding an entry to posting it, and that an entry it does not
find any more belongs to a request that timed out (`ReaderHolds`). `CallerStep` is the
frame rule of the proof: a caller that moves the mutex only between itself and nobody
disturbs no other caller and not the reader. `Retry` is where this matters: a new
sequence number is taken only with the mutex, hence never under a reader at the entry.
`ResponseNotLost` (`ResponseOwned`) adds `FateIInv`: sequence numbers of pending callers
differ and are not used again (`SeqUnique`), no message of a number not yet given out
exists (`FateOfUnsent`), a call that waits has written its request once (`WrittenOnce`), a
caller that leaves the list without a timeout has seen to what
its entry holds (`EntrySettled`), and what the reader holds is nobody else's (`FateOfRead`).
`RequestsImplementRpc` (`ImplementsRpc`) is the refinement: one lemma per kind of step says
which action of `Rpc` it is (`ServiceAsk`, `ServiceDeliver`, `ServiceReads`, `ServiceGive`,
`ServiceReturn`) or that the service does not see it (`ServiceWaits`, `ServicePosts`). It
needs one more invariant, `HeldByEntry`: what the entry of a waiting call holds has been
neither returned nor released, or a response could be given to two calls, or twice to one.

`ConnListeners_proofs` proves, for any number of threads, slots, ids and messages,
`ListenersTypeCorrect`, `CallbackOfExpression` (`RightListener`) and `MessagesInOrder`
(`HandledInOrder`). `IdsAgree` says that the id of a listener is found with its expression
only, in a route, the list or on the way, or with an expression that was overtaken;
`OwnSlot` that a thread about to tell the router finds its own listener in the slot, or its
expression was overtaken. `InLine` numbers the messages not yet handled, and `Holding` says that
the callback thread is at the first of them, which is why removing its item
(`RemoveFirst`) takes off the head (`RemoveHead`, from `MinIn`: a set of naturals has a
least element). `RoutesComplete` (`RoutesFollowListeners`) holds when no thread is between
slot and router; `RoutesIInv` says it for every moment by counting: an expression that is
neither overtaken nor unsent has as many routes as there are threads about to say that a
listener of it is gone, and one more if it has a listener the router was told of, whose
route is the last of them. So the first, which the router clears, is never that one
(`OwnRouteGoes`), and when no thread is left the routes are the listeners.

`Framing_proofs` proves `ReadStaysInBuffer` (`BufferFits`) for any lengths and any
buffer of at least two headers, which is `FramingAssumption` and what
`RTMSG_CLIENT_READ_BUFFER_SIZE` is for. The invariant `Asks`
fixes `bytes_to_read` and the capacity in each state of the reader; `StreamOK` is
needed for the payload length, which is decoded from bytes: they are bytes of messages
that were sent. `MessagesStayWhole` (`WholeAndInOrder`) follows the bytes themselves:
`ReadSoFar` says that what a reader holds is the beginning of a message whose rest is at
the front of its stream, `Flow` that each stream is a run of messages in order, that a
message further on its way is an earlier one, or the same one after a failed write, and
that the message being sent is the last.

`Data_proofs` proves of `List` `ListStandsForItems` (`ListCorrect`) for any set of objects, any
number of items and each of the three uses of a list. `ListCorrect` is inductive as it
stands; the work is in the pointers. The four ways to add an item are one step, `AddedAt`
(some item at some place), and all removals another, `FreedAt`; that the pointers stand
for the sequence before and after, in both directions, is two lemmas on `LinkedIn` and
`UnlinkedFrom` over sequences with one element more or less (`Inserted`, `Taken`).
`Owned` is `OwnedOnce` element by element, so that adding and freeing need no cardinality.

It proves of `HashMap` `MapAlwaysSound` (`MapSound`) and `MapImplementsDictionary`
(`ImplementsDictionary`) for any keys, values and hash functions, any number of buckets
to start with and any load factor. Keys and values are different objects and none is
NULL (`HashMapAssumption`): a value that is NULL could not be told from a key that is not
there. The invariant `MapInv` says that the buckets, `n` of them, are a table that stands
for a set of nodes (`Stands`): every node of the set is in the bucket of its key, no key is
in a bucket twice, and every vector has a cell beyond its last entry, which is what
`rtVector_RemoveItem` reads. There is a lemma for each change of a table: a node is put
(`PutStands`), removed (`RemovedStands`) or its value replaced (`OverwrittenStands`), and
`ResizedStands`, that a resized table stands for the same set, by way of the two loops of
`rtHashMap_Resize` (`MovedStands` for the nodes of one bucket). They are recursive
functions, treated as those of the routing tree are (`StepByStep`, `UpTo`, see below). `mapSize` and `copies` are
cardinalities of sets of nodes, and `Counted`, a bijection between nodes and their places
in the buckets, carries that over to the buckets. That the number of buckets is the first
one doubled some times (`SizeOK`) needs powers of two by their divisors, since the provers
know no exponents. For the refinement, `Maps` says what value a key has in a set of nodes,
`GetMaps` that `rtHashMap_Get` returns it.

`Provider_proofs` proves `ObjectsAnswer` (`RegisteredAnswers`), `TransactionsAreWhole`
(`BothOrNeither`), `FailuresAreTold` (`TypeOK` and `FailureIsTold`, two of the four parts
of `ReadsTellTruth`) and `ReadsAreTruthful` (all of it) for any data model, any instances registered in any order, and any
clients and calls; an instance is registered once and what is set is a sequence of pairs
(`ProviderAssumption`). `RegistrationInv` says that an instance the router has heard of is in
the map, or is the one whose insertion is under way: `registerProvider` adds the listener
first, so that this is all that holds. `RequestInv` and `ReplyInv` follow a request: it is
in one place, and one that its client has given up is older than the last timeout, so that
the same request cannot be made while it is still on its way, and an answer is never taken
for another's. A transaction is whole because the last of the parameters that set a
property decides, and there is a last one (`MaxIn`). `FrameInv` says of the stack of calls
of `runGet` that one that is to fail has told of it; `Moved` is what each of the ways to go
on or to return leaves behind.

`ReadIsComplete`, that a read is complete up to its own unanswered queries (`Missed`), and
`LostListIsTold`, that a list without a description is told of, need that the data are what they say they are, which no
code checks: `DataAgrees`. The parent of a list gives the number and the ids of its items, at
least one, and nothing sets these properties; what is registered below the list is below one
of the ids; lists themselves are not registered; what is registered below an object is an
instance of an object; the names that `runGet` puts together are among those considered
(`Names`). A list without items is excluded because the code takes its empty text for one id
(section 5). `Covered` says what a read is to show by the instances there are, without the
recursion of `runGet`; the invariant (`ReadInv`) is that what a client was shown, with what was missed and what the
frames of its stack have left to show (`Left`), is what its call covers. `CountStep`,
`IdsStep`, `ItemStep`, `NextFrame` and `ChildStep` say so of each step of a frame:
the number and the ids are those of `FirstValues` (`GivesInv`, `ValuesInv`: a property without
a setter keeps its value, and an answer is what the host holds), the items of a list are all
that is below it (`ItemsAre`), and the children of an object are on the way to all that is
below an instance of it (`ChildNames`). The last two rest on lemmas about the walk over a
name: the walk over a prefix is the beginning of the walk (`WalkOfPrefix`), an id leads to an
instance of the list's object and a child's name to one of the child (`ObjectBelow`), and a
name of an object passes by a child of each object above it (`ChildOnTheWay`). That the
recursion of `Walk` has a solution is an induction over the length of a name, by the least
length without one (`UpTo`).

`Routed_proofs` proves every property of the daemon that a run checks and finds true,
for any clients, listener ids and expressions, any workloads, and any number of routes
and of generations of tree routes.

| theorem | property | hypotheses beside `NoAdvisoryAlias` |
|---|---|---|
| `TreeAlwaysConsistent` | `TreeConsistent` | |
| `PartialQueriesComplete` | `PartialQueryComplete` | |
| `ListenersReachable` | `ListenerReachable` | expressions have a token, inboxes are no row templates |
| `RequestsAnswered` | `RequestNeverDropped` | inboxes are `Undisturbed` |
| `DisconnectsAdvised` | `DisconnectAdvised` | the advisory topic is `Undisturbed` |
| `RowsAlwaysReachTemplate` | `RowsReachTemplate` | `RowsUnnamed` |
| `RouterImplementsTable` | `ImplementsTable` | as for `ListenersReachable` |

The first invariant is `RouterInv`: what the vectors hold, that the tree's routes are
entries of the vector and those are of connected clients (`Owned`), and `TreeOK`. What
lookups promise is not inductive by itself: that no freed tree route is listed
(`Live`) survives a removal because topics and tree routes list each other (`Agree`),
each entry has one tree route (`OneHandle`) and no list has it twice (`NoTwice`), since
removal by compare takes one; that the caches miss nothing (`Covers`) survives because a
topic's ancestors are in the tree (`Closed`) and `childList` names what is below
(`Children`). There is one lemma per operation of the tree, which says what its sets of
topics and lists are afterwards (`RemoveRouteLeaves`, `FreeTopicLeaves`,
`CreateTopicsAdds`, `AssignAdds`), and one that it keeps `TreeOK`. A new tree route has
an address nobody refers to (`FreshTreeRoute`) by counting: the tree is finite. The
walks along an expression and the loop over a client's routes are recursive functions;
each is shown to exist by `StepByStep`, and what it computes by `UpTo`, which is
induction for a set of numbers.

The second invariant, `ReachInv`, is about where routes are: topics are on the way to
something registered (`OnTheWay`), and an entry whose expression nobody disturbs is
listed at the topic of that expression. `Holds` says which route is at which topic, and
four lemmas say how removals and additions change it. The table of `PubSub` is `Holds`
written as a set (`GrantedIs`), and without row templates a lookup finds exactly the topic
of its expression (`PlainTree`), so that each handler is the table's step that
`ImplementsTable` names. The closed topics are those that were given a `routeList`
(`Shut`); a removal of a route leaves of the tree the topics at or above one that holds a
route (`RemoveRoutePrunes`), which is what the table's `StillUsed` says (`PrunedIs`).

The hypotheses are about what the clients register, and say where the code depends on
them. `NoAdvisoryAlias`: the tree takes an alias of the advisory topic twice (section 5).
An expression that is `Undisturbed` has no row template in it, no alias at or above it (an
alias is removed with everything below, whoever asks), and no row template registered
beside a topic on its way, which would answer first or make a table of it. Inboxes
(`rtConnection.c:605`) and the advisory topic are of this kind because their first tokens
are no data model's. `RowsUnnamed`: an expression that has a row's own name in it is not
under the first token of the rows that messages are sent to. An inbox ends in a process
id, which a row template would take for a row, so the hypothesis must not forbid such names
altogether.

`Codec` proves `RoundTripsAlways` and `TimesAlwaysRight`. The invariants are
short, since an output is a function of the input (`Computed`), of the headers received so
far (`HeadersKept`) or of the waits so far (`StopCounted`: what has passed against what has
been counted off): what matters are the lemmas about those functions, for every header, every sequence of bytes up to the limit, and every time.
`Decodes32` and `HasAt` say that a number is read back at any place of a buffer where it was
put, `StringParts` that each part of an encoded header is where the decoder looks for it,
`HeaderArrives` puts them together, and `KeptOneMore` and `KeptWhole` say what a sequence of
topics copied over each other leaves. Base64 is shown for one group, by arithmetic
(`BytesOfGroup`), and then for each place of the data (`TextOf`, `Base64RoundTrip`);
`DecodedFits` counts the bytes of any text, well formed or not. `LaterProper` has the cases
of the carry, `ElapsedIs` those of the borrow.

Only model-checked: all liveness, including that of `Sockets` (outside the proof system).
Every safety property and action property of the passing runs is stated by a theorem.

## 5. Findings

1. `rtRoutingTree.c:607` — `rtRoutingTree_RemoveTopic` leaves routes, freed ones
   too, in `routeList2` of the topics above; a later message or query to the
   partial path follows them.
2. `rtThreadPool.c:314` — the signal for a new task is lost on an idle worker
   whose timed wait has just ended; the worker leaves without a look at the queue.
3. `rtConnection.c:455` — the thread that reconnects registers the listeners with
   `rtConnection_SendMessage`. If the router is lost again meanwhile, that call
   waits for the reconnect in progress, its own: no thread of the connection gets
   on, and `rtConnection_Destroy` waits for the reader.
4. `rtrouted.c:761` — the daemon's only thread sends with a blocking `sendmsg`. An
   application thread sends with `con->mutex` locked, and the reader of that client
   locks it for a response, late ones included. With both sockets full, daemon,
   sender and reader wait for each other for ever, contrary to what
   `rtConnection.c:1710` says the callback thread is for.

Seen while modelling, part of the models unless said otherwise, not asserted by a
run. Daemon and library:

- A worker that was created or signalled but has not taken the lock is not busy: a
  stop in this window cancels its task and logs the assertion that
  `rtThreadPool.c:267` rules out.
- A caller that timed out removes its entry without the mutex
  (`rtConnection.c:1120`): a response stored in it meanwhile is never released,
  and a reader that has found the entry writes to it when it is gone. `ResponseOwned`
  and `EntryAlive` except the requests that timed out, and nothing else.
- `rtConnection_Destroy` destroys the pending list before the callers it has just
  woken remove themselves from it (`rtConnection.c:774`).
- A sender whose operation began before the last reconnect ended can own the next
  one and replace a healthy connection, because `sender_reconnect_time` is shared
  and renewed while listeners are sent (`rtConnection.c:342`, `:809`). The reader may be in
  `recv` on the socket that is closed under it (`:376`), which does not wake it: the router
  keeps the old client, the reader hears nothing of the new socket, and
  `rtConnection_Destroy`, which shuts down the new one (`:733`), may wait for it for ever.
  `StopEndsReader` excuses this (`ReadsReplaced`).
- A listener whose registering anew fails while the connection is up is not registered,
  and the connection goes on without it (`rtConnection.c:455`); not followed.
- The daemon takes a short `sendmsg` for a whole message (`rtrouted.c:761`), and drops one
  that failed.
- Those who wait for a reconnect return RT_OK even if it failed
  (`rtConnection.c:371`), and try again.
- `err` is not reset between attempts of `sendmsg`, so that a message sent after a
  failed attempt is sent again, up to three times in all (`rtConnection.c:1254`), and the
  call returns the error although the message went out; a short write is followed by the
  message from its start. So a request whose send fails may reach its provider, twice
  even, while its caller is told that it failed or, after a reconnect, asks once more under
  a new number. `Rpc!Deliver` says so; a caller that needs at most one execution has to see
  to it.
- A message without payload makes the daemon ask `recv` for no bytes, take the
  result for the end of the stream, and disconnect the client (`rtrouted.c:1578`).
- `rtConnection_AddListener` and `rtConnection_RemoveListener` ignore what
  `rtConnection_SendMessage` returns (`rtConnection.c:1310`, `:1350`): a listener may be in
  its slot and RT_OK returned without a route, or a route stay without a listener. And the
  id is read from the slot after the mutex was given back (`:1309`): another thread that
  removes the listener and adds one gets the messages of the first expression, as an alias
  of its own. `RoutesFollowListeners` and `RightListener` show that nothing else can.
- The reader goes on with a half read message on the socket a sender has just opened
  (`rtConnection.c:518`).
- A sender that owns the reconnect of a connection with a cipher cannot complete the
  key exchange when the reader has noticed the loss as well: the reader, which would
  read the response, waits for the reconnect to end. The exchange times out, and every
  message is refused for want of a key until the connection is lost again
  (`rtConnection.c:477`). `KeyedUnlessSenderFailed` shows that this is the only way.
- `con->cipher` is destroyed and replaced without `con->mutex` (`rtConnection.c:467`)
  while senders read it.
- `rtConnection_SendBinaryResponse` does not reconnect, `rtConnection_SendResponse`
  does.
- Not modelled: failures of `socket` and `fcntl` leave `reconnect_in_progress` set
  (`rtConnection.c:382`); `AddAlias` walks the slots without the mutex.
- An alias is refused as a duplicate when its topic had a route earlier and its
  `routeList` was kept, empty (`rtRoutingTree.c:465`), which it is until another removal of
  a listener prunes it. `ImplementsTable` says that it is refused then and when somebody
  holds the topic, and never else.
- An alias is removed by topic, without a check of its owner, and everything at
  and below it goes with it (`rtrouted.c:867`). `ListenerReachable` is therefore
  checked with aliases that are never at or above a listener's expression.
- `isTable` is never reset, so a topic that lost its row template routes a message
  to itself into nothing (`rtRoutingTree.c:81`).
- The advisory topic is exempt from the duplicate check; aliased twice by one
  client, its list holds a route twice, and the removal by compare takes one
  (`rtRoutingTree.c:465`, `rtList.c:273`). The instances have no such alias.
- When two clients answer one request, the second response overwrites the first in
  the entry (`rtConnection.c:1603`).

Containers and codecs:

- A failed `realloc` loses the array of a vector and keeps its count
  (`rtVector.c:81`); not modelled.
- The map's shrinking test divides integers (`rtHashMap.c:277`), so it shrinks only
  when the quotient is zero.
- `rtTime_Compare` compares nanoseconds, although `rtTime.h` says milliseconds.
- `timeGetElapsed` adds nanoseconds to milliseconds when it borrows
  (`rtThreadPool.c:232`), so that a limited wait may end early; and it drops the fraction of
  a millisecond each time the thread wakes up (`:226`, `:256`), so that it may end late, by
  less than a millisecond for each wake-up. `StopCountsTime` (part of `TimesRight`) shows
  that these are the only ways. The time between two rounds of the loop is not counted
  either; the model has none.
- `rtConnection_Read` decodes a further header into memory that is not cleared when it
  tries again (`rtConnection.c:1492`): after a message with a longer topic that could not
  be read to its end or decrypted, the topic of the next one has the tail of the longer
  one. `HeaderRoundTrip` (part of `RoundTrips`) says which topics are whole.
- Decoding an empty base64 text reads before its start (`rtBase64.c:148`); the inputs
  of the run have none.

Data providers:

- A query that times out counts as a success (`dmQueryImpl::exec` returns true), so a
  list item that was lost is missing from a read that reports success, contrary to the
  comment at `dmClient.cpp:126`; and in a recursion the last child decides
  (`dmClient.cpp:138`, `:156`). `ReadIsComplete` (part of `ReadsTellTruth`) says that such a
  read returns true and lacks exactly what its own unanswered queries asked for.
- A lost number or lost ids of a list are taken for 0, and end in a "size mismatch" that is
  told, except that the 0 of lost ids is one id: a list said to have one item is then read
  as that of an item named 0, without a word. `LostListIsTold` says that this is the only
  such case.
- A list without entries is always a "size mismatch", since the empty text splits into
  one part.
- A recursive read of a name that is not in the database dereferences a null pointer
  (`dmClient.cpp:149`), and a wildcard read of one returns without telling the
  notifier (`dmClient.cpp:77`).
- In the sample the SSID is not writable by `Device.WiFi.EndPoint.json`, so its
  transaction never has both values: nothing is committed, and the answer says that
  the status was set. The run gives it a writable SSID.
- The status of an encoded result is always 0, and pairs without a value are dropped
  from a set of several.
- `m_lists` of the host is written and never read.

## 6. Not modelled

- Payloads of messages (JSON, strings), logging, statistics, the traffic monitor: data
  the properties do not tell apart. Of `rtMessage.c` and its helpers only the base64
  text of binary data is.
- Out-of-memory returns, among them the one that leaves the pool locked
  (`rtThreadPool.c:307`); failures of `socket` and `fcntl`.
- `ENABLE_ROUTE2_QUICK_GET_OPTIMIZATION`, the other branch of the lookup
  (`rtRoutingTree.c:503`), which the build does not define.
- `check_router` (`rtConnection.c:1666`), which reconnects from the reader's loop when a
  remote router does not answer a `ping`: only with the cipher compiled in and
  `check_remote_router` in the configuration.
- Forwards of the daemon that fail in `Routed`; with `EBADF` the sender's routes would be
  cleared (`rtrouted.c:1488`), but a descriptor is closed together with its client's routes.
- A listener whose registering anew fails while the connection is up
  (`rtConnection.c:455`), and addresses that `malloc` gives out again while a `routeList2`
  holds them (`NewTreeRoute`).
- `HELLO` (its topic is never put into the tree) and the diagnostics request.
- The nested branch of `rtConnection_SendRequestInternal`, except for the key exchange:
  callbacks run on the callback thread.
- Aliases of a connection in `ConnListeners` (the daemon's side is in `Routed`) and the
  default listener.
- The cryptography, the exchange over a socket of its own, which is compiled out, and
  the encryption of what the daemon forwards.
- Reference counts of `rtRetainable.c`: one atomic operation per call, whose protocol
  is that of its users.
- Value conversions of the data-provider layer, samples other than the Wi-Fi provider,
  command line tools: the environment of the models.

## 7. What is left

1. `ConnRequest` with the reconnect of `ConnReconnect` in place of its two outcomes.
2. Aliases in `ConnListeners`, with the response they wait for.
