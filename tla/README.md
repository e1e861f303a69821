# FreeOpcUa: TLA+ models, checks and proofs

FreeOpcUa is an OPC UA client and server library in C++. This directory keeps
TLA+ models of its stateful parts, the TLC instances that check them and TLAPS
proofs of their main invariants. `PROJECT.json` maps every definition to the lines
it translates and lists runs, mutants, findings, hazards and theorems.

    tlc -workers 2 -config SubscriptionSerial.cfg MCSubscriptionService
    tlapm SubscriptionServiceProofs.tla

## 1. Inventory

| Part | State | Operations | Interacts with | Hard because |
|---|---|---|---|---|
| `SubscriptionServiceInternal`, `InternalSubscription` (server) | map of subscriptions, publish-request counters per session, per subscription: items, triggered queues, unacknowledged results, numbering, keep-alive count, timer | create and delete subscriptions and items, `Publish`, `Republish`, `TriggerEvent`, data-change callback, publishing handler | address space (callbacks with bare pointers), message processor (publish callback), io_service (timer) | several io threads, three locks, a handler in several critical sections, an unlocked counter, cancellation that can come too late |
| `BinaryClient`, `RequestCallback`, `CallbackThread` (client) | request handles, response callbacks, publish callbacks, receive buffer and header, callback queue, stop flags | `Send`, `Publish`, `Receive`, `CreateSubscription`, `CloseSession`, `AbortSession`, destructor | application threads, server, `Subscription` | condition variables without predicates, timeouts racing late answers, chunked messages, shutdown |
| `AddressSpaceInMemory` | nodes, attributes, references, data-change callbacks, methods, the counter for new ids | browse, read, write, add nodes and references, call, callback registration | subscriptions | callbacks under the lock, callback table without it, recursion over references, copied names, results of nested calls ignored |
| standard address space (`FillStandardNamespace`) | none: it fills the address space | several thousand `AddNodes` and `AddReferences` calls | address space, server object | the result depends on the order of the calls, and no result is looked at |
| `OpcTcpConnection`, `OpcTcpServer` (asynchronous server) | buffers, set of clients, acceptor | read header and body, process, send, say goodbye, shut down | message processor, io_service | lifetimes of connections, overlapping asynchronous writes, error paths |
| `OpcTcpMessages` (message processor) | channel, session, queue of publish requests, subscriptions of the connection | one handler per request type, `ForwardPublishResponse` | all services, connection | publish responses come from other threads; destruction with running subscriptions |
| `AddonsManager` | addons with dependencies and states | register, unregister, start, stop | all addons | order of dependencies, exceptions in the middle |
| `PeriodicTimer` | timer, stop flag, mutex, condition | start, cancel, expiry | server object | cancel must wait for a running handler |
| `UaClient`, `KeepAliveThread` | connection, thread, stop flag | connect, disconnect, abort | `BinaryClient` | stop racing the wait |
| client `Subscription` | items by client handle, simulated events | subscribe, unsubscribe, publish callback | `BinaryClient`'s callback thread | iterator used after unlock |
| `UaServer`, server object, services registry, endpoints, common addons | the addon manager, pointers to the services, the clock's timer | start, stop, register and unregister services | everything | the order of start and stop, a failure in the middle, the io thread that runs meanwhile |
| nodes and object model, binary protocol, XML loader, socket channel, examples, Python bindings | none between calls, or generated data | wrappers, encoding, parsing | | not concurrent |

What makes each part correct:

- subscriptions: every change of a monitored value is reported once and in order;
  responses are numbered without gaps, each uses up one publish request, and are
  republished as sent until acknowledged; the items, the address space's callbacks
  and the queues agree; an expired or deleted subscription is silent; a due result
  is published;
- client: a call returns its own answer or fails; no callback outlives its call;
  notifications arrive in order; every call ends; the client can be destroyed;
- connection and processor: responses are sent whole, each to a request, and a
  closed connection leaves nothing behind;
- addons: started after what they depend on, stopped before it, on every path;
- timer: after `Cancel` returns the handler does not run;
- address space: references lead to the nodes browsed, an answered id is a node and
  only one call's, every browse ends;
- standard address space: what the specification prescribes is there and is found by
  browsing, whatever the order of the calls;
- server: `Start` and `Stop` return, and leave everything running or nothing.

## 2. Modules

| Module | Models |
|---|---|
| `SubscriptionService` | subscriptions, items, publishing and the part of the address space they use (`Write`, callback table) |
| `MCSubscriptionService` | its TLC instances |
| `SubscriptionServiceProofs` | its theorems on types, tables and handlers |
| `SubscriptionDeliveryProofs` | its theorems on what is published: nothing lost, republishing, requests used up, expiry |
| `BinaryClient` | the client's connection, with an external server |
| `MCBinaryClient` | its TLC instances |
| `BinaryClientProofs` | its theorems on types and callbacks |
| `BinaryClientDeliveryProofs` | its theorems on what is delivered: own answers, order of notifications, a sole subscription heard |
| `AddonManager` | the addon manager, with addons that may throw |
| `MCAddonManager` | its TLC instances |
| `AddonManagerProofs` | its theorems |
| `AddressSpace` | the store of nodes: creation of nodes and references, writing, browsing |
| `MCAddressSpace` | its TLC instance |
| `StandardAddressSpace` | the start-up that fills the address space, for any calls (the constant `Stretches`); extends `AddressSpace` |
| `AddressSpaceProofs` | the theorems of `AddressSpace` and `StandardAddressSpace` |
| `StandardCalls` | the form of the calls |
| `StandardAddressSpacePart3` ... `Part13`, `StandardNamespace` | the code's own calls, and the order of `FillStandardNamespace` |
| `MCStandardAddressSpace` | its TLC instance |
| `Exchange` | abstract specification: requests and numbered answers on connections |
| `OpcTcpServer` | the asynchronous server, its connections and message processors; implements `Exchange` |
| `MCOpcTcpServer`, `OpcTcpServerProofs` | its TLC instance, its theorems and the proof of the refinement |
| `ServerLifecycle` | `UaServer`, the common addons, the server object and its timer; extends `AddonManager` |
| `MCServerLifecycle`, `ServerLifecycleProofs` | its TLC instance, its theorems; the proofs extend those of `AddonManager` |

### SubscriptionService

The variables have the names of the members; the members of
`InternalSubscription` are functions of the subscription's identifier. A step is one
critical section. Operations that are not one critical section are split:
`PublishResults` (the timer's handler: `PublishResults*`, `PopPublishRequest*`,
`PopPublishResult`), `Publish` (a load and a store of the counter, because
`PopPublishRequest` takes no lock), and `Write` (one step per callback). What a thread
is in the middle of is in `task`. Io threads run requests and handlers, application
threads only requests.

- The timer's six states distinguish a wait that has completed and whose handler is
  queued ("expired") from one that `cancel()` still reaches ("armed").
- A request for several items or subscriptions is a series of critical sections of one
  element each, so requests of one element, interleaved, include it.
- `CreateMonitoredDataChange` is one step although it locks the subscription and then,
  to read the value, the address space: a `Write` between the two would need the
  subscription's lock for its callback, and both threads would block. That deadlock is
  listed as a hazard and not modelled (section 6).
- `PurgedChanges` and `PurgedEvents` are sets with one element (`Selections`), a
  description of "remove the entries of these items" that the provers can use; they
  equal `SelectSeq`. `ValuesOf`, which only a property uses, is a recursive function for the
  same reason.
- The race on the structure of the maps themselves (`PublishRequestQueues` is a
  `std::map` read without the lock) is not modelled, only that on the counter.
- The branch for a callback handle of 0 in `CreateMonitoredItem` is never taken:
  `AddDataChangeCallback` throws or returns a positive handle.

Histories (`sent`, `acked`, `expected`, `delivered`, `requests`, `responses`) are read
by no action.

### BinaryClient

A caller goes through idle, sent, waiting, notified or failed, back to idle; a caller
that has created a subscription sends two publish requests first. The gap between
"sent" and "waiting" exists because `OnData` takes no lock; the callback thread's
"evaluated" state, between its predicate and its wait, because `Stop` takes none. The
buffer holds one entry per chunk, and a caller or a publish callback reads the first
entry, as the code reads the front of the byte buffer; so what is left in the buffer
from an earlier response is what is read. The callback is registered and the request
written in one step, since no response can come between. Exceptions of the channel are
`SendThrows`, `PublishThrows` and `ReceiveThrows`; a response that does not decode is
`ReadThrows`.

The server is external: it answers in any order or never, in one chunk or two, refuses
if `ServerFaults`, and publishes while it has a publish request.
Condition variables wake up by themselves if `SpuriousWakeups`.

Not modelled here: who holds references to the client (the destructor starts when no
call is in progress and no callback stored), and the order of bytes written to the
channel.

### AddonManager

An addon is its position in the order of the `std::map`, since the loops scan in that
order; `started` are the entries whose `Addon` is set. `Start`, `Register` at a started
manager, `Stop` and the destructor are loops: `op` names the loop, `current` the addon
it is calling, so that an addon in its `Initialize` may call `GetAddon`. The manager has
no lock and is used by one thread (the code says "TODO lock manager"). Exceptions
thrown by addons are `std::exception`s.

Histories: `running` (initialized and not stopped since, also when `Addons.clear()` has
forgotten the addon), `lost` (a started addon and a dependency unregistered under it) and
`interrupted` (an exception has left `Start`, which then stops nothing). Only `Start` is
left so; `Register` starts addons without dependencies.

### AddressSpace

`space` holds the members of the object in one record, so that the operators of the
code's const functions and of its changing ones take the store as an argument: the
standard address space is filled with the same operators. A node is an id with
attributes and a sequence of references; a reference is the part of a
`ReferenceDescription` that browsing looks at. An action is what one element of a request
does under `DbMutex`. `log` is a history of the `AddNodes` calls, `written` of the
attributes written or given a callback.

- `AddNode` is composed of what the code does in turn: number, node, link from the
  parent, link to the type definition. The last is an `AddReference` whose status is
  ignored and whose exception leaves the node stored; the status of such a call is
  "Throws".
- Values are what the code tells apart: names, a value with a bad status, and values of
  another type, which make the conversion to a name throw. `DisplayName` behaves as
  `BrowseName` does and matters only for the exception.
- `Levels` are the arguments of the nested calls of `SelectNodesHierarchy`; it ends if and
  only if a level is empty.
- `SetValueCallback` takes no lock and `SetMethod` a shared one, although they assign: what a
  read or a call on another thread finds in the middle of the assignment is undefined and
  left out. What they assign may be empty, which takes the callback or the method away.
- Ids are pairs of namespace and number; ids that are strings or GUIDs behave as any
  other given id.

### StandardAddressSpace

The eight parts are transcribed call by call: a definition is a stretch of ten or so
nodes with their references, in the order of the source. Of a node's attributes, those
that relate it to other nodes or that calls look at are kept (the data type of a variable,
that it has a value). References are forward and declare a data type as target class,
as the generated code does. A step performs one stretch, so that invariants are checked
nearly three hundred times on the way and the run is deterministic: what is examined is
not interleaving but an order of some thousands of calls of which many fail. Properties
with `Filled` speak of the end.

The calls are the constant `Stretches`, which the TLC instance gives the code's own ones
(`FillStandardNamespace` of `StandardNamespace`). What the theorems need of them are three named
assumptions, which TLC evaluates on the code's calls: `CallsAssumption` (their form, and every
node with a number), `ReferenceTypesDescend` (reference types hang below reference types with
smaller numbers, by `HasSubtype` only) and `ParentsFirst` (the call that makes a parent comes
before those that make its children). A namespace generated anew keeps the theorems if TLC
finds the assumptions true of it.

### OpcTcpServer and Exchange

One io thread, the default of `AsioAddon`, runs handlers one after the other: an action is
a handler. A connection is in `Clients` as long as the server owns it; `reading` says what
the read is for whose handler has not run yet. The requests are told apart by what they do to the connection,
its subscriptions and the count of publish requests: those that do none of it are
`ProcessRequest`. Of the subscription service there is what a connection meets, with the
timer states of `SubscriptionService`: who is called back, whether a wait is pending or its
handler queued, and the count by token. Whether a subscription has something to tell or
has expired is left open.

`Callback[s]` stays when a subscription is deleted, as the closure stays with a queued
handler. A callback to a connection that is gone is recorded in `stale`, its effect on
freed memory is not modelled.

The handlers of reads and writes hold a bare pointer to the connection. When a write fails, or
the server is stopped, while a read is pending, the connection goes and the read's handler
still runs, with the error of an aborted operation (`ReadAfterEnd`, where only that it runs is
modelled). `NoReadLeftBehind` says that there is no third way: a connection that is ended from
its own read leaves none, and `orphans` records those that the two ways leave. Which writes
are pending is not modelled; a failed one may come at any time.

`Shutdown` and the addon's `Stop` run on the application's thread while the io thread runs
handlers. They are steps of their own: the set is cleared one connection after the other, then
the acceptor is closed and the server dropped, with the connections accepted in between. That
thread takes no lock: a connection destroyed in the middle of one of its handlers and a race on
the set itself are undefined behaviour, left out here and listed in section 4. The token id of a
channel only goes into the answer and is left out.

`Exchange` promises a client: an answer belongs to a request that was taken, no request is
answered twice, and answers are numbered 1, 2, 3 (`AnsweredOnce`). The mapping takes the publish requests
in the connection's queue as outstanding and the numbered messages sent as answers;
steps of timers, reads and deletions stutter. `HelloClient` has an answer without a number
and stutters too.

### ServerLifecycle

`UaServer::Start` makes an addon manager (the destructor of an older one stops its addons),
registers eight addons and starts them; the steps are those of `AddonManager`, in conjunction
with what the addon does in `Initialize` or `Stop`. The io thread here only runs `OnTimer` of the server
object's `PeriodicTimer`. `wait` tells a wait that `cancel` still reaches from one that has
expired. `handler` is "locking" when the io thread waits for the mutex and "updating" while it
holds it and writes the time through the services registry. `Cancel` of the code is two
steps, up to its wait and after it. The factory and `Initialize` throw nothing but the
exception of `bind`; `Stop` of the common addons throws nothing. The handlers of connections,
which use the same services, are not here: `AttributesStableInUse` is about the timer's handler.

## 3. Runs

| Run | Shows | Instance |
|---|---|---|
| `subscription_serial` | responses within requests, a due result waits only for publish requests | one io thread, two subscriptions of one session |
| `subscription_concurrent` | tables, queues, no change lost, repeated or reordered, republishing, one handler per subscription, expiry | two io threads and an application thread, one subscription, data-change and event items |
| `client_calls` | own answers, no dangling callback | two callers, three requests, calls and session closing |
| `client_notifications` | types, order of notifications, first subscription heard | one caller, seven requests |
| `client_liveness` | every call ends | one caller creating subscriptions, faults and spurious wake-ups |
| `client_late_answer` | violation: a late response is read by the next call | one caller, two requests |
| `addon_manager` | dependencies present, nothing left running, exactly the resolvable addons started, every call ends | three addons, lists of up to two dependencies |
| `address_space` | answered ids are nodes and unique, references lead to nodes and carry their names, types linked | four calls out of five items with given, partly given and generated ids |
| `standard_address_space` | the assumptions on the code's calls; browsing ends and finds every type, subtypes exact, no node lost to the order, the server object finds its nodes | the code's own calls, all of them |
| `opc_tcp` | `Exchange` is implemented, no subscription without its connection, no read left by its own connection's end, notifications find publish requests | two connections, three messages each, two subscriptions, a limit of one counted request |
| `opc_tcp_callback` | violation: a subscription calls a connection that is gone | the same |
| `server_lifecycle` | calls return, no timer after the server object, time written to existing nodes, everything runs or nothing does, services stable while used | the eight common addons, three starts |

Bounds. Two subscriptions are enough for callbacks of one and of the other in the same
`Write`; two items for an event item displaced by another and for a deletion beside a
live item; two publish requests and `PublishLimit` 2 for a counter at its limit and a
race on it; lifetime 2 with a keep-alive count of 0 for keep-alives, and lifetime 0 with a
count of 1 for an expiry, which then comes before any keep-alive (no subscription has both, see
section 4). With `MaxPublish` finite every session runs out of requests in the end, so that
`DueIsPublished` says that no due result waits while there still are any. Three requests are enough for a call that times out,
one that is answered meanwhile and one that is sent after. Seven give a new
subscription its two publish requests and four notifications to acknowledge. Three
addons give cycles and chains of two and three and a third addon that fails after the
others; two dependencies, a list with a missing one before or after one not started
yet. One write is enough for an item to have two changes queued, its first value and the
written one. Four calls of `AddNodes` give an explicit id ahead of the counter, the two
generated ids that meet it, and a type before or after the node that asks for it; the
values written include a bad one and one of another type. Three messages let a
connection create a subscription, ask for a publish response and do one thing more
while the other connection deletes or shares the service; with `PublishLimit` 1 the count
is at its limit at the second request. Three starts give a start after a failure, after a
stop and on a running server. `Depth` 12 exceeds the longest browse path. Deadlock is not checked: with all bounds used up the instances stop, clients may
always stop, and a destroyed addon manager does nothing more.

Symmetry: the io threads, the callers, and the connections with their tokens, are interchangeable in the runs of
invariants that use it; no liveness run uses symmetry. `ExpiryIsFinal` is an action
property in which no thread appears, and `ExchangeKept` one in which every connection does
alike, a formula of safety only.

Fairness. Subscriptions: timers expire (`WF`), an io thread gets round to every
completed wait (`SF`, since requests may keep the threads busy in between and the
io_service's queue is in order), and what a thread has begun goes on (`WF`). Client:
the threads go on (`WF`), and `Channel::Stop` ends a blocked read. Addons: a call goes on
(`WF`), and an addon asked to stop again and again does so in the end (`SF`; it need not,
see section 4). Server: the application's thread goes on inside a call (`WF`) and gets a
mutex that is free again and again (`SF`, the io thread holds it for a moment every second);
expired waits are noticed and their handlers run while the io_service runs (`WF`).
Nothing is assumed of clients, application or server.

## 4. Findings

1. A late response stays in `messageBuffer` (`client_late_answer`).
2. A connection's destructor deletes its subscriptions, but a handler already queued still
   calls the connection (`opc_tcp_callback`): `Timer.cancel()` does not reach it. The handler
   even starts the timer again, so that the deleted subscription goes on.

In both cases the passing runs state what remains true: a call's answer is its own as
long as no late response was ever left over; the service has no subscription without
its connection.

The first finding reaches further than calls. The leftover of a late call can be read in
place of a notification: with the requests call, create, publish, publish, call, publish, call
a client handles the responses 5 and 7 where the server has sent the notifications 3 and 4.
The proof of `NotificationsInOrder` showed it, in an instance larger than the run's;
the property is therefore stated, like `OwnAnswer`, as long as no response was late.

More behaviours of the code are part of the models and assumed in no property; a
maintainer may want to know of them.

- `PopPublishRequest` decrements the session's count without the lock that `Publish` takes.
  `ResponsesNeverExceedRequests` is stated for one io thread; with two in `IoThreads` TLC
  finds more responses than requests.
- `HasPublishResult` stops counting at one above `MaxKeepAliveCount`, with publish requests to send
  the keep-alive or without. A subscription whose lifetime is longer than that, as the standard
  wants it, therefore never expires, however long its client is silent; the others expire
  before their first keep-alive.
- An event item that a later item of the same node has displaced is deleted as a
  data-change item: its queued events stay and are published for an item that is gone.
- `CallbackThread::Stop` notifies without the lock: the callback thread, between its
  predicate and its wait, misses it, and the client's destructor joins for ever.
- A response that arrives between the sending and the wait of a call notifies nobody
  (`OnData` takes no lock), and the call fails after its timeout with the answer in hand.
- `Register` at a started addon manager returns normally when `Initialize` throws, where
  `addon_manager.h:45` promises an initialized addon.
- `StopAddons` repeats a `Stop` that throws; after a `Start` left by an exception (a missing
  dependency, a factory that throws) the addons started so far stay, and if one is then
  unregistered and registered again with a dependency on an addon that depends on it,
  `Stop` finds neither of the two to stop and forgets both.
- 131 nodes of the standard address space never get their `HasTypeDefinition` reference,
  since their type is created after them and `AddNode` ignores the status of the
  `AddReference` (for example `ServerType_ServerCapabilities`, where
  `tests/server/standard_namespace_ut.cpp:1738` expects it). 38 nodes are refused because
  their parents are methods, which no call creates, and 218 references
  that a call asks for are missing in the end. Most explicit references of a parent to
  its children are refused too, as they come before the child; the child's own
  `AddNodes` makes the link.
- Connections that send the same authentication token share a count of publish
  requests, and a notification that then finds no request in its connection's queue is
  dropped. `NotificationsFindRequests` is stated for tokens of their own.
- The read of a connection is still pending when a failed write or the stop of the server
  destroys the connection; its handler then runs with a pointer to freed memory
  (`opc_tcp_async.cpp:139`, `ReadAfterEnd`). `Shutdown` clears the set of connections on the
  application's thread without a lock while handlers on the io thread use them.
- After `Stop` of the server `CheckStarted` still passes, since `Registry` is not reset.

## 5. Proofs

The assumptions are `ConstantsAssumption`, `ClientAssumption`, `AddonAssumption`,
`ItemsAssumption`, `NamesAssumption` and `OpcTcpAssumption`: bounds are natural numbers, parameters
are pairs of natural numbers, "no session" is not a session, items have the form of the
code's structures, a bad value is not a name, a client has one of the tokens. The theorems on
the standard address space add `CallsAssumption`, `ReferenceTypesDescend` and `ParentsFirst`
(section 2), facts about the code's calls that the run `standard_address_space` evaluates. The
theorems hold for any number of threads, sessions, nodes, callers, requests, addons, items,
connections, starts and messages.

A property of data that grows, such as what a queue holds of one item, is proved without
induction theorems over operators: the set of the natural numbers up to which the
statement holds is shown to contain 0 and successors and to be all of `Nat` (`SetInduction`,
from the library's well-founded minima).

`SubscriptionServiceProofs`
- `TypeCorrect`. `TypeOK` is not inductive by itself: that a counter is stored as a
  natural number needs that a thread in "popstore" has read a positive one, and that a
  running handler has a subscription; the invariant proved says so.
- `OneHandlerAtATime`: with the fact that a handler in progress has its timer
  "running", no second one starts.
- `CallbacksCorrect`, `EventItemsCorrect`: the callback table, `MonitoredDataChanges`
  and `MonitoredEvents` change together; identifiers above `LastMonitoredItemId` and
  handles above `DataChangeCallbackHandle` are unused, so that new ones are fresh.
- `NoStaleChanges`: rests on what a purged queue contains and on callbacks of deleted
  items finding no entry.

`SubscriptionDeliveryProofs`
- `ExpiredStaysSilent`: no subscription with a handler past its test of `HasExpired` is expired
  (`HandlersAreAlive`), because only the handler itself raises the idle count.
- `RepublishIsFaithful`: the unacknowledged results are those sent and not acknowledged, each
  under the number of its place in `sent` (`ResultsNumbered`).
- `OneThreadAnswersRequests`, for one thread (`OneThread`; with two the statement is false, see
  section 4): count and responses together do not exceed the requests, with one to spare
  while a request is taken and not answered yet or received and not counted yet
  (`RequestsCounted`).
- `NothingIsLost`: the invariant `DeliveryInv` adds that a new item starts with nothing
  delivered under its number (`FreshDelivered`) and that one thread at a time is in the middle of
  a `Write` (`OneWriter`), so that a value in flight is the last one. Lemmas say what `ValuesOf`
  gives for a queue that is appended to, emptied or purged of another item.

`BinaryClientProofs`
- `TypeCorrect`, with the header known inside a chunked message, only publish requests
  without a caller, and a handle exactly for calls in progress.
- `NoDangling`, if `SpuriousWakeups` is false. The inductive invariant `ClientInv` adds
  that all handles known to anybody have been given out (a new one is fresh), that what
  the server holds as publish requests was sent as such, and that a notified caller's
  callback is gone (which a spurious wake-up breaks). One lemma covers every step that
  sends (`SendingStep`), one every step that does not (`QuietStep`).

`BinaryClientDeliveryProofs`
- `AnswersAreOwn`: `StreamInv` says that the chunks of a response follow each other, that the
  header parsed belongs to the response on the wire, and that the buffer holds, as long as no
  response was late, the first chunk of this response or nothing.
- `NotificationsStayInOrder`: `OrderInv` says of the notifications handled, of those in hand or
  queued (`Pipe`), and of those on the wire, that each was sent and that any two are in the order in
  which they were sent, within each stage and from stage to stage. The steps are of five forms:
  nothing, the first message leaves the pipe, a chunk leaves the wire, the server sends
  something else, the server publishes. That a notification is handled at most once is
  `GrantsOrdered`: the publish handles the server holds and has used increase, so none is
  answered a second time.
- `SoleSubscriptionIsHeard`, if `SpuriousWakeups` is false: `HeardInv` says that a response carries the
  subscription of its request, that this no longer changes once the response is under way
  (`Settled`), that each of the server's subscriptions comes from a create request, and that
  whoever publishes has a create request whose callback is stored.

`AddonManagerProofs`
- `TypeCorrect`.
- `DependenciesAlwaysRun`: the invariant `DependencyInv` adds what the loops know of the
  addon they are calling: its dependencies are started, or no started addon depends on it.
- `StartIsExact`: the set of startable addons is the smallest set closed under "all
  dependencies are in it". That started addons are in it is preserved by `Unregister` only
  in the stronger form `StartedAreGrounded`, in which lost dependencies are left aside.
- `NothingLeftRunning`: `StopAddons` ends when it finds no addon to stop, so the invariant
  has to say that there is one as long as addons are started. `RunningInv` says that the started
  addons can be numbered so that each comes after those it depends on; nothing depends on the
  last one. An addon registered late keeps this, since it has no dependencies
  (`LateAddonsAreFree`).

`ServerLifecycleProofs`
- `TimerEndsWithObject`, `TimeIsAlwaysWritten`, `ServerIsWhole`, `AttributesAreStable`: the invariant
  `ServerInv` is the addon manager's (`DependencyInv`, `RunningInv`) with what each started addon
  has registered and each stopped one removed (`PartsMatch`), where `UaServer` is in its calls
  (`ManagerShape`) and in which states of the server object the timer may be (`TimerMatches`).

`AddressSpaceProofs`
- `TypeCorrect` (`WellFormed`): one lemma for each part of `AddNode` says that it keeps the
  store well formed.
- `ReferencesLeadToNodes`, `CopiedNamesCurrent`, `NothingIsForgotten`: every change of the store
  either adds a node or appends one reference whose target exists and whose name is the
  target's; attributes change only in `Write`.
- `AnswersAreNodes`, `CounterNeverRepeats`, `TypesLinked`: the invariant adds that
  generated numbers are positive and not above the counter and that other ids are those
  asked for (`IdsFromCounter`), and for the copied names that a name nobody has written is
  one (`UnwrittenNames`).
- `HierarchyEndsWithoutCycle`, `HierarchyIsReach`: about any store, first that `Levels` satisfies its
  own equation; then that `SelectNodesHierarchy` ends if and only if nothing it reaches lies on
  a cycle, that the model's bound on its depth loses nothing (a level that is not empty after
  as many steps as there are nodes means a cycle), and that what it returns is the smallest
  set with the nodes asked for and the targets of its members.
- `ReferencesWereAsked`: every stored reference is the link to a parent, to a type definition or
  one asked for (`EveryReferenceWasAsked`).
- `TypeBrowsingEnds`, `HierarchyIsSubtypes`: if the requests hang types below types of a smaller
  rank (`Descending`), then so do the stored references, since they were asked for; a set of
  types on a cycle would have no member of least rank. A client's request for a cycle is
  granted by the code, so the hypothesis is needed.
- `PathsLeadToNodes`, `PathsKeepLeading`: a browse path leads to a node or nowhere, and one that
  leads to a node leads to the same one ever after, because references are only appended and
  the first that matches is followed.
- `StandardBrowsingEnds`, `StandardSubtypesExact`, `StandardOrderLosesNoNode`: a step of `StandardAddressSpace`
  folds a stretch of calls over the store. `FoldLeft` of the library is a recursive function
  on sets of positions; `FoldSteps` proves its equation, so that an invariant of the single
  call (`Filling`: well formed, finite, every node and reference asked for) is carried through
  stretches and sequences of references. `FillInv` with the rank argument above gives the
  first two; the third needs `MadeBefore`: every node with a parent that some call makes exists
  as soon as its call has been performed.

`OpcTcpServerProofs`
- `TypeCorrect`, and `NoSubscriptionLeftBehind`: every way in which a connection ends goes through
  `Destroy`, and a new subscription is one of the connection that reads the request, which exists.
- `ReadsEndWithConnection`: every handler of a connection that exists either starts the next read or
  is its last; what else ends connections is `SendFails` and the steps of the stop.
- `RequestsForNotifications`: `CountCovered` says that the service's count of a connection's own
  token is at most the length of its queue, as long as the connection exists.
- `ImplementsExchange`: the initial states correspond, and every step is a `Take`, an
  `AnswerAtOnce`, an `Answer` or a stutter of `Exchange`. That needs `Numbering` (`SequenceNb` is the
  number of answers sent) and `Fresh` (what is queued or answered is at most the number
  of messages received, and is queued once): a new request was never asked, and taking the
  head of the queue takes it out of the set.
- `EveryRequestAnsweredOnce`: the server keeps `AnsweredOnce`, by the refinement and a lemma about
  `Exchange` alone (`ExchangeAnswersOnce`, with the invariant `ExchangeInv`).

Only model-checked: liveness (`DueIsPublished`, `CallsEnd`, `OperationsEnd`, `CallsReturn`: no prover
for fairness here), and `BrowsingFindsEveryType` and `ServerObjectFindsItsNodes`, which are facts
about the data of the particular calls of `StandardNamespace` and not about every value of a
constant. Every other property of a passing run is a theorem.

## 6. Not modelled, and what could follow

- The order of locks. `Write` holds the address space's lock when it takes a subscription's,
  `CreateMonitoredItem` takes them the other way round; critical sections are single steps
  in `SubscriptionService`. A model with locks as variables would show the deadlock.
- Memory. Uses of freed objects and races on the structure of maps and sets are recorded or
  listed as hazards; what they do is undefined.
- Bytes. The stream's order in the client (`send_mutex`, sequence numbers), overlapping
  asynchronous writes, buffer sizes and chunking in the server.
- More io threads in `OpcTcpServer`: the message processor has a mutex of its own; with
  several threads the count of requests is the one of `SubscriptionService`, where it is
  modelled.
- Subscriptions in `ServerLifecycle`: their timers outlive `SubscriptionService` at the stop.
- Client `Subscription` (table of items, reference counts), `UaClient` and its keep-alive thread.
- Encoding, decoding and their generated code, the XML loader, the node and object
  wrappers: translation without state. The legacy `tcp_server.cpp`: no longer configured.
