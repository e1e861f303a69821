-------------------------- MODULE SubscriptionService --------------------------
(***************************************************************************)
(* The server side of OPC UA subscriptions: SubscriptionServiceInternal,   *)
(* the InternalSubscriptions it owns, and the data-change callbacks that   *)
(* connect them to the address space.                                      *)
(*                                                                         *)
(* A step is one critical section of the code: what runs between taking    *)
(* and releasing the mutex that protects the data it changes.  Three       *)
(* operations are not one critical section and are split where the code    *)
(* lets other threads in:                                                  *)
(*   - PublishResults, the timer handler, which takes the subscription's   *)
(*     mutex twice and calls PopPublishRequest, which takes none;          *)
(*   - Publish, because its `+= 1' on the request counter is a load and a  *)
(*     store that PopPublishRequest does not exclude;                      *)
(*   - Write, which calls the registered callbacks one by one.             *)
(* The threads are explicit: IoThreads run the io_service (client requests *)
(* and timer handlers), AppThreads are the application's own threads,      *)
(* which call the same services directly.                                  *)
(***************************************************************************)
EXTENDS Integers, Sequences, FiniteSets

CONSTANTS
  IoThreads,         \* threads of the io_service pool (AsioAddon, "threads")
  AppThreads,        \* application threads that use the server's services
  Sessions,          \* session authentication tokens
  NoSession,         \* no token: the value outside any call
  Nodes,             \* nodes with a Value attribute
  Parameters,        \* requested [LifetimeCount, MaxKeepAliveCount] pairs
  PublishLimit,      \* most publish requests kept per session: 100 in the code
  MaxSubscriptions,  \* bound: subscriptions ever created
  MaxItems,          \* bound: monitored items ever created per subscription
  MaxWrites,         \* bound: values ever written
  MaxEvents,         \* bound: events ever triggered
  MaxPublish         \* bound: publish requests ever received per session

Threads == IoThreads \cup AppThreads

\* LastSubscriptionId starts at 2 and LastMonitoredItemId at 100; both are
\* incremented before use.
SubIds  == 3 .. (2 + MaxSubscriptions)
ItemIds == 101 .. (100 + MaxItems)

\* The empty slot of MonitoredDataChanges; an event item has callback handle 0.
NoItem == -1
\* The empty slot of MonitoredEvents.
NoEvent == 0

ASSUME ConstantsAssumption ==
  /\ NoSession \notin Sessions
  /\ MaxSubscriptions \in Nat /\ MaxItems \in Nat
  /\ MaxWrites \in Nat /\ MaxEvents \in Nat /\ MaxPublish \in Nat
  /\ PublishLimit \in Nat
  /\ Parameters \subseteq [LifetimeCount : Nat, MaxKeepAliveCount : Nat]

\* The list NotAcknowledgedResults is a set here: its results have distinct,
\* increasing numbers (RepublishFaithful), and the numbers are its order.
VARIABLES
  \* SubscriptionServiceInternal
  LastSubscriptionId, SubscriptionsMap, PublishRequestQueues,
  \* InternalSubscription, one function over SubIds per member
  CurrentSession, Data, NotificationSequence, KeepAliveCount, Startup,
  LastMonitoredItemId, MonitoredDataChanges, MonitoredEvents,
  NotAcknowledgedResults, TriggeredDataChangeEvents, TriggeredEvents, Timer,
  \* AddressSpaceInMemory: values and data-change callbacks
  Value, DataChangeCallbacks, DataChangeCallbackHandle,
  \* what every thread is in the middle of
  task,
  \* histories, read by no action: results handed to Callback, acknowledged
  \* numbers, the values every item should report and those it has
  \* reported, requests and responses
  sent, acked, expected, delivered, requests, responses, writes, events

serviceVars == <<LastSubscriptionId, SubscriptionsMap, PublishRequestQueues>>
itemVars    == <<LastMonitoredItemId, MonitoredDataChanges, MonitoredEvents>>
queueVars   == <<TriggeredDataChangeEvents, TriggeredEvents>>
resultVars  == <<NotificationSequence, Startup, NotAcknowledgedResults, sent, acked, delivered>>
paramVars   == <<CurrentSession, Data>>
spaceVars   == <<Value, DataChangeCallbacks, DataChangeCallbackHandle>>
countVars   == <<requests, responses, writes, events>>

vars == <<serviceVars, itemVars, queueVars, resultVars, paramVars, spaceVars,
          KeepAliveCount, Timer, task, expected, countVars>>

--------------------------------------------------------------------------------
(* Types *)

Callback == [handle : Nat, node : Nodes, sub : SubIds, item : ItemIds]
Change   == [item : ItemIds, value : Nat]
EventRec == [item : ItemIds, event : Nat]
Result   == [SequenceNumber : Nat, changes : Seq(Change), events : Seq(EventRec),
             AvailableSequenceNumbers : SUBSET Nat]

\* deadline_timer of a subscription: "expired" is a completed wait whose handler
\* is queued and which Timer.cancel() no longer reaches; "running" a handler in
\* progress; "aborted" a cancelled wait whose handler is queued with an error.
TimerStates == {"none", "armed", "expired", "running", "aborted", "stopped"}

Ops == {"idle", "poprequest", "popstore", "popresult", "publish", "write"}

Task == [op : Ops, sub : SubIds \cup {0}, session : Sessions \cup {NoSession},
         count : Nat, pending : SUBSET Callback]

Idle == [op |-> "idle", sub |-> 0, session |-> NoSession, count |-> 0, pending |-> {}]

ServiceTypes ==
  /\ LastSubscriptionId \in 2 .. (2 + MaxSubscriptions)
  /\ SubscriptionsMap \in SUBSET SubIds
  /\ PublishRequestQueues \in [Sessions -> Nat]
ParamTypes ==
  /\ CurrentSession \in [SubIds -> Sessions \cup {NoSession}]
  /\ Data \in [SubIds -> [LifetimeCount : Nat, MaxKeepAliveCount : Nat]]
ItemTypes ==
  /\ LastMonitoredItemId \in [SubIds -> 100 .. (100 + MaxItems)]
  /\ MonitoredDataChanges \in [SubIds -> [ItemIds -> Nat \cup {NoItem}]]
  /\ MonitoredEvents \in [SubIds -> [Nodes -> ItemIds \cup {NoEvent}]]
QueueTypes ==
  /\ TriggeredDataChangeEvents \in [SubIds -> Seq(Change)]
  /\ TriggeredEvents \in [SubIds -> Seq(EventRec)]
ResultTypes ==
  /\ NotificationSequence \in [SubIds -> Nat \ {0}]
  /\ Startup \in [SubIds -> BOOLEAN]
  /\ NotAcknowledgedResults \in [SubIds -> SUBSET Result]
  /\ sent \in [SubIds -> Seq(Result)]
  /\ acked \in [SubIds -> SUBSET Nat]
SpaceTypes ==
  /\ Value \in [Nodes -> Nat]
  /\ DataChangeCallbacks \in SUBSET Callback
  /\ DataChangeCallbackHandle \in Nat
CountTypes ==
  /\ requests \in [Sessions -> Nat]
  /\ responses \in [Sessions -> Nat]
  /\ writes \in Nat /\ events \in Nat

\* Every variable has its type (the histories expected and delivered aside).
TypeOK ==
  /\ ServiceTypes /\ ParamTypes /\ ItemTypes /\ QueueTypes /\ ResultTypes
  /\ SpaceTypes /\ CountTypes
  /\ KeepAliveCount \in [SubIds -> Nat]
  /\ Timer \in [SubIds -> TimerStates]
  /\ task \in [Threads -> Task]

--------------------------------------------------------------------------------
(* Locks and threads *)

\* SubscriptionServiceInternal::DbMutex is held across steps only by Publish.
ServiceFree == \A t \in Threads : task[t].op # "publish"

\* AddressSpaceInMemory::DbMutex is held across steps only by Write.
SpaceFree == \A t \in Threads : task[t].op # "write"

\* A thread that starts an operation has no other one in progress.
CanStart(t) == task[t] = Idle

Goto(t, new) == task' = [task EXCEPT ![t] = new]
Finish(t)    == Goto(t, Idle)

--------------------------------------------------------------------------------
(* The state before the first request *)

Init ==
  /\ LastSubscriptionId = 2
  /\ SubscriptionsMap = {}
  /\ PublishRequestQueues = [q \in Sessions |-> 0]
  /\ CurrentSession = [s \in SubIds |-> NoSession]
  /\ Data = [s \in SubIds |-> [LifetimeCount |-> 0, MaxKeepAliveCount |-> 0]]
  /\ NotificationSequence = [s \in SubIds |-> 1]
  /\ KeepAliveCount = [s \in SubIds |-> 0]
  /\ Startup = [s \in SubIds |-> TRUE]
  /\ LastMonitoredItemId = [s \in SubIds |-> 100]
  /\ MonitoredDataChanges = [s \in SubIds |-> [i \in ItemIds |-> NoItem]]
  /\ MonitoredEvents = [s \in SubIds |-> [n \in Nodes |-> NoEvent]]
  /\ NotAcknowledgedResults = [s \in SubIds |-> {}]
  /\ TriggeredDataChangeEvents = [s \in SubIds |-> <<>>]
  /\ TriggeredEvents = [s \in SubIds |-> <<>>]
  /\ Timer = [s \in SubIds |-> "none"]
  /\ Value = [n \in Nodes |-> 0]
  /\ DataChangeCallbacks = {}
  /\ DataChangeCallbackHandle = 0
  /\ task = [t \in Threads |-> Idle]
  /\ sent = [s \in SubIds |-> <<>>]
  /\ acked = [s \in SubIds |-> {}]
  /\ expected = [s \in SubIds |-> [i \in ItemIds |-> <<>>]]
  /\ delivered = [s \in SubIds |-> [i \in ItemIds |-> <<>>]]
  /\ requests = [q \in Sessions |-> 0]
  /\ responses = [q \in Sessions |-> 0]
  /\ writes = 0
  /\ events = 0

--------------------------------------------------------------------------------
(* CreateSubscription: the revised parameters are the requested ones; the  *)
(* timer is started before the subscription is entered in the map, under   *)
(* the same lock.                                                          *)

CreateSubscription(t, session, p) ==
  LET id == LastSubscriptionId + 1 IN
  /\ CanStart(t) /\ ServiceFree
  /\ id \in SubIds
  /\ LastSubscriptionId' = id
  /\ SubscriptionsMap' = SubscriptionsMap \cup {id}
  /\ CurrentSession' = [CurrentSession EXCEPT ![id] = session]
  /\ Data' = [Data EXCEPT ![id] = p]
  /\ Timer' = [Timer EXCEPT ![id] = "armed"]
  /\ UNCHANGED <<PublishRequestQueues, itemVars, queueVars, resultVars, spaceVars,
                 KeepAliveCount, task, expected, countVars>>

--------------------------------------------------------------------------------
(* Monitored items.  A request with several items is a series of critical  *)
(* sections of the subscription, so every item is a step of its own.  A    *)
(* request for an unknown subscription changes nothing.                    *)

\* The item is registered with the address space (AddDataChangeCallback), stored,
\* and its current value queued (TriggerDataChangeEvent reads it under the
\* address space's lock, hence SpaceFree).
CreateMonitoredDataChange(t, s, n) ==
  LET id == LastMonitoredItemId[s] + 1
      handle == DataChangeCallbackHandle + 1
  IN
  /\ CanStart(t) /\ ServiceFree /\ SpaceFree
  /\ s \in SubscriptionsMap
  /\ id \in ItemIds
  /\ LastMonitoredItemId' = [LastMonitoredItemId EXCEPT ![s] = id]
  /\ DataChangeCallbackHandle' = handle
  /\ DataChangeCallbacks' = DataChangeCallbacks \cup
       {[handle |-> handle, node |-> n, sub |-> s, item |-> id]}
  /\ MonitoredDataChanges' = [MonitoredDataChanges EXCEPT ![s][id] = handle]
  /\ TriggeredDataChangeEvents' = [TriggeredDataChangeEvents EXCEPT
       ![s] = Append(@, [item |-> id, value |-> Value[n]])]
  /\ expected' = [expected EXCEPT ![s][id] = <<Value[n]>>]
  /\ UNCHANGED <<serviceVars, paramVars, resultVars, MonitoredEvents, TriggeredEvents,
                 Value, KeepAliveCount, Timer, task, countVars>>

\* AddDataChangeCallback throws for a node or an attribute that does not exist:
\* the identifier is used up, nothing else changes.
CreateMonitoredItemThrows(t, s) ==
  /\ CanStart(t) /\ ServiceFree
  /\ s \in SubscriptionsMap
  /\ LastMonitoredItemId[s] + 1 \in ItemIds
  /\ LastMonitoredItemId' = [LastMonitoredItemId EXCEPT ![s] = @ + 1]
  /\ UNCHANGED <<serviceVars, paramVars, resultVars, MonitoredDataChanges, MonitoredEvents,
                 queueVars, spaceVars, KeepAliveCount, Timer, task, expected, countVars>>

\* An EventNotifier item is recorded under its node, over any earlier item of
\* that node, and in MonitoredDataChanges with callback handle 0.
CreateMonitoredEvent(t, s, n) ==
  LET id == LastMonitoredItemId[s] + 1 IN
  /\ CanStart(t) /\ ServiceFree
  /\ s \in SubscriptionsMap
  /\ id \in ItemIds
  /\ LastMonitoredItemId' = [LastMonitoredItemId EXCEPT ![s] = id]
  /\ MonitoredEvents' = [MonitoredEvents EXCEPT ![s][n] = id]
  /\ MonitoredDataChanges' = [MonitoredDataChanges EXCEPT ![s][id] = 0]
  /\ UNCHANGED <<serviceVars, paramVars, resultVars, queueVars, spaceVars,
                 KeepAliveCount, Timer, task, expected, countVars>>

\* The ids a DeleteMonitoredEvent call finds in MonitoredEvents.
EventIds(s) == {MonitoredEvents[s][n] : n \in Nodes} \ {NoEvent}
\* The ids present in MonitoredDataChanges.
Present(s) == {i \in ItemIds : MonitoredDataChanges[s][i] # NoItem}

\* The sequences that keep exactly the entries of a queue at some positions, in
\* their order: a set with one element.
Selections(queue, keep) ==
  LET n == Cardinality(keep)
      increasing == {f \in [1 .. n -> keep] : \A j, k \in 1 .. n : j < k => f[j] < f[k]}
  IN {[k \in 1 .. n |-> queue[f[k]]] : f \in increasing}

\* Faulty: the triggered changes of a deleted item stay; all changes go with it.
FaultyKeepsChanges(queue, items) == {queue}
FaultyClearsChanges(queue, items) == {<<>>}

\* What erasing the entries of the deleted items leaves of a queue of data changes,
\* and of a queue of events.
PurgedChanges(queue, items) ==
  Selections(queue, {j \in 1 .. Len(queue) : queue[j].item \notin items})
PurgedEvents(queue, items) ==
  Selections(queue, {j \in 1 .. Len(queue) : queue[j].item \notin items})

\* Faulty: the callbacks stay registered.
FaultyKeepsCallbacks(handles) == DataChangeCallbacks

\* DeleteDataChangeCallback for every handle.
CallbacksWithout(handles) == {c \in DataChangeCallbacks : c.handle \notin handles}

(* DeleteMonitoredItemsIds for a set of ids.  An id found in MonitoredEvents *)
(* loses its entry there and its queued events, and keeps its entry in       *)
(* MonitoredDataChanges; any other known id loses its address-space callback *)
(* if it has one, its entry and its queued data changes.                     *)
DeleteMonitoredItemsIds(s, ids) ==
  LET eventItems == ids \cap EventIds(s)
      dataItems  == (ids \ eventItems) \cap Present(s)
      handles    == {MonitoredDataChanges[s][i] : i \in dataItems} \ {0}
  IN
  /\ MonitoredEvents' = [MonitoredEvents EXCEPT ![s] =
       [n \in Nodes |-> IF @[n] \in eventItems THEN NoEvent ELSE @[n]]]
  /\ MonitoredDataChanges' = [MonitoredDataChanges EXCEPT ![s] =
       [i \in ItemIds |-> IF i \in dataItems THEN NoItem ELSE @[i]]]
  /\ DataChangeCallbacks' = CallbacksWithout(handles)
  /\ \E left \in PurgedEvents(TriggeredEvents[s], eventItems) :
       TriggeredEvents' = [TriggeredEvents EXCEPT ![s] = left]
  /\ \E left \in PurgedChanges(TriggeredDataChangeEvents[s], dataItems) :
       TriggeredDataChangeEvents' = [TriggeredDataChangeEvents EXCEPT ![s] = left]

DeleteMonitoredItems(t, s, i) ==
  /\ CanStart(t) /\ ServiceFree
  /\ s \in SubscriptionsMap
  /\ i \in Present(s)
  /\ DeleteMonitoredItemsIds(s, {i})
  /\ UNCHANGED <<serviceVars, paramVars, resultVars, LastMonitoredItemId, Value,
                 DataChangeCallbackHandle, KeepAliveCount, Timer, task, expected, countVars>>

\* DeleteSubscriptions: Stop deletes every monitored item and cancels the timer,
\* which only aborts a wait that has not completed yet.
DeleteSubscriptions(t, s) ==
  /\ CanStart(t) /\ ServiceFree
  /\ s \in SubscriptionsMap
  /\ DeleteMonitoredItemsIds(s, Present(s))
  /\ Timer' = [Timer EXCEPT ![s] = IF @ = "armed" THEN "aborted" ELSE @]
  /\ SubscriptionsMap' = SubscriptionsMap \ {s}
  /\ UNCHANGED <<LastSubscriptionId, PublishRequestQueues, paramVars, resultVars,
                 LastMonitoredItemId, Value, DataChangeCallbackHandle, KeepAliveCount,
                 task, expected, countVars>>

--------------------------------------------------------------------------------
(* Data changes and events *)

\* AddressSpaceInMemory::Write stores the value and, still holding the address
\* space's lock, calls the callbacks registered for the attribute.
Write(t, n) ==
  /\ CanStart(t) /\ SpaceFree
  /\ writes < MaxWrites
  /\ writes' = writes + 1
  /\ Value' = [Value EXCEPT ![n] = writes + 1]
  /\ Goto(t, [Idle EXCEPT !.op = "write",
                          !.pending = {c \in DataChangeCallbacks : c.node = n}])
  /\ expected' = [s \in SubIds |-> [i \in ItemIds |->
       IF \E c \in DataChangeCallbacks : c.node = n /\ c.sub = s /\ c.item = i
       THEN Append(expected[s][i], writes + 1)
       ELSE expected[s][i]]]
  /\ UNCHANGED <<serviceVars, paramVars, itemVars, queueVars, resultVars,
                 DataChangeCallbacks, DataChangeCallbackHandle, KeepAliveCount, Timer,
                 requests, responses, events>>

\* One callback, in the order of the handles: DataChangeCallback queues the value
\* unless the item has been deleted since.
DataChangeCallback(t, c) ==
  LET known == MonitoredDataChanges[c.sub][c.item] # NoItem IN
  /\ task[t].op = "write"
  /\ c \in task[t].pending
  /\ \A d \in task[t].pending : c.handle <= d.handle
  /\ TriggeredDataChangeEvents' = IF known
       THEN [TriggeredDataChangeEvents EXCEPT
               ![c.sub] = Append(@, [item |-> c.item, value |-> Value[c.node]])]
       ELSE TriggeredDataChangeEvents
  /\ Goto(t, [task[t] EXCEPT !.pending = @ \ {c}])
  /\ UNCHANGED <<serviceVars, paramVars, itemVars, TriggeredEvents, resultVars, spaceVars,
                 KeepAliveCount, Timer, expected, countVars>>

WriteReturns(t) ==
  /\ task[t].op = "write"
  /\ task[t].pending = {}
  /\ Finish(t)
  /\ UNCHANGED <<serviceVars, paramVars, itemVars, queueVars, resultVars, spaceVars,
                 KeepAliveCount, Timer, expected, countVars>>

\* TriggerEvent looks the node up in every subscription and EnqueueEvent appends
\* the event for the item found.  The service's shared lock keeps the items as
\* they are between the lookup and the append.
TriggerEvent(t, n) ==
  /\ CanStart(t) /\ ServiceFree
  /\ events < MaxEvents
  /\ events' = events + 1
  /\ TriggeredEvents' = [s \in SubIds |->
       IF /\ s \in SubscriptionsMap
          /\ MonitoredEvents[s][n] # NoEvent
          /\ MonitoredDataChanges[s][MonitoredEvents[s][n]] # NoItem
       THEN Append(TriggeredEvents[s], [item |-> MonitoredEvents[s][n], event |-> events + 1])
       ELSE TriggeredEvents[s]]
  /\ UNCHANGED <<serviceVars, paramVars, itemVars, TriggeredDataChangeEvents, resultVars,
                 spaceVars, KeepAliveCount, Timer, task, expected, requests, responses, writes>>

--------------------------------------------------------------------------------
(* Publish requests *)

\* Publish, under the service's lock, loads the session's counter ...
PublishLoad(t, session) ==
  /\ CanStart(t) /\ ServiceFree
  /\ requests[session] < MaxPublish
  /\ requests' = [requests EXCEPT ![session] = @ + 1]
  /\ Goto(t, [Idle EXCEPT !.op = "publish", !.session = session,
                          !.count = PublishRequestQueues[session]])
  /\ UNCHANGED <<serviceVars, paramVars, itemVars, queueVars, resultVars, spaceVars,
                 KeepAliveCount, Timer, expected, responses, writes, events>>

\* The results a Publish request can acknowledge with an effect: NewAcknowlegment
\* ignores any other subscription or number.
Outstanding ==
  UNION {{<<s, r.SequenceNumber>> : r \in NotAcknowledgedResults[s]} :
           s \in SubscriptionsMap}

\* Faulty: acknowledgements are ignored.
FaultyIgnoresAcks(results, numbers) == results

\* NewAcknowlegment for the acknowledged numbers of one subscription.
Unacknowledged(results, numbers) ==
  {r \in results : r.SequenceNumber \notin numbers}

\* ... and stores it one higher unless it is at its limit; then it removes the
\* acknowledged results.
PublishStore(t, acks) ==
  LET session == task[t].session
      numbers(s) == {a[2] : a \in {b \in acks : b[1] = s}}
  IN
  /\ task[t].op = "publish"
  /\ PublishRequestQueues' = IF task[t].count < PublishLimit
       THEN [PublishRequestQueues EXCEPT ![session] = task[t].count + 1]
       ELSE PublishRequestQueues
  /\ NotAcknowledgedResults' = [s \in SubIds |->
       IF s \in SubscriptionsMap THEN Unacknowledged(NotAcknowledgedResults[s], numbers(s))
       ELSE NotAcknowledgedResults[s]]
  /\ acked' = [s \in SubIds |-> acked[s] \cup numbers(s)]
  /\ Finish(t)
  /\ UNCHANGED <<LastSubscriptionId, SubscriptionsMap, paramVars, itemVars, queueVars,
                 NotificationSequence, Startup, sent, delivered, spaceVars, KeepAliveCount, Timer,
                 expected, countVars>>

--------------------------------------------------------------------------------
(* The publishing timer and its handler, PublishResults *)

HasExpired(s) == KeepAliveCount[s] > Data[s].LifetimeCount

\* The condition under which HasPublishResult returns TRUE; otherwise it counts
\* one more idle period.
HasPublishResult(s) ==
  \/ Startup[s]
  \/ TriggeredDataChangeEvents[s] # <<>>
  \/ TriggeredEvents[s] # <<>>
  \/ KeepAliveCount[s] > Data[s].MaxKeepAliveCount

\* Faulty: expiry is not checked.
FaultyPublishesExpired(s) == Timer[s] = "expired"

\* PublishResults goes on past its early returns.
MayPublish(s) == Timer[s] = "expired" /\ ~HasExpired(s)

\* Faulty: the timer is not started again.
FaultyStopsTimer(s) == Timer' = [Timer EXCEPT ![s] = "stopped"]

\* The end of PublishResults: the next wait is started, whether or not anything
\* was sent.
Rearm(s) == Timer' = [Timer EXCEPT ![s] = "armed"]

TimerExpires(s) ==
  /\ Timer[s] = "armed"
  /\ Timer' = [Timer EXCEPT ![s] = "expired"]
  /\ UNCHANGED <<serviceVars, paramVars, itemVars, queueVars, resultVars, spaceVars,
                 KeepAliveCount, task, expected, countVars>>

\* The handler called with an error, or for an expired subscription, returns
\* without starting the timer again.
PublishResultsStops(t, s) ==
  /\ CanStart(t)
  /\ \/ Timer[s] = "aborted"
     \/ Timer[s] = "expired" /\ HasExpired(s)
  /\ Timer' = [Timer EXCEPT ![s] = "stopped"]
  /\ UNCHANGED <<serviceVars, paramVars, itemVars, queueVars, resultVars, spaceVars,
                 KeepAliveCount, task, expected, countVars>>

\* Nothing to publish: count the period, start the timer again.
PublishResultsNothing(t, s) ==
  /\ CanStart(t)
  /\ MayPublish(s)
  /\ ~HasPublishResult(s)
  /\ KeepAliveCount' = [KeepAliveCount EXCEPT ![s] = @ + 1]
  /\ Rearm(s)
  /\ UNCHANGED <<serviceVars, paramVars, itemVars, queueVars, resultVars, spaceVars,
                 task, expected, countVars>>

\* Faulty: the timer is started again before the result is sent.
FaultyRearmsFirst(t, s) ==
  /\ CanStart(t) /\ MayPublish(s) /\ HasPublishResult(s)
  /\ Rearm(s)
  /\ Goto(t, [Idle EXCEPT !.op = "poprequest", !.sub = s, !.session = CurrentSession[s]])
  /\ UNCHANGED <<serviceVars, paramVars, itemVars, queueVars, resultVars, spaceVars,
                 KeepAliveCount, expected, countVars>>

\* Something to publish: go on to PopPublishRequest, the subscription's mutex
\* released.
PublishResultsDue(t, s) ==
  /\ CanStart(t)
  /\ MayPublish(s)
  /\ HasPublishResult(s)
  /\ Timer' = [Timer EXCEPT ![s] = "running"]
  /\ Goto(t, [Idle EXCEPT !.op = "poprequest", !.sub = s, !.session = CurrentSession[s]])
  /\ UNCHANGED <<serviceVars, paramVars, itemVars, queueVars, resultVars, spaceVars,
                 KeepAliveCount, expected, countVars>>

\* Faulty: the request is not taken from the counter; two are.
FaultyKeepsRequest(count) == count
FaultyTakesTwo(count) == count - 2

\* What PopPublishRequest leaves of a counter it has read as `count'.
Decremented(count) == count - 1

\* PopPublishRequest takes no lock.  A counter of zero (or none at all) sends
\* nothing in this period.
PopPublishRequestMissing(t) ==
  /\ task[t].op = "poprequest"
  /\ PublishRequestQueues[task[t].session] = 0
  /\ Rearm(task[t].sub)
  /\ Finish(t)
  /\ UNCHANGED <<serviceVars, paramVars, itemVars, queueVars, resultVars, spaceVars,
                 KeepAliveCount, expected, countVars>>

PopPublishRequestLoad(t) ==
  /\ task[t].op = "poprequest"
  /\ PublishRequestQueues[task[t].session] # 0
  /\ Goto(t, [task[t] EXCEPT !.op = "popstore",
                             !.count = PublishRequestQueues[task[t].session]])
  /\ UNCHANGED <<serviceVars, paramVars, itemVars, queueVars, resultVars, spaceVars,
                 KeepAliveCount, Timer, expected, countVars>>

PopPublishRequestStore(t) ==
  /\ task[t].op = "popstore"
  /\ PublishRequestQueues' = [PublishRequestQueues EXCEPT
                                ![task[t].session] = Decremented(task[t].count)]
  /\ Goto(t, [task[t] EXCEPT !.op = "popresult", !.count = 0])
  /\ UNCHANGED <<LastSubscriptionId, SubscriptionsMap, paramVars, itemVars, queueVars,
                 resultVars, spaceVars, KeepAliveCount, Timer, expected, countVars>>

\* The result PopPublishResult builds from the queues of a subscription.
NewResult(s) ==
  [SequenceNumber |-> NotificationSequence[s],
   changes |-> TriggeredDataChangeEvents[s],
   events |-> TriggeredEvents[s],
   AvailableSequenceNumbers |->
     {r.SequenceNumber : r \in NotAcknowledgedResults[s]}]

\* The values that the first entries of a queue of data changes report for an item,
\* and those that the whole queue does.
ValuesUpTo(queue, i) ==
  LET upTo[n \in 0 .. Len(queue)] ==
        IF n = 0 THEN <<>>
        ELSE IF queue[n].item = i THEN Append(upTo[n - 1], queue[n].value) ELSE upTo[n - 1]
  IN upTo
ValuesOf(queue, i) == ValuesUpTo(queue, i)[Len(queue)]

\* PopPublishResult empties both queues into one result, which is kept for
\* Republish and handed to Callback; then the timer is started again.
PopPublishResult(t) ==
  LET s == task[t].sub IN
  /\ task[t].op = "popresult"
  /\ TriggeredDataChangeEvents' = [TriggeredDataChangeEvents EXCEPT ![s] = <<>>]
  /\ TriggeredEvents' = [TriggeredEvents EXCEPT ![s] = <<>>]
  /\ KeepAliveCount' = [KeepAliveCount EXCEPT ![s] = 0]
  /\ Startup' = [Startup EXCEPT ![s] = FALSE]
  /\ NotificationSequence' = [NotificationSequence EXCEPT ![s] = @ + 1]
  /\ NotAcknowledgedResults' = [NotAcknowledgedResults EXCEPT ![s] = @ \cup {NewResult(s)}]
  /\ sent' = [sent EXCEPT ![s] = Append(@, NewResult(s))]
  /\ delivered' = [delivered EXCEPT ![s] =
       [i \in ItemIds |-> @[i] \o ValuesOf(NewResult(s).changes, i)]]
  /\ responses' = [responses EXCEPT ![task[t].session] = @ + 1]
  /\ Rearm(s)
  /\ Finish(t)
  /\ UNCHANGED <<serviceVars, paramVars, itemVars, acked, spaceVars, expected,
                 requests, writes, events>>

\* Republish: the kept result with this number, or that there is none.
Republish(s, number) ==
  LET kept == {r \in NotAcknowledgedResults[s] : r.SequenceNumber = number} IN
  IF s \notin SubscriptionsMap THEN [Status |-> "BadSubscriptionIdInvalid"]
  ELSE IF kept = {} THEN [Status |-> "BadMessageNotAvailable"]
  ELSE LET r == CHOOSE r \in kept : TRUE
       IN [Status |-> "Good", SequenceNumber |-> r.SequenceNumber,
           changes |-> r.changes, events |-> r.events]

--------------------------------------------------------------------------------

\* A service call, from a client (an io thread) or from the application.
ServiceCall(t) ==
  \/ \E q \in Sessions : \E p \in Parameters : CreateSubscription(t, q, p)
  \/ \E s \in SubIds :
       \/ \E n \in Nodes : CreateMonitoredDataChange(t, s, n)
       \/ \E n \in Nodes : CreateMonitoredEvent(t, s, n)
       \/ CreateMonitoredItemThrows(t, s)
       \/ \E i \in ItemIds : DeleteMonitoredItems(t, s, i)
       \/ DeleteSubscriptions(t, s)
  \/ \E n \in Nodes : Write(t, n)
  \/ \E n \in Nodes : TriggerEvent(t, n)
  \/ \E q \in Sessions : PublishLoad(t, q)

\* The rest of a Write or Publish call in progress.
ContinueCall(t) ==
  \/ \E c \in task[t].pending : DataChangeCallback(t, c)
  \/ WriteReturns(t)
  \/ \E acks \in SUBSET Outstanding : PublishStore(t, acks)

\* The start of a timer handler, and the rest of it.
StartHandler(t, s) ==
  \/ PublishResultsStops(t, s)
  \/ PublishResultsNothing(t, s)
  \/ PublishResultsDue(t, s)

ContinueHandler(t) ==
  \/ PopPublishRequestMissing(t)
  \/ PopPublishRequestLoad(t)
  \/ PopPublishRequestStore(t)
  \/ PopPublishResult(t)

Next ==
  \/ \E t \in Threads : ServiceCall(t) \/ ContinueCall(t)
  \/ \E s \in SubIds : TimerExpires(s)
  \/ \E t \in IoThreads : ContinueHandler(t) \/ \E s \in SubIds : StartHandler(t, s)

Spec == Init /\ [][Next]_vars

\* deadline_timer completes its waits and the io_service runs queued handlers in
\* turn, so that every completed wait is served; a call or a handler that has begun
\* goes on.  Clients and the application owe nothing.
Fairness ==
  /\ \A s \in SubIds :
       /\ WF_vars(TimerExpires(s))
       /\ SF_vars(\E t \in IoThreads : StartHandler(t, s))
  /\ \A t \in IoThreads : WF_vars(ContinueHandler(t))
  /\ \A t \in Threads : WF_vars(ContinueCall(t))

FairSpec == Spec /\ Fairness

--------------------------------------------------------------------------------
(* Properties *)

\* The address space's callbacks and the data-change items correspond one to one,
\* and only a registered subscription has any: a callback captures a bare pointer
\* to its subscription (CreateMonitoredItem, DeleteMonitoredDataChange, Stop).
CallbacksMatchItems ==
  /\ \A c \in DataChangeCallbacks :
       /\ c.sub \in SubscriptionsMap
       /\ c.handle \in 1 .. DataChangeCallbackHandle
       /\ MonitoredDataChanges[c.sub][c.item] = c.handle
  /\ \A s \in SubIds, i \in ItemIds : MonitoredDataChanges[s][i] > 0 =>
       \E c \in DataChangeCallbacks :
          c.sub = s /\ c.item = i /\ c.handle = MonitoredDataChanges[s][i]
  /\ \A c, d \in DataChangeCallbacks : c.handle = d.handle => c = d

\* Every queued data change belongs to an item that still exists: deleting an item
\* empties what it has triggered, and a callback that comes later finds nothing to
\* queue for (DeleteMonitoredDataChange, DataChangeCallback).
ChangesBelongToItems ==
  \A s \in SubIds : \A j \in 1 .. Len(TriggeredDataChangeEvents[s]) :
     MonitoredDataChanges[s][TriggeredDataChangeEvents[s][j].item] > 0

\* The item found under a node by TriggerEvent is the newest event item created for
\* the node and still has its entry in MonitoredDataChanges, so that EnqueueEvent
\* never drops an event.
EventItemsExist ==
  \A s \in SubIds, n \in Nodes : MonitoredEvents[s][n] # NoEvent =>
     /\ MonitoredDataChanges[s][MonitoredEvents[s][n]] = 0
     /\ \A m \in Nodes : MonitoredEvents[s][m] = MonitoredEvents[s][n] => m = n

\* The value a Write in progress has stored and not yet called an item back with.
InFlight(s, i) ==
  LET calls == {c \in UNION {task[t].pending : t \in Threads} : c.sub = s /\ c.item = i}
  IN IF calls = {} THEN <<>> ELSE <<Value[(CHOOSE c \in calls : TRUE).node]>>

\* No change is lost, repeated or reordered: what an existing item has reported in
\* the results sent, then what is queued for it, then the value of a Write that has
\* yet to call it back, is the value it had when it was created followed by every
\* value written since (Write, DataChangeCallback, PopPublishResult).
NoChangeLost ==
  \A s \in SubIds, i \in ItemIds : MonitoredDataChanges[s][i] > 0 =>
     expected[s][i] =
       delivered[s][i] \o ValuesOf(TriggeredDataChangeEvents[s], i) \o InFlight(s, i)

\* Republish answers a sent and unacknowledged number with exactly the message that
\* was sent under it, and an acknowledged one with BadMessageNotAvailable.
RepublishFaithful ==
  \A s \in SubscriptionsMap : \A k \in 1 .. Len(sent[s]) :
     Republish(s, k) =
       IF k \in acked[s] THEN [Status |-> "BadMessageNotAvailable"]
       ELSE [Status |-> "Good", SequenceNumber |-> k,
             changes |-> sent[s][k].changes, events |-> sent[s][k].events]

\* Every response consumes a publish request of its session: "Check we received a
\* publishrequest before sening respomse" (internal_subscription.cpp, PublishResults).
ResponsesNeverExceedRequests ==
  \A q \in Sessions : responses[q] <= requests[q]

\* A subscription has at most one publishing handler in progress, on one thread, and
\* no wait pending meanwhile: the handler reads KeepAliveCount without the lock and
\* is the only one to start the timer again (Start, PublishResults).
HandlerOps == {"poprequest", "popstore", "popresult"}
OneHandlerEach ==
  \A t \in Threads : task[t].op \in HandlerOps =>
     /\ Timer[task[t].sub] = "running"
     /\ \A u \in Threads \ {t} :
          task[u].op \in HandlerOps => task[u].sub # task[t].sub

\* An expired subscription is silent for good: it sends nothing more and its idle
\* count is never reset (HasExpired, PublishResults).
ExpiryIsFinal ==
  [][\A s \in SubIds : HasExpired(s) /\ Timer[s] # "none" =>
        sent'[s] = sent[s] /\ KeepAliveCount'[s] = KeepAliveCount[s]]_vars

\* A subscription that has something to send: the first response, data changes,
\* events or a keep-alive.
Due(s) == s \in SubscriptionsMap /\ ~HasExpired(s) /\ HasPublishResult(s)

\* A due result waits forever only if the session runs out of publish requests for
\* good: PublishResults starts its timer again on every path but expiry.
DueIsPublished ==
  \A s \in SubIds : <>[]Due(s) =>
     <>[](\E q \in Sessions : q = CurrentSession[s] /\ PublishRequestQueues[q] = 0)
================================================================================
