----------------------- MODULE SubscriptionServiceProofs -----------------------
(***************************************************************************)
(* Proofs about SubscriptionService, for any number of threads, sessions,  *)
(* nodes and subscriptions.                                                *)
(***************************************************************************)
EXTENDS SubscriptionService, FiniteSetTheorems, SequenceTheorems, TLAPS

\* Every subscription that has been created belongs to a session, and a call in
\* progress knows its session and, in a handler, its subscription.
SessionsKnown ==
  /\ \A s \in SubIds : Timer[s] # "none" =>
       s <= LastSubscriptionId /\ CurrentSession[s] \in Sessions
  /\ \A t \in Threads :
       /\ task[t].op \in HandlerOps \cup {"publish"} => task[t].session \in Sessions
       /\ task[t].op \in HandlerOps => task[t].sub \in SubIds
       /\ task[t].op = "popstore" => task[t].count > 0

\* The inductive invariant behind type correctness.
CallsConsistent == SessionsKnown /\ OneHandlerEach

TypeInv == TypeOK /\ CallsConsistent

--------------------------------------------------------------------------------
(* Lemmas about the operators of the model *)

\* An entry that purging leaves was in the queue and belongs to no deleted item.
LEMMA SelectionsType ==
  ASSUME NEW T, NEW queue \in Seq(T), NEW keep \in SUBSET (1 .. Len(queue)),
         NEW left \in Selections(queue, keep)
  PROVE  /\ left \in Seq(T)
         /\ \A k \in 1 .. Len(left) : \E j \in keep : left[k] = queue[j]
<1> DEFINE n == Cardinality(keep)
<1>1. IsFiniteSet(keep) /\ n \in Nat
  <2>1. Len(queue) \in Nat
    OBVIOUS
  <2>2. IsFiniteSet(1 .. Len(queue))
    BY <2>1, FS_Interval
  <2>3. IsFiniteSet(keep)
    BY <2>2, FS_Subset
  <2>4. QED
    BY <2>3, FS_CardinalityType
<1>2. PICK f \in [1 .. n -> keep] : left = [k \in 1 .. n |-> queue[f[k]]]
  BY DEF Selections
<1> HIDE DEF n
<1>3. left \in [1 .. n -> T]
  <2>1. \A j \in keep : queue[j] \in T
    BY ElementOfSeq
  <2>2. \A k \in 1 .. n : queue[f[k]] \in T
    BY <1>2, <2>1
  <2>3. QED
    BY <1>2, <2>2
<1>4. left \in Seq(T) /\ Len(left) = n
  BY <1>1, <1>3
<1>5. \A k \in 1 .. n : f[k] \in keep /\ left[k] = queue[f[k]]
  BY <1>2
<1>6. QED
  BY <1>4, <1>5

LEMMA PurgedChangesType ==
  ASSUME NEW queue \in Seq(Change), NEW items,
         NEW left \in PurgedChanges(queue, items)
  PROVE  /\ left \in Seq(Change)
         /\ \A k \in 1 .. Len(left) :
              left[k].item \notin items /\ \E j \in 1 .. Len(queue) : left[k] = queue[j]
<1> DEFINE keep == {j \in 1 .. Len(queue) : queue[j].item \notin items}
<1>1. left \in Selections(queue, keep) /\ keep \in SUBSET (1 .. Len(queue))
  BY DEF PurgedChanges
<1>2. left \in Seq(Change) /\ \A k \in 1 .. Len(left) : \E j \in keep : left[k] = queue[j]
  BY <1>1, SelectionsType
<1>3. QED
  BY <1>2

LEMMA PurgedEventsType ==
  ASSUME NEW queue \in Seq(EventRec), NEW items,
         NEW left \in PurgedEvents(queue, items)
  PROVE  left \in Seq(EventRec)
<1> DEFINE keep == {j \in 1 .. Len(queue) : queue[j].item \notin items}
<1>1. left \in Selections(queue, keep) /\ keep \in SUBSET (1 .. Len(queue))
  BY DEF PurgedEvents
<1>2. QED
  BY <1>1, SelectionsType

LEMMA IdleType == Idle \in Task
BY DEF Idle, Task, Ops

--------------------------------------------------------------------------------
(* Type correctness *)

LEMMA InitType == Init => TypeInv
<1> SUFFICES ASSUME Init PROVE TypeInv
  OBVIOUS
<1> USE ConstantsAssumption DEF Init
<1>1. ServiceTypes /\ ParamTypes /\ SpaceTypes /\ CountTypes
  BY DEF ServiceTypes, ParamTypes, SpaceTypes, CountTypes
<1>2. ItemTypes
  BY DEF ItemTypes, NoItem, NoEvent
<1>3. QueueTypes /\ ResultTypes
  BY DEF QueueTypes, ResultTypes
<1>4. /\ KeepAliveCount \in [SubIds -> Nat]
      /\ Timer \in [SubIds -> TimerStates]
      /\ task \in [Threads -> Task]
  BY IdleType DEF TimerStates
<1>5. CallsConsistent
  BY DEF CallsConsistent, SessionsKnown, OneHandlerEach, Idle, HandlerOps
<1>6. QED
  BY <1>1, <1>2, <1>3, <1>4, <1>5 DEF TypeInv, TypeOK

\* A group of variables that does not change keeps its type.
LEMMA UnchangedTypes ==
  /\ ServiceTypes /\ UNCHANGED serviceVars => ServiceTypes'
  /\ ParamTypes /\ UNCHANGED paramVars => ParamTypes'
  /\ ItemTypes /\ UNCHANGED itemVars => ItemTypes'
  /\ QueueTypes /\ UNCHANGED queueVars => QueueTypes'
  /\ ResultTypes /\ UNCHANGED resultVars => ResultTypes'
  /\ SpaceTypes /\ UNCHANGED spaceVars => SpaceTypes'
  /\ CountTypes /\ UNCHANGED countVars => CountTypes'
<1>1. /\ ServiceTypes /\ UNCHANGED serviceVars => ServiceTypes'
      /\ ParamTypes /\ UNCHANGED paramVars => ParamTypes'
  BY DEF ServiceTypes, ParamTypes, serviceVars, paramVars
<1>2. /\ ItemTypes /\ UNCHANGED itemVars => ItemTypes'
      /\ QueueTypes /\ UNCHANGED queueVars => QueueTypes'
  BY DEF ItemTypes, QueueTypes, itemVars, queueVars
<1>3. ResultTypes /\ UNCHANGED resultVars => ResultTypes'
  BY DEF ResultTypes, resultVars
<1>4. /\ SpaceTypes /\ UNCHANGED spaceVars => SpaceTypes'
      /\ CountTypes /\ UNCHANGED countVars => CountTypes'
  BY DEF SpaceTypes, CountTypes, spaceVars, countVars
<1>5. QED
  BY <1>1, <1>2, <1>3, <1>4

\* CallsConsistent depends on four variables.
LEMMA UnchangedSessions ==
  CallsConsistent /\ UNCHANGED <<LastSubscriptionId, Timer, CurrentSession, task>> => CallsConsistent'
BY DEF CallsConsistent, SessionsKnown, OneHandlerEach

LEMMA CreateSubscriptionType ==
  ASSUME TypeInv, NEW t \in Threads, NEW q \in Sessions, NEW p \in Parameters,
         CreateSubscription(t, q, p)
  PROVE  TypeInv'
<1> USE ConstantsAssumption DEF CreateSubscription, TypeInv, TypeOK
<1>1. ServiceTypes'
  BY DEF ServiceTypes, SubIds
<1>2. ParamTypes'
  BY DEF ParamTypes
<1>3. Timer' \in [SubIds -> TimerStates]
  BY DEF TimerStates
<1>4. CallsConsistent'
  <2>1. Timer[LastSubscriptionId + 1] = "none"
    BY DEF CallsConsistent, SessionsKnown, ServiceTypes
  <2>2. \A s \in SubIds \ {LastSubscriptionId + 1} :
          Timer'[s] = Timer[s] /\ CurrentSession'[s] = CurrentSession[s]
    BY DEF ParamTypes
  <2>3. SessionsKnown'
    <3>1. \A s \in SubIds : Timer'[s] # "none" =>
            s <= LastSubscriptionId' /\ CurrentSession'[s] \in Sessions
      BY <2>2 DEF CallsConsistent, SessionsKnown, ParamTypes, ServiceTypes, SubIds
    <3>2. QED
      BY <3>1 DEF CallsConsistent, SessionsKnown
  <2>4. OneHandlerEach'
    BY <2>1, <2>2 DEF CallsConsistent, SessionsKnown, OneHandlerEach
  <2>5. QED
    BY <2>3, <2>4 DEF CallsConsistent
<1>5. QED
  BY <1>1, <1>2, <1>3, <1>4, UnchangedTypes

LEMMA CreateMonitoredItemType ==
  ASSUME TypeInv, NEW t \in Threads, NEW s \in SubIds,
         \/ \E n \in Nodes : CreateMonitoredDataChange(t, s, n)
         \/ \E n \in Nodes : CreateMonitoredEvent(t, s, n)
         \/ CreateMonitoredItemThrows(t, s)
  PROVE  TypeInv'
<1> USE DEF TypeInv, TypeOK
<1>1. ASSUME NEW n \in Nodes, CreateMonitoredDataChange(t, s, n)
      PROVE  TypeInv'
  <2> USE <1>1 DEF CreateMonitoredDataChange
  <2>1. ItemTypes'
    BY DEF ItemTypes, SpaceTypes, ItemIds
  <2>2. QueueTypes'
    <3> DEFINE e == [item |-> LastMonitoredItemId[s] + 1, value |-> Value[n]]
    <3>1. e \in Change
      BY DEF Change, SpaceTypes
    <3>2. Append(TriggeredDataChangeEvents[s], e) \in Seq(Change)
      BY <3>1 DEF QueueTypes
    <3>3. QED
      BY <3>2 DEF QueueTypes
  <2>3. SpaceTypes'
    BY DEF SpaceTypes, Callback
  <2>4. CallsConsistent'
    BY UnchangedSessions DEF paramVars, serviceVars
  <2>5. QED
    BY <2>1, <2>2, <2>3, <2>4, UnchangedTypes
<1>2. ASSUME NEW n \in Nodes, CreateMonitoredEvent(t, s, n)
      PROVE  TypeInv'
  <2> USE <1>2 DEF CreateMonitoredEvent
  <2>1. ItemTypes'
    BY DEF ItemTypes, ItemIds
  <2>2. CallsConsistent'
    BY UnchangedSessions DEF paramVars, serviceVars
  <2>3. QED
    BY <2>1, <2>2, UnchangedTypes
<1>3. ASSUME CreateMonitoredItemThrows(t, s)
      PROVE  TypeInv'
  <2> USE <1>3 DEF CreateMonitoredItemThrows
  <2>1. ItemTypes'
    BY DEF ItemTypes, ItemIds
  <2>2. CallsConsistent'
    BY UnchangedSessions DEF paramVars, serviceVars
  <2>3. QED
    BY <2>1, <2>2, UnchangedTypes
<1>4. QED
  BY <1>1, <1>2, <1>3

LEMMA DeleteItemsType ==
  ASSUME TypeInv, NEW s \in SubIds, NEW ids, DeleteMonitoredItemsIds(s, ids),
         UNCHANGED <<LastMonitoredItemId, Value, DataChangeCallbackHandle>>
  PROVE  ItemTypes' /\ QueueTypes' /\ SpaceTypes'
<1> USE DEF TypeInv, TypeOK, DeleteMonitoredItemsIds
<1>1. ItemTypes'
  BY DEF ItemTypes
<1>2. QueueTypes'
  <2>1. PICK left \in PurgedEvents(TriggeredEvents[s], ids \cap EventIds(s)) :
          TriggeredEvents' = [TriggeredEvents EXCEPT ![s] = left]
    OBVIOUS
  <2>2. left \in Seq(EventRec)
    BY <2>1, PurgedEventsType DEF QueueTypes
  <2>3. PICK l \in PurgedChanges(TriggeredDataChangeEvents[s],
                     (ids \ (ids \cap EventIds(s))) \cap Present(s)) :
          TriggeredDataChangeEvents' = [TriggeredDataChangeEvents EXCEPT ![s] = l]
    OBVIOUS
  <2>4. l \in Seq(Change)
    BY <2>3, PurgedChangesType DEF QueueTypes
  <2>5. QED
    BY <2>1, <2>2, <2>3, <2>4 DEF QueueTypes
<1>3. SpaceTypes'
  BY DEF SpaceTypes, CallbacksWithout
<1>4. QED
  BY <1>1, <1>2, <1>3

LEMMA DeleteType ==
  ASSUME TypeInv, NEW t \in Threads, NEW s \in SubIds,
         (\E i \in ItemIds : DeleteMonitoredItems(t, s, i)) \/ DeleteSubscriptions(t, s)
  PROVE  TypeInv'
<1>1. ASSUME NEW i \in ItemIds, DeleteMonitoredItems(t, s, i)
      PROVE  TypeInv'
  <2> USE <1>1 DEF DeleteMonitoredItems
  <2>1. ItemTypes' /\ QueueTypes' /\ SpaceTypes'
    BY DeleteItemsType
  <2>2. CallsConsistent'
    BY UnchangedSessions DEF paramVars, serviceVars, TypeInv
  <2>3. QED
    BY <2>1, <2>2, UnchangedTypes DEF TypeInv, TypeOK
<1>2. ASSUME DeleteSubscriptions(t, s)
      PROVE  TypeInv'
  <2> USE <1>2 DEF DeleteSubscriptions
  <2>1. ItemTypes' /\ QueueTypes' /\ SpaceTypes'
    BY DeleteItemsType
  <2>2. ServiceTypes'
    BY DEF ServiceTypes, TypeInv, TypeOK
  <2>3. Timer' \in [SubIds -> TimerStates]
    BY DEF TimerStates, TypeInv, TypeOK
  <2>4. CallsConsistent'
    BY DEF CallsConsistent, SessionsKnown, OneHandlerEach, paramVars, serviceVars, TypeInv, TypeOK
  <2>5. QED
    BY <2>1, <2>2, <2>3, <2>4, UnchangedTypes DEF TypeInv, TypeOK
<1>3. QED
  BY <1>1, <1>2

LEMMA WriteType ==
  ASSUME TypeInv, NEW t \in Threads, NEW n \in Nodes, Write(t, n)
  PROVE  TypeInv'
<1> USE DEF Write, TypeInv, TypeOK
<1>1. SpaceTypes' /\ CountTypes'
  BY DEF SpaceTypes, CountTypes
<1>2. task' \in [Threads -> Task]
  BY DEF SpaceTypes, Goto, Task, Ops, Idle
<1>3. CallsConsistent'
  BY DEF CallsConsistent, SessionsKnown, OneHandlerEach, Goto, Idle, HandlerOps, paramVars, serviceVars
<1>4. QED
  BY <1>1, <1>2, <1>3, UnchangedTypes

LEMMA TriggerEventType ==
  ASSUME TypeInv, NEW t \in Threads, NEW n \in Nodes, TriggerEvent(t, n)
  PROVE  TypeInv'
<1> USE DEF TriggerEvent, TypeInv, TypeOK
<1>1. CountTypes'
  BY DEF CountTypes
<1>2. QueueTypes'
  <2>1. ASSUME NEW s \in SubIds
        PROVE  TriggeredEvents'[s] \in Seq(EventRec)
    <3> DEFINE e == [item |-> MonitoredEvents[s][n], event |-> events + 1]
    <3>1. CASE MonitoredEvents[s][n] # NoEvent
      <4>1. e \in EventRec
        BY <3>1 DEF EventRec, ItemTypes, CountTypes
      <4>2. Append(TriggeredEvents[s], e) \in Seq(EventRec)
        BY <4>1 DEF QueueTypes
      <4>3. QED
        BY <4>2 DEF QueueTypes
    <3>2. CASE MonitoredEvents[s][n] = NoEvent
      BY <3>2 DEF QueueTypes
    <3>3. QED
      BY <3>1, <3>2
  <2>2. QED
    BY <2>1 DEF QueueTypes
<1>3. CallsConsistent'
  BY UnchangedSessions DEF paramVars, serviceVars
<1>4. QED
  BY <1>1, <1>2, <1>3, UnchangedTypes

LEMMA PublishLoadType ==
  ASSUME TypeInv, NEW t \in Threads, NEW q \in Sessions, PublishLoad(t, q)
  PROVE  TypeInv'
<1> USE DEF PublishLoad, TypeInv, TypeOK
<1>1. CountTypes'
  BY DEF CountTypes
<1>2. task' \in [Threads -> Task]
  BY DEF ServiceTypes, Goto, Task, Ops, Idle
<1>3. CallsConsistent'
  BY DEF CallsConsistent, SessionsKnown, OneHandlerEach, Goto, Idle, HandlerOps, paramVars, serviceVars
<1>4. QED
  BY <1>1, <1>2, <1>3, UnchangedTypes

LEMMA DataChangeCallbackType ==
  ASSUME TypeInv, NEW t \in Threads, NEW c \in task[t].pending, DataChangeCallback(t, c)
  PROVE  TypeInv'
<1> USE DEF DataChangeCallback, TypeInv, TypeOK
<1>1. task[t] \in Task /\ c \in Callback
  BY DEF Task
<1>2. QueueTypes'
  <2> DEFINE e == [item |-> c.item, value |-> Value[c.node]]
  <2>1. e \in Change /\ c.sub \in SubIds
    BY <1>1 DEF Callback, Change, SpaceTypes
  <2>2. Append(TriggeredDataChangeEvents[c.sub], e) \in Seq(Change)
    BY <2>1 DEF QueueTypes
  <2>3. QED
    BY <2>1, <2>2 DEF QueueTypes
<1>3. [task[t] EXCEPT !.pending = @ \ {c}] \in Task
  BY <1>1 DEF Task
<1>4. task' \in [Threads -> Task]
  BY <1>3 DEF Goto
<1>5. CallsConsistent'
  BY <1>1 DEF CallsConsistent, SessionsKnown, OneHandlerEach, Goto, HandlerOps, paramVars, serviceVars, Task
<1>6. QED
  BY <1>2, <1>4, <1>5, UnchangedTypes

LEMMA WriteReturnsType ==
  ASSUME TypeInv, NEW t \in Threads, WriteReturns(t)
  PROVE  TypeInv'
<1> USE DEF WriteReturns, Finish, Goto, TypeInv, TypeOK
<1>1. task' \in [Threads -> Task]
  BY IdleType
<1>2. CallsConsistent'
  BY DEF CallsConsistent, SessionsKnown, OneHandlerEach, Idle, HandlerOps, paramVars, serviceVars
<1>3. QED
  BY <1>1, <1>2, UnchangedTypes

LEMMA PublishStoreType ==
  ASSUME TypeInv, NEW t \in Threads, NEW acks \in SUBSET Outstanding, PublishStore(t, acks)
  PROVE  TypeInv'
<1> USE DEF PublishStore, Finish, Goto, TypeInv, TypeOK
<1>1. ServiceTypes'
  BY DEF ServiceTypes, CallsConsistent, SessionsKnown, HandlerOps, Task
<1>2. \A a \in acks : a[2] \in Nat
  BY DEF Outstanding, ServiceTypes, ResultTypes, Result
<1>3. ResultTypes'
  BY <1>2 DEF ResultTypes, Unacknowledged
<1>4. task' \in [Threads -> Task]
  BY IdleType
<1>5. CallsConsistent'
  BY DEF CallsConsistent, SessionsKnown, OneHandlerEach, Idle, HandlerOps, paramVars, serviceVars
<1>6. QED
  BY <1>1, <1>3, <1>4, <1>5, UnchangedTypes

\* The steps of the timer and of its handler that change only the timer, the idle
\* count and the thread.
LEMMA TimerType ==
  ASSUME TypeInv, NEW s \in SubIds,
         \/ TimerExpires(s)
         \/ \E t \in Threads : PublishResultsStops(t, s) \/ PublishResultsNothing(t, s)
  PROVE  TypeInv'
<1> USE DEF TypeInv, TypeOK
<1>1. CASE TimerExpires(s)
  <2> USE <1>1 DEF TimerExpires
  <2>1. Timer' \in [SubIds -> TimerStates]
    BY DEF TimerStates
  <2>2. CallsConsistent'
    BY DEF CallsConsistent, SessionsKnown, OneHandlerEach, paramVars, serviceVars
  <2>3. QED
    BY <2>1, <2>2, UnchangedTypes
<1>2. ASSUME NEW t \in Threads, PublishResultsStops(t, s)
      PROVE  TypeInv'
  <2> USE <1>2 DEF PublishResultsStops
  <2>1. Timer' \in [SubIds -> TimerStates]
    BY DEF TimerStates
  <2>2. CallsConsistent'
    BY DEF CallsConsistent, SessionsKnown, OneHandlerEach, paramVars, serviceVars
  <2>3. QED
    BY <2>1, <2>2, UnchangedTypes
<1>3. ASSUME NEW t \in Threads, PublishResultsNothing(t, s)
      PROVE  TypeInv'
  <2> USE <1>3 DEF PublishResultsNothing, Rearm, MayPublish
  <2>1. Timer' \in [SubIds -> TimerStates] /\ KeepAliveCount' \in [SubIds -> Nat]
    BY DEF TimerStates
  <2>2. CallsConsistent'
    BY DEF CallsConsistent, SessionsKnown, OneHandlerEach, paramVars, serviceVars
  <2>3. QED
    BY <2>1, <2>2, UnchangedTypes
<1>4. QED
  BY <1>1, <1>2, <1>3

LEMMA PublishResultsDueType ==
  ASSUME TypeInv, NEW t \in Threads, NEW s \in SubIds, PublishResultsDue(t, s)
  PROVE  TypeInv'
<1> USE DEF PublishResultsDue, MayPublish, Goto, TypeInv, TypeOK
<1>1. Timer' \in [SubIds -> TimerStates]
  BY DEF TimerStates
<1>2. CurrentSession[s] \in Sessions
  BY DEF CallsConsistent, SessionsKnown, OneHandlerEach
<1>3. task' \in [Threads -> Task]
  BY <1>2 DEF Task, Ops, Idle
<1>4. CallsConsistent'
  BY <1>2 DEF CallsConsistent, SessionsKnown, OneHandlerEach, Idle, HandlerOps, paramVars, serviceVars
<1>5. QED
  BY <1>1, <1>3, <1>4, UnchangedTypes

LEMMA PopPublishRequestType ==
  ASSUME TypeInv, NEW t \in Threads,
         \/ PopPublishRequestMissing(t)
         \/ PopPublishRequestLoad(t)
         \/ PopPublishRequestStore(t)
  PROVE  TypeInv'
<1> USE DEF TypeInv, TypeOK
<1>1. CASE PopPublishRequestMissing(t)
  <2> USE <1>1 DEF PopPublishRequestMissing, Rearm, Finish, Goto
  <2>1. task[t].sub \in SubIds
    BY DEF CallsConsistent, SessionsKnown, OneHandlerEach, HandlerOps
  <2>2. Timer' \in [SubIds -> TimerStates] /\ task' \in [Threads -> Task]
    BY <2>1, IdleType DEF TimerStates
  <2>3. CallsConsistent'
    BY <2>1 DEF CallsConsistent, SessionsKnown, OneHandlerEach, Idle, HandlerOps, paramVars,
       serviceVars
  <2>4. QED
    BY <2>2, <2>3, UnchangedTypes
<1>2. CASE PopPublishRequestLoad(t)
  <2> USE <1>2 DEF PopPublishRequestLoad, Goto
  <2>1. task[t] \in Task /\ task[t].session \in Sessions
    BY DEF CallsConsistent, SessionsKnown, HandlerOps
  <2>2. PublishRequestQueues[task[t].session] \in Nat \ {0}
    BY <2>1 DEF ServiceTypes
  <2>3. task' \in [Threads -> Task]
    BY <2>1, <2>2 DEF Task, Ops
  <2>4. CallsConsistent'
    BY <2>1, <2>2 DEF CallsConsistent, SessionsKnown, OneHandlerEach, HandlerOps, paramVars,
       serviceVars, Task
  <2>5. QED
    BY <2>3, <2>4, UnchangedTypes
<1>3. CASE PopPublishRequestStore(t)
  <2> USE <1>3 DEF PopPublishRequestStore, Goto
  <2>1. task[t] \in Task /\ task[t].session \in Sessions /\ task[t].count > 0
    BY DEF CallsConsistent, SessionsKnown, HandlerOps
  <2>2. ServiceTypes'
    BY <2>1 DEF ServiceTypes, Decremented, Task
  <2>3. task' \in [Threads -> Task]
    BY <2>1 DEF Task, Ops
  <2>4. CallsConsistent'
    BY <2>1 DEF CallsConsistent, SessionsKnown, OneHandlerEach, HandlerOps, paramVars, Task
  <2>5. QED
    BY <2>2, <2>3, <2>4, UnchangedTypes
<1>4. QED
  BY <1>1, <1>2, <1>3

LEMMA NewResultType ==
  ASSUME TypeOK, NEW s \in SubIds
  PROVE  NewResult(s) \in Result
BY DEF TypeOK, NewResult, Result, ResultTypes, QueueTypes

LEMMA PopPublishResultType ==
  ASSUME TypeInv, NEW t \in Threads, PopPublishResult(t)
  PROVE  TypeInv'
<1> USE DEF PopPublishResult, TypeInv, TypeOK
<1>1. task[t].sub \in SubIds /\ task[t].session \in Sessions
  BY DEF CallsConsistent, SessionsKnown, HandlerOps
<1>2. NewResult(task[t].sub) \in Result
  BY <1>1, NewResultType
<1>3. ResultTypes'
  <2>1. Append(sent[task[t].sub], NewResult(task[t].sub)) \in Seq(Result)
    BY <1>1, <1>2 DEF ResultTypes
  <2>2. QED
    BY <1>1, <1>2, <2>1 DEF ResultTypes
<1>4. QueueTypes'
  BY <1>1 DEF QueueTypes
<1>5. CountTypes'
  BY <1>1 DEF CountTypes
<1>6. /\ KeepAliveCount' \in [SubIds -> Nat]
      /\ Timer' \in [SubIds -> TimerStates]
      /\ task' \in [Threads -> Task]
  BY <1>1, IdleType DEF Rearm, Finish, Goto, TimerStates
<1>7. CallsConsistent'
  BY <1>1 DEF CallsConsistent, SessionsKnown, OneHandlerEach, Rearm, Finish, Goto, Idle,
     HandlerOps, paramVars, serviceVars
<1>8. QED
  BY <1>3, <1>4, <1>5, <1>6, <1>7, UnchangedTypes

LEMMA NextType == TypeInv /\ [Next]_vars => TypeInv'
<1> SUFFICES ASSUME TypeInv, [Next]_vars PROVE TypeInv'
  OBVIOUS
<1>1. ASSUME NEW t \in Threads, ServiceCall(t)
      PROVE  TypeInv'
  BY <1>1, CreateSubscriptionType, CreateMonitoredItemType, DeleteType, WriteType,
     TriggerEventType, PublishLoadType DEF ServiceCall
<1>2. ASSUME NEW t \in Threads, ContinueCall(t)
      PROVE  TypeInv'
  BY <1>2, DataChangeCallbackType, WriteReturnsType, PublishStoreType DEF ContinueCall
<1>3. ASSUME NEW s \in SubIds, TimerExpires(s)
      PROVE  TypeInv'
  BY <1>3, TimerType
<1>4. ASSUME NEW t \in IoThreads, NEW s \in SubIds, StartHandler(t, s)
      PROVE  TypeInv'
  BY <1>4, TimerType, PublishResultsDueType DEF StartHandler, Threads
<1>5. ASSUME NEW t \in IoThreads, ContinueHandler(t)
      PROVE  TypeInv'
  BY <1>5, PopPublishRequestType, PopPublishResultType DEF ContinueHandler, Threads
<1>6. CASE UNCHANGED vars
  BY <1>6, UnchangedTypes, UnchangedSessions
     DEF vars, TypeInv, TypeOK, serviceVars, paramVars
<1>7. QED
  BY <1>1, <1>2, <1>3, <1>4, <1>5, <1>6 DEF Next

\* Every variable keeps its type, whatever the threads do.
THEOREM TypeCorrect == Spec => []TypeOK
<1>1. Spec => []TypeInv
  BY InitType, NextType, PTL DEF Spec
<1>2. TypeInv => TypeOK
  BY DEF TypeInv
<1>3. QED
  BY <1>1, <1>2, PTL

\* A subscription never has two publishing handlers in progress, on any number of
\* io threads.
THEOREM OneHandlerAtATime == Spec => []OneHandlerEach
<1>1. Spec => []TypeInv
  BY InitType, NextType, PTL DEF Spec
<1>2. TypeInv => OneHandlerEach
  BY DEF TypeInv, CallsConsistent
<1>3. QED
  BY <1>1, <1>2, PTL

--------------------------------------------------------------------------------
(* Monitored items, callbacks and queued changes *)

\* Item identifiers are handed out once.
FreshItems ==
  \A s \in SubIds, i \in ItemIds :
     i > LastMonitoredItemId[s] => MonitoredDataChanges[s][i] = NoItem

\* A callback that a write is about to make is for an item that has not been deleted
\* since, or for none.
PendingKnown ==
  \A t \in Threads : \A c \in task[t].pending :
     /\ c.item <= LastMonitoredItemId[c.sub]
     /\ MonitoredDataChanges[c.sub][c.item] # 0

\* The inductive invariant behind the three properties of the item tables.
TableInv ==
  /\ CallbacksMatchItems /\ EventItemsExist /\ ChangesBelongToItems
  /\ FreshItems /\ PendingKnown

LEMMA AppendBelongs ==
  ASSUME NEW P, NEW q \in Seq(Change), NEW e \in Change, e.item \in P,
         \A k \in 1 .. Len(q) : q[k].item \in P
  PROVE  \A k \in 1 .. Len(Append(q, e)) : Append(q, e)[k].item \in P
<1> SUFFICES ASSUME NEW k \in 1 .. Len(Append(q, e))
             PROVE  Append(q, e)[k].item \in P
  OBVIOUS
<1>1. Len(q) \in Nat /\ Len(Append(q, e)) = Len(q) + 1
  OBVIOUS
<1>2. CASE k \in 1 .. Len(q)
  <2>1. Append(q, e)[k] = q[k]
    BY <1>2
  <2>2. QED
    BY <1>2, <2>1
<1>3. CASE k = Len(q) + 1
  <2>1. Append(q, e)[k] = e
    BY <1>3
  <2>2. QED
    BY <2>1
<1>4. QED
  BY <1>1, <1>2, <1>3

\* The items of a subscription whose changes may be queued.
DataItems(s) == {i \in ItemIds : MonitoredDataChanges[s][i] > 0}

LEMMA ChangesBelong ==
  ASSUME TypeOK
  PROVE  ChangesBelongToItems <=>
           \A s \in SubIds : \A k \in 1 .. Len(TriggeredDataChangeEvents[s]) :
              TriggeredDataChangeEvents[s][k].item \in DataItems(s)
<1>1. ASSUME NEW s \in SubIds, NEW k \in 1 .. Len(TriggeredDataChangeEvents[s])
      PROVE  TriggeredDataChangeEvents[s][k].item \in ItemIds
  <2>1. TriggeredDataChangeEvents[s] \in Seq(Change)
    BY DEF TypeOK, QueueTypes
  <2>2. TriggeredDataChangeEvents[s][k] \in Change
    BY <2>1, ElementOfSeq
  <2>3. QED
    BY <2>2 DEF Change
<1>2. QED
  BY <1>1 DEF ChangesBelongToItems, DataItems

LEMMA InitTable == Init => TableInv
<1> SUFFICES ASSUME Init PROVE TableInv
  OBVIOUS
<1> USE DEF Init
<1>1. CallbacksMatchItems /\ EventItemsExist /\ FreshItems
  BY DEF CallbacksMatchItems, EventItemsExist, FreshItems, NoItem, NoEvent
<1>2. ChangesBelongToItems /\ PendingKnown
  BY DEF ChangesBelongToItems, PendingKnown, Idle
<1>3. QED
  BY <1>1, <1>2 DEF TableInv

\* The steps that change neither the items nor the queues nor the callbacks.
LEMMA UnchangedTable ==
  ASSUME TypeOK, TableInv, UNCHANGED itemVars, UNCHANGED TriggeredDataChangeEvents,
         UNCHANGED <<DataChangeCallbacks, DataChangeCallbackHandle>>,
         SubscriptionsMap \subseteq SubscriptionsMap',
         \A t \in Threads : task'[t].pending \subseteq task[t].pending \cup DataChangeCallbacks
  PROVE  TableInv'
<1>1. CallbacksMatchItems' /\ EventItemsExist' /\ ChangesBelongToItems' /\ FreshItems'
  BY DEF TableInv, itemVars, CallbacksMatchItems, EventItemsExist, ChangesBelongToItems,
         FreshItems
<1>2. \A c \in DataChangeCallbacks :
        c.item <= LastMonitoredItemId[c.sub] /\ MonitoredDataChanges[c.sub][c.item] # 0
  <2> SUFFICES ASSUME NEW c \in DataChangeCallbacks
               PROVE  /\ c.item <= LastMonitoredItemId[c.sub]
                      /\ MonitoredDataChanges[c.sub][c.item] # 0
    OBVIOUS
  <2>1. c.sub \in SubIds /\ c.item \in ItemIds
    BY DEF TypeOK, SpaceTypes, Callback
  <2>2. MonitoredDataChanges[c.sub][c.item] = c.handle /\ c.handle \in Nat \ {0}
    BY DEF TypeOK, SpaceTypes, TableInv, CallbacksMatchItems
  <2>3. LastMonitoredItemId[c.sub] \in Nat /\ c.item \in Nat
    BY <2>1, ConstantsAssumption DEF TypeOK, ItemTypes, ItemIds
  <2>4. QED
    BY <2>1, <2>2, <2>3 DEF TableInv, FreshItems, NoItem
<1>3. PendingKnown'
  BY <1>2 DEF TableInv, PendingKnown, itemVars
<1>4. QED
  BY <1>1, <1>3 DEF TableInv

LEMMA CreateDataChangeTable ==
  ASSUME TypeOK, TableInv, NEW t \in Threads, NEW s \in SubIds, NEW n \in Nodes,
         CreateMonitoredDataChange(t, s, n)
  PROVE  TableInv'
<1> DEFINE id == LastMonitoredItemId[s] + 1
           handle == DataChangeCallbackHandle + 1
           new == [handle |-> handle, node |-> n, sub |-> s, item |-> id]
<1> USE DEF TypeOK, SpaceTypes, ItemTypes
<1>1. /\ id \in ItemIds /\ s \in SubscriptionsMap /\ handle \in Nat
      /\ MonitoredDataChanges[s][id] = NoItem
  BY DEF CreateMonitoredDataChange, TableInv, FreshItems
<1>2. /\ MonitoredDataChanges' = [MonitoredDataChanges EXCEPT ![s][id] = handle]
      /\ DataChangeCallbacks' = DataChangeCallbacks \cup {new}
      /\ DataChangeCallbackHandle' = handle
      /\ LastMonitoredItemId' = [LastMonitoredItemId EXCEPT ![s] = id]
      /\ TriggeredDataChangeEvents' = [TriggeredDataChangeEvents EXCEPT
           ![s] = Append(@, [item |-> id, value |-> Value[n]])]
      /\ UNCHANGED <<SubscriptionsMap, MonitoredEvents, task>>
  BY DEF CreateMonitoredDataChange, serviceVars
<1> HIDE DEF new
<1>3. \A r \in SubIds, i \in ItemIds :
        MonitoredDataChanges'[r][i] =
          IF r = s /\ i = id THEN handle ELSE MonitoredDataChanges[r][i]
  BY <1>1, <1>2
<1>4. new.handle = handle /\ new.sub = s /\ new.item = id /\ new \in DataChangeCallbacks'
  BY <1>2 DEF new
<1>5. CallbacksMatchItems'
  <2>1. \A c \in DataChangeCallbacks :
          /\ c \in Callback /\ c.sub \in SubIds /\ c.item \in ItemIds
          /\ c.sub \in SubscriptionsMap /\ c.handle \in 1 .. DataChangeCallbackHandle
          /\ MonitoredDataChanges[c.sub][c.item] = c.handle
          /\ ~(c.sub = s /\ c.item = id)
    BY <1>1 DEF TableInv, CallbacksMatchItems, Callback, NoItem
  <2>2. \A c \in DataChangeCallbacks' :
          /\ c.sub \in SubscriptionsMap' /\ c.handle \in 1 .. DataChangeCallbackHandle'
          /\ MonitoredDataChanges'[c.sub][c.item] = c.handle
    BY <1>1, <1>2, <1>3, <1>4, <2>1
  <2>3. \A r \in SubIds, i \in ItemIds : MonitoredDataChanges'[r][i] > 0 =>
          \E c \in DataChangeCallbacks' :
             c.sub = r /\ c.item = i /\ c.handle = MonitoredDataChanges'[r][i]
    BY <1>2, <1>3, <1>4 DEF TableInv, CallbacksMatchItems
  <2>4. \A c, d \in DataChangeCallbacks' : c.handle = d.handle => c = d
    BY <1>1, <1>2, <1>4, <2>1 DEF TableInv, CallbacksMatchItems
  <2>5. QED
    BY <2>2, <2>3, <2>4 DEF CallbacksMatchItems
<1>6. EventItemsExist'
  BY <1>1, <1>2, <1>3 DEF TableInv, EventItemsExist, NoItem
<1>7. ChangesBelongToItems'
  <2> DEFINE e == [item |-> id, value |-> Value[n]]
  <2>1. \A r \in SubIds : DataItems(r) \subseteq DataItems(r)'
    BY <1>1, <1>3 DEF DataItems
  <2>2. e \in Change /\ e.item \in DataItems(s)'
    BY <1>1, <1>3 DEF DataItems, Change
  <2>3. ASSUME NEW r \in SubIds, NEW k \in 1 .. Len(TriggeredDataChangeEvents'[r])
        PROVE  TriggeredDataChangeEvents'[r][k].item \in DataItems(r)'
    <3>1. TriggeredDataChangeEvents[r] \in Seq(Change)
      BY DEF QueueTypes
    <3>2. \A j \in 1 .. Len(TriggeredDataChangeEvents[r]) :
            TriggeredDataChangeEvents[r][j].item \in DataItems(r)'
      BY <2>1, ChangesBelong DEF TableInv
    <3>3. CASE r = s
      <4>1. TriggeredDataChangeEvents'[r] = Append(TriggeredDataChangeEvents[r], e)
        BY <1>2, <3>3 DEF QueueTypes
      <4>2. QED
        BY <4>1, <3>1, <3>2, <3>3, <2>2, <2>3, AppendBelongs
    <3>4. CASE r # s
      BY <3>2, <3>4, <2>3, <1>2 DEF QueueTypes
    <3>5. QED
      BY <3>3, <3>4
  <2>4. QED
    BY <2>3 DEF ChangesBelongToItems, DataItems
<1>8. FreshItems'
  BY <1>1, <1>2, <1>3 DEF TableInv, FreshItems, ItemIds
<1>9. PendingKnown'
  <2>1. \A u \in Threads : \A c \in task[u].pending : c.sub \in SubIds /\ c.item \in ItemIds
    BY DEF Task, Callback
  <2>2. QED
    BY <2>1, <1>1, <1>2, <1>3 DEF TableInv, PendingKnown, ItemIds
<1>10. QED
  BY <1>5, <1>6, <1>7, <1>8, <1>9 DEF TableInv

LEMMA CreateEventTable ==
  ASSUME TypeOK, TableInv, NEW t \in Threads, NEW s \in SubIds, NEW n \in Nodes,
         CreateMonitoredEvent(t, s, n)
  PROVE  TableInv'
<1> DEFINE id == LastMonitoredItemId[s] + 1
<1> USE DEF TypeOK, SpaceTypes, ItemTypes
<1>1. /\ id \in ItemIds
      /\ MonitoredDataChanges[s][id] = NoItem
  BY DEF CreateMonitoredEvent, TableInv, FreshItems
<1>2. /\ MonitoredDataChanges' = [MonitoredDataChanges EXCEPT ![s][id] = 0]
      /\ MonitoredEvents' = [MonitoredEvents EXCEPT ![s][n] = id]
      /\ LastMonitoredItemId' = [LastMonitoredItemId EXCEPT ![s] = id]
      /\ UNCHANGED <<SubscriptionsMap, task, TriggeredDataChangeEvents,
                     DataChangeCallbacks, DataChangeCallbackHandle>>
  BY DEF CreateMonitoredEvent, serviceVars, spaceVars, queueVars
<1>3. \A r \in SubIds, i \in ItemIds :
        MonitoredDataChanges'[r][i] =
          IF r = s /\ i = id THEN 0 ELSE MonitoredDataChanges[r][i]
  BY <1>1, <1>2
<1>4. \A r \in SubIds, m \in Nodes :
        MonitoredEvents'[r][m] = IF r = s /\ m = n THEN id ELSE MonitoredEvents[r][m]
  BY <1>1, <1>2
<1>5. CallbacksMatchItems'
  <2>1. \A c \in DataChangeCallbacks :
          /\ c.sub \in SubIds /\ c.item \in ItemIds
          /\ ~(c.sub = s /\ c.item = id)
    BY <1>1 DEF TableInv, CallbacksMatchItems, Callback, NoItem
  <2>2. QED
    BY <2>1, <1>2, <1>3 DEF TableInv, CallbacksMatchItems
<1>6. EventItemsExist'
  <2>1. \A m \in Nodes : MonitoredEvents[s][m] # id
    <3>1. id # NoEvent /\ MonitoredDataChanges[s][id] # 0
      BY <1>1 DEF NoItem, NoEvent, ItemIds
    <3>2. QED
      BY <3>1 DEF TableInv, EventItemsExist
  <2>2. \A r \in SubIds, m \in Nodes : MonitoredEvents[r][m] \in ItemIds \cup {NoEvent}
    OBVIOUS
  <2>3. QED
    BY <2>1, <2>2, <1>1, <1>3, <1>4 DEF TableInv, EventItemsExist
<1>7. ChangesBelongToItems'
  <2>1. \A r \in SubIds : DataItems(r) \subseteq DataItems(r)'
    <3>1. \A r \in SubIds, i \in ItemIds :
            MonitoredDataChanges[r][i] > 0 => MonitoredDataChanges'[r][i] > 0
      <4>1. ~(MonitoredDataChanges[s][id] > 0)
        BY <1>1 DEF NoItem
      <4>2. QED
        BY <4>1, <1>3
    <3>2. QED
      BY <3>1 DEF DataItems
  <2>2. QED
    BY <2>1, <1>2, ChangesBelong DEF TableInv, ChangesBelongToItems, DataItems
<1>8. FreshItems'
  BY <1>1, <1>2, <1>3 DEF TableInv, FreshItems, ItemIds
<1>9. PendingKnown'
  <2>1. \A u \in Threads : \A c \in task[u].pending : c.sub \in SubIds /\ c.item \in ItemIds
    BY DEF Task, Callback
  <2>2. QED
    BY <2>1, <1>1, <1>2, <1>3 DEF TableInv, PendingKnown, ItemIds
<1>10. QED
  BY <1>5, <1>6, <1>7, <1>8, <1>9 DEF TableInv

LEMMA CreateThrowsTable ==
  ASSUME TypeOK, TableInv, NEW t \in Threads, NEW s \in SubIds,
         CreateMonitoredItemThrows(t, s)
  PROVE  TableInv'
<1> USE DEF CreateMonitoredItemThrows, serviceVars, queueVars, spaceVars, TypeOK, ItemTypes
<1>1. CallbacksMatchItems' /\ EventItemsExist' /\ ChangesBelongToItems'
  BY DEF TableInv, CallbacksMatchItems, EventItemsExist, ChangesBelongToItems
<1>2. FreshItems'
  BY DEF TableInv, FreshItems, ItemIds
<1>3. PendingKnown'
  <2>1. \A u \in Threads : \A c \in task[u].pending : c.sub \in SubIds /\ c.item \in ItemIds
    BY DEF Task, Callback
  <2>2. QED
    BY <2>1 DEF TableInv, PendingKnown, ItemIds
<1>4. QED
  BY <1>1, <1>2, <1>3 DEF TableInv

\* Deleting items preserves the tables of the remaining ones; when all items go, so
\* do all callbacks of the subscription.
LEMMA DeleteItemsTable ==
  ASSUME TypeOK, TableInv, NEW s \in SubIds, NEW ids \in SUBSET ItemIds,
         DeleteMonitoredItemsIds(s, ids),
         UNCHANGED <<LastMonitoredItemId, DataChangeCallbackHandle, task>>,
         \/ SubscriptionsMap' = SubscriptionsMap
         \/ SubscriptionsMap' = SubscriptionsMap \ {s} /\ ids = Present(s)
  PROVE  TableInv'
<1> DEFINE eventItems == ids \cap EventIds(s)
           dataItems == (ids \ eventItems) \cap Present(s)
           handles == {MonitoredDataChanges[s][i] : i \in dataItems} \ {0}
<1> USE DEF TypeOK, SpaceTypes, ItemTypes
<1>1. /\ MonitoredEvents' = [MonitoredEvents EXCEPT ![s] =
           [n \in Nodes |-> IF @[n] \in eventItems THEN NoEvent ELSE @[n]]]
      /\ MonitoredDataChanges' = [MonitoredDataChanges EXCEPT ![s] =
           [i \in ItemIds |-> IF i \in dataItems THEN NoItem ELSE @[i]]]
      /\ DataChangeCallbacks' = {c \in DataChangeCallbacks : c.handle \notin handles}
  BY DEF DeleteMonitoredItemsIds, CallbacksWithout
<1>2. PICK left \in PurgedChanges(TriggeredDataChangeEvents[s], dataItems) :
        TriggeredDataChangeEvents' = [TriggeredDataChangeEvents EXCEPT ![s] = left]
  BY DEF DeleteMonitoredItemsIds
<1>3. dataItems \in SUBSET ItemIds /\ dataItems \cap EventIds(s) = {}
  OBVIOUS
<1>4. /\ \A i \in dataItems : MonitoredDataChanges[s][i] # NoItem
      /\ \A h \in handles : \E i \in dataItems : h = MonitoredDataChanges[s][i] /\ h # 0
      /\ \A i \in dataItems : MonitoredDataChanges[s][i] # 0 => MonitoredDataChanges[s][i] \in handles
  BY DEF Present
<1>5. \A r \in SubIds, i \in ItemIds :
        MonitoredDataChanges'[r][i] =
          IF r = s /\ i \in dataItems THEN NoItem ELSE MonitoredDataChanges[r][i]
  BY <1>1
<1>6. \A r \in SubIds, n \in Nodes :
        MonitoredEvents'[r][n] =
          IF r = s /\ MonitoredEvents[r][n] \in eventItems THEN NoEvent
          ELSE MonitoredEvents[r][n]
  BY <1>1
<1>7. \A c \in DataChangeCallbacks :
        /\ c.sub \in SubIds /\ c.item \in ItemIds /\ c.sub \in SubscriptionsMap
        /\ c.handle \in 1 .. DataChangeCallbackHandle
        /\ MonitoredDataChanges[c.sub][c.item] = c.handle
  BY DEF TableInv, CallbacksMatchItems, Callback
<1> HIDE DEF dataItems, handles, eventItems
\* The callbacks removed are those of the items removed.
<1>8. \A c \in DataChangeCallbacks : c.handle \in handles <=> c.sub = s /\ c.item \in dataItems
  <2> SUFFICES ASSUME NEW c \in DataChangeCallbacks
               PROVE  c.handle \in handles <=> c.sub = s /\ c.item \in dataItems
    OBVIOUS
  <2>1. ASSUME c.sub = s, c.item \in dataItems PROVE c.handle \in handles
    BY <2>1, <1>4, <1>7
  <2>2. ASSUME c.handle \in handles PROVE c.sub = s /\ c.item \in dataItems
    <3>1. PICK i \in dataItems : c.handle = MonitoredDataChanges[s][i] /\ c.handle > 0
      <4>1. PICK i \in dataItems : c.handle = MonitoredDataChanges[s][i]
        BY <2>2, <1>4
      <4>2. c.handle > 0
        BY <1>7
      <4>3. QED
        BY <4>1, <4>2
    <3>2. PICK d \in DataChangeCallbacks :
            d.sub = s /\ d.item = i /\ d.handle = MonitoredDataChanges[s][i]
      BY <3>1, <1>3 DEF TableInv, CallbacksMatchItems
    <3>3. c = d
      BY <3>1, <3>2 DEF TableInv, CallbacksMatchItems
    <3>4. QED
      BY <3>2, <3>3
  <2>3. QED
    BY <2>1, <2>2
<1>9. CallbacksMatchItems'
  <2>1. \A c \in DataChangeCallbacks' : c.sub \in SubscriptionsMap'
    <3>1. CASE SubscriptionsMap' = SubscriptionsMap
      BY <3>1, <1>1, <1>7
    <3>2. CASE SubscriptionsMap' = SubscriptionsMap \ {s} /\ ids = Present(s)
      <4>1. ASSUME NEW c \in DataChangeCallbacks', c.sub = s
            PROVE  FALSE
        <5>1. c \in DataChangeCallbacks /\ c.item \notin dataItems
          BY <4>1, <1>1, <1>8
        <5>2. MonitoredDataChanges[s][c.item] > 0 /\ c.item \in Present(s)
          BY <5>1, <4>1, <1>7 DEF Present, NoItem
        <5>3. c.item \in EventIds(s)
          BY <5>1, <5>2, <3>2 DEF dataItems, eventItems
        <5>4. QED
          BY <5>2, <5>3 DEF EventIds, TableInv, EventItemsExist
      <4>2. QED
        BY <3>2, <4>1, <1>1, <1>7
    <3>3. QED
      BY <3>1, <3>2
  <2>2. \A c \in DataChangeCallbacks' :
          /\ c.handle \in 1 .. DataChangeCallbackHandle'
          /\ MonitoredDataChanges'[c.sub][c.item] = c.handle
    BY <1>1, <1>5, <1>7, <1>8
  <2>3. ASSUME NEW r \in SubIds, NEW i \in ItemIds, MonitoredDataChanges'[r][i] > 0
        PROVE  \E c \in DataChangeCallbacks' :
                  c.sub = r /\ c.item = i /\ c.handle = MonitoredDataChanges'[r][i]
    <3>1. ~(r = s /\ i \in dataItems) /\ MonitoredDataChanges[r][i] = MonitoredDataChanges'[r][i]
      BY <2>3, <1>5 DEF NoItem
    <3>2. PICK c \in DataChangeCallbacks :
            c.sub = r /\ c.item = i /\ c.handle = MonitoredDataChanges[r][i]
      BY <3>1, <2>3 DEF TableInv, CallbacksMatchItems
    <3>3. QED
      BY <3>1, <3>2, <1>1, <1>8
  <2>4. \A c, d \in DataChangeCallbacks' : c.handle = d.handle => c = d
    BY <1>1 DEF TableInv, CallbacksMatchItems
  <2>5. QED
    BY <2>1, <2>2, <2>3, <2>4 DEF CallbacksMatchItems
<1>10. EventItemsExist'
  <2>1. ASSUME NEW r \in SubIds, NEW n \in Nodes, MonitoredEvents'[r][n] # NoEvent
        PROVE  /\ MonitoredEvents'[r][n] = MonitoredEvents[r][n]
               /\ MonitoredDataChanges'[r][MonitoredEvents'[r][n]] = 0
    <3>1. MonitoredEvents'[r][n] = MonitoredEvents[r][n]
      BY <2>1, <1>6
    <3>2. /\ MonitoredEvents[r][n] \in ItemIds
          /\ MonitoredDataChanges[r][MonitoredEvents[r][n]] = 0
      BY <2>1, <3>1 DEF TableInv, EventItemsExist
    <3>3. r = s => MonitoredEvents[r][n] \notin dataItems
      BY <2>1, <3>1, <1>3 DEF EventIds, dataItems
    <3>4. QED
      BY <3>1, <3>2, <3>3, <1>5
  <2>2. QED
    BY <2>1 DEF TableInv, EventItemsExist
<1>11. ChangesBelongToItems'
  <2>1. \A r \in SubIds : \A i \in DataItems(r) :
          i \in DataItems(r)' \/ (r = s /\ i \in dataItems)
    BY <1>5 DEF DataItems
  <2>2. ASSUME NEW r \in SubIds, NEW k \in 1 .. Len(TriggeredDataChangeEvents'[r])
        PROVE  TriggeredDataChangeEvents'[r][k].item \in DataItems(r)'
    <3>1. TriggeredDataChangeEvents[r] \in Seq(Change)
      BY DEF QueueTypes
    <3>2. \A j \in 1 .. Len(TriggeredDataChangeEvents[r]) :
            TriggeredDataChangeEvents[r][j].item \in DataItems(r)
      BY ChangesBelong DEF TableInv
    <3>3. CASE r = s
      <4>1. TriggeredDataChangeEvents'[r] = left
        BY <3>3, <1>2 DEF QueueTypes
      <4>2. left[k].item \notin dataItems
            /\ \E j \in 1 .. Len(TriggeredDataChangeEvents[s]) :
                  left[k] = TriggeredDataChangeEvents[s][j]
        BY <4>1, <3>1, <3>3, <1>2, <2>2, PurgedChangesType
      <4>3. QED
        BY <4>1, <4>2, <3>2, <3>3, <2>1
    <3>4. CASE r # s
      BY <3>2, <3>4, <2>1, <2>2, <1>2 DEF QueueTypes
    <3>5. QED
      BY <3>3, <3>4
  <2>3. QED
    BY <2>2 DEF ChangesBelongToItems, DataItems
<1>12. FreshItems'
  BY <1>5 DEF TableInv, FreshItems
<1>13. PendingKnown'
  <2>1. \A u \in Threads : \A c \in task[u].pending : c.sub \in SubIds /\ c.item \in ItemIds
    BY DEF Task, Callback
  <2>2. QED
    <3>1. \A r \in SubIds, i \in ItemIds :
            MonitoredDataChanges[r][i] # 0 => MonitoredDataChanges'[r][i] # 0
      BY <1>5 DEF NoItem
    <3>2. QED
      BY <2>1, <3>1 DEF TableInv, PendingKnown
<1>14. QED
  BY <1>9, <1>10, <1>11, <1>12, <1>13 DEF TableInv

LEMMA DataChangeCallbackTable ==
  ASSUME TypeOK, TableInv, NEW t \in Threads, NEW c \in task[t].pending,
         DataChangeCallback(t, c)
  PROVE  TableInv'
<1> USE DEF DataChangeCallback, TypeOK
<1> DEFINE e == [item |-> c.item, value |-> Value[c.node]]
<1>1. /\ UNCHANGED <<SubscriptionsMap, LastMonitoredItemId, MonitoredDataChanges,
                     MonitoredEvents, DataChangeCallbacks, DataChangeCallbackHandle>>
      /\ \A u \in Threads : task'[u].pending \subseteq task[u].pending
  BY DEF serviceVars, itemVars, spaceVars, Goto, Task
<1>2. c.sub \in SubIds /\ c.item \in ItemIds /\ e \in Change
  <2>1. c \in Callback
    BY DEF Task
  <2>2. QED
    BY <2>1 DEF Callback, Change, SpaceTypes
<1>3. CallbacksMatchItems' /\ EventItemsExist' /\ FreshItems'
  BY <1>1 DEF TableInv, CallbacksMatchItems, EventItemsExist, FreshItems
<1>4. PendingKnown'
  BY <1>1 DEF TableInv, PendingKnown
<1>5. ChangesBelongToItems'
  <2>1. \A r \in SubIds : DataItems(r)' = DataItems(r)
    BY <1>1 DEF DataItems
  <2>2. MonitoredDataChanges[c.sub][c.item] # NoItem => c.item \in DataItems(c.sub)
    <3>1. MonitoredDataChanges[c.sub][c.item] \in Nat \cup {NoItem}
      BY <1>2 DEF ItemTypes
    <3>2. QED
      BY <1>2, <3>1 DEF TableInv, PendingKnown, DataItems, NoItem
  <2>3. ASSUME NEW r \in SubIds, NEW k \in 1 .. Len(TriggeredDataChangeEvents'[r])
        PROVE  TriggeredDataChangeEvents'[r][k].item \in DataItems(r)
    <3>1. TriggeredDataChangeEvents[r] \in Seq(Change)
      BY DEF QueueTypes
    <3>2. \A j \in 1 .. Len(TriggeredDataChangeEvents[r]) :
            TriggeredDataChangeEvents[r][j].item \in DataItems(r)
      BY ChangesBelong DEF TableInv
    <3>3. CASE r = c.sub /\ MonitoredDataChanges[c.sub][c.item] # NoItem
      <4>1. TriggeredDataChangeEvents'[r] = Append(TriggeredDataChangeEvents[r], e)
        BY <3>3 DEF QueueTypes
      <4>2. e.item \in DataItems(r)
        BY <3>3, <2>2
      <4>3. QED
        BY <4>1, <4>2, <3>1, <3>2, <1>2, <2>3, AppendBelongs
    <3>4. CASE ~(r = c.sub /\ MonitoredDataChanges[c.sub][c.item] # NoItem)
      <4>1. TriggeredDataChangeEvents'[r] = TriggeredDataChangeEvents[r]
        BY <3>4 DEF QueueTypes
      <4>2. QED
        BY <4>1, <3>2, <2>3
    <3>5. QED
      BY <3>3, <3>4
  <2>4. QED
    BY <2>1, <2>3, <1>1 DEF ChangesBelongToItems, DataItems
<1>6. QED
  BY <1>3, <1>4, <1>5 DEF TableInv

LEMMA PopPublishResultTable ==
  ASSUME TypeInv, TableInv, NEW t \in Threads, PopPublishResult(t)
  PROVE  TableInv'
<1> USE DEF PopPublishResult, TypeInv, TypeOK
<1>1. /\ UNCHANGED <<SubscriptionsMap, LastMonitoredItemId, MonitoredDataChanges,
                     MonitoredEvents, DataChangeCallbacks, DataChangeCallbackHandle>>
      /\ \A u \in Threads : task'[u].pending \subseteq task[u].pending
  BY DEF serviceVars, itemVars, spaceVars, Finish, Goto, Idle
<1>2. CallbacksMatchItems' /\ EventItemsExist' /\ FreshItems' /\ PendingKnown'
  BY <1>1 DEF TableInv, CallbacksMatchItems, EventItemsExist, FreshItems, PendingKnown
<1>3. ChangesBelongToItems'
  BY <1>1 DEF TableInv, ChangesBelongToItems, QueueTypes
<1>4. QED
  BY <1>2, <1>3 DEF TableInv

LEMMA NextTable == TypeInv /\ TableInv /\ [Next]_vars => TableInv'
<1> SUFFICES ASSUME TypeInv, TableInv, [Next]_vars PROVE TableInv'
  OBVIOUS
<1>0. TypeOK
  BY DEF TypeInv
<1> USE <1>0
<1>1. ASSUME NEW t \in Threads, ServiceCall(t)
      PROVE  TableInv'
  <2>1. ASSUME NEW q \in Sessions, NEW p \in Parameters, CreateSubscription(t, q, p)
        PROVE  TableInv'
    BY <2>1, UnchangedTable DEF CreateSubscription, queueVars, spaceVars
  <2>2. ASSUME NEW s \in SubIds,
               \/ \E n \in Nodes : CreateMonitoredDataChange(t, s, n)
               \/ \E n \in Nodes : CreateMonitoredEvent(t, s, n)
               \/ CreateMonitoredItemThrows(t, s)
        PROVE  TableInv'
    BY <2>2, CreateDataChangeTable, CreateEventTable, CreateThrowsTable
  <2>3. ASSUME NEW s \in SubIds, NEW i \in ItemIds, DeleteMonitoredItems(t, s, i)
        PROVE  TableInv'
    BY <2>3, DeleteItemsTable DEF DeleteMonitoredItems, serviceVars
  <2>4. ASSUME NEW s \in SubIds, DeleteSubscriptions(t, s)
        PROVE  TableInv'
    <3>1. Present(s) \in SUBSET ItemIds
      BY DEF Present
    <3>2. QED
      BY <2>4, <3>1, DeleteItemsTable DEF DeleteSubscriptions
  <2>5. ASSUME NEW n \in Nodes, Write(t, n)
        PROVE  TableInv'
    <3>1. \A u \in Threads : task'[u].pending \subseteq task[u].pending \cup DataChangeCallbacks
      BY <2>5 DEF Write, Goto, Idle, TypeOK
    <3>2. QED
      BY <2>5, <3>1, UnchangedTable DEF Write, queueVars, serviceVars
  <2>6. ASSUME NEW n \in Nodes, TriggerEvent(t, n)
        PROVE  TableInv'
    BY <2>6, UnchangedTable DEF TriggerEvent, serviceVars, spaceVars
  <2>7. ASSUME NEW q \in Sessions, PublishLoad(t, q)
        PROVE  TableInv'
    <3>1. \A u \in Threads : task'[u].pending \subseteq task[u].pending
      BY <2>7 DEF PublishLoad, Goto, Idle, TypeOK
    <3>2. QED
      BY <2>7, <3>1, UnchangedTable DEF PublishLoad, queueVars, serviceVars, spaceVars
  <2>8. QED
    BY <1>1, <2>1, <2>2, <2>3, <2>4, <2>5, <2>6, <2>7 DEF ServiceCall
<1>2. ASSUME NEW t \in Threads, ContinueCall(t)
      PROVE  TableInv'
  <2>1. ASSUME WriteReturns(t) \/ \E acks \in SUBSET Outstanding : PublishStore(t, acks)
        PROVE  TableInv'
    <3>1. \A u \in Threads : task'[u].pending \subseteq task[u].pending
      BY <2>1 DEF WriteReturns, PublishStore, Finish, Goto, Idle, TypeOK
    <3>2. QED
      BY <2>1, <3>1, UnchangedTable
         DEF WriteReturns, PublishStore, queueVars, serviceVars, spaceVars
  <2>2. QED
    BY <1>2, <2>1, DataChangeCallbackTable DEF ContinueCall
<1>3. ASSUME NEW s \in SubIds, TimerExpires(s)
      PROVE  TableInv'
  BY <1>3, UnchangedTable DEF TimerExpires, queueVars, serviceVars, spaceVars
<1>4. ASSUME NEW t \in IoThreads, NEW s \in SubIds, StartHandler(t, s)
      PROVE  TableInv'
  <2>1. \A u \in Threads : task'[u].pending \subseteq task[u].pending
    BY <1>4 DEF StartHandler, PublishResultsStops, PublishResultsNothing, PublishResultsDue,
       Goto, Idle, TypeOK
  <2>2. QED
    BY <1>4, <2>1, UnchangedTable
       DEF StartHandler, PublishResultsStops, PublishResultsNothing, PublishResultsDue,
           queueVars, serviceVars, spaceVars
<1>5. ASSUME NEW t \in IoThreads, ContinueHandler(t)
      PROVE  TableInv'
  <2>1. task \in [Threads -> Task] /\ t \in Threads /\ task[t].pending \subseteq task[t].pending
    BY DEF TypeOK, Threads
  <2>2. ASSUME PopPublishRequestMissing(t)
        PROVE  TableInv'
    <3>1. \A u \in Threads : task'[u].pending \subseteq task[u].pending
      BY <2>1, <2>2 DEF PopPublishRequestMissing, Finish, Goto, Idle
    <3>2. QED
      BY <2>2, <3>1, UnchangedTable
         DEF PopPublishRequestMissing, queueVars, serviceVars, spaceVars
  <2>3. ASSUME PopPublishRequestLoad(t)
        PROVE  TableInv'
    <3>1. \A u \in Threads : task'[u].pending = task[u].pending
      BY <2>1, <2>3 DEF PopPublishRequestLoad, Goto, Task
    <3>2. QED
      BY <2>3, <3>1, UnchangedTable
         DEF PopPublishRequestLoad, queueVars, serviceVars, spaceVars
  <2>4. ASSUME PopPublishRequestStore(t)
        PROVE  TableInv'
    <3>1. \A u \in Threads : task'[u].pending = task[u].pending
      BY <2>1, <2>4 DEF PopPublishRequestStore, Goto, Task
    <3>2. QED
      BY <2>4, <3>1, UnchangedTable
         DEF PopPublishRequestStore, queueVars, serviceVars, spaceVars
  <2>5. QED
    BY <1>5, <2>2, <2>3, <2>4, PopPublishResultTable DEF ContinueHandler, Threads
<1>6. CASE UNCHANGED vars
  BY <1>6, UnchangedTable DEF vars, queueVars, serviceVars, spaceVars
<1>7. QED
  BY <1>1, <1>2, <1>3, <1>4, <1>5, <1>6 DEF Next

LEMMA TableInvariant == Spec => []TableInv
<1>1. Spec => []TypeInv
  BY InitType, NextType, PTL DEF Spec
<1>2. QED
  BY <1>1, InitTable, NextTable, PTL DEF Spec

\* The address space calls back exactly the existing data-change items, of registered
\* subscriptions only, whatever the interleaving.
THEOREM CallbacksCorrect == Spec => []CallbacksMatchItems
BY TableInvariant, PTL DEF TableInv

\* TriggerEvent always finds the table entry of the event item it looks up.
THEOREM EventItemsCorrect == Spec => []EventItemsExist
BY TableInvariant, PTL DEF TableInv

\* No change of a deleted item is ever left in a queue, even when the deletion
\* overtakes a write that is still calling back.
THEOREM NoStaleChanges == Spec => []ChangesBelongToItems
BY TableInvariant, PTL DEF TableInv
================================================================================
