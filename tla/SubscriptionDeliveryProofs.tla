---------------------- MODULE SubscriptionDeliveryProofs ----------------------
(***************************************************************************)
(* What SubscriptionService delivers: proofs that an expired subscription  *)
(* stays silent, that Republish repeats what was sent, that a response     *)
(* consumes a request, and that no data change is lost or reordered.       *)
(***************************************************************************)
EXTENDS SubscriptionServiceProofs, WellFoundedInduction

\* The steps, whichever thread takes them.
LEMMA Steps ==
  ASSUME [Next]_vars
  PROVE  \/ UNCHANGED vars
         \/ \E t \in Threads : ServiceCall(t) \/ ContinueCall(t) \/ ContinueHandler(t)
         \/ \E s \in SubIds : TimerExpires(s)
         \/ \E t \in Threads, s \in SubIds : StartHandler(t, s)
  BY DEF Next, Threads

LEMMA TypeInvariant == Spec => []TypeInv
  BY InitType, NextType, PTL DEF Spec

--------------------------------------------------------------------------------
(* Expiry                                                                      *)

\* A handler has checked that its subscription lives, and nothing ages it since.
HandlersAreAlive ==
  \A t \in Threads : task[t].op \in HandlerOps => ~HasExpired(task[t].sub)

LEMMA AliveStays ==
  ASSUME HandlersAreAlive, UNCHANGED <<KeepAliveCount, Data>>,
         \A u \in Threads : task'[u].op \in HandlerOps =>
            task[u].op \in HandlerOps /\ task'[u].sub = task[u].sub
  PROVE  HandlersAreAlive'
  BY DEF HandlersAreAlive, HasExpired

LEMMA CallsAlive ==
  ASSUME TypeInv, HandlersAreAlive, NEW t \in Threads, ServiceCall(t) \/ ContinueCall(t)
  PROVE  HandlersAreAlive'
<1>1. ASSUME NEW q \in Sessions, NEW p \in Parameters, CreateSubscription(t, q, p)
      PROVE  HandlersAreAlive'
  <2> DEFINE id == LastSubscriptionId + 1
  <2>1. /\ id \in SubIds /\ KeepAliveCount' = KeepAliveCount /\ task' = task
        /\ Data' = [Data EXCEPT ![id] = p] /\ Data \in [SubIds -> [LifetimeCount : Nat, MaxKeepAliveCount : Nat]]
    BY <1>1 DEF CreateSubscription, TypeInv, TypeOK, ParamTypes
  <2>2. Timer[id] = "none"
    BY <2>1 DEF TypeInv, CallsConsistent, SessionsKnown, TypeOK, ServiceTypes
  <2>3. ASSUME NEW u \in Threads, task[u].op \in HandlerOps PROVE ~HasExpired(task[u].sub)'
    <3>1. task[u].sub \in SubIds /\ task[u].sub # id
      BY <2>2, <2>3 DEF TypeInv, CallsConsistent, SessionsKnown, OneHandlerEach
    <3> QED  BY <2>1, <2>3, <3>1 DEF HandlersAreAlive, HasExpired
  <2> QED  BY <2>1, <2>3 DEF HandlersAreAlive
<1>2. CASE ~\E q \in Sessions, p \in Parameters : CreateSubscription(t, q, p)
  <2>1. UNCHANGED <<KeepAliveCount, Data>>
    BY <1>2 DEF ServiceCall, ContinueCall, CreateMonitoredDataChange, CreateMonitoredEvent,
         CreateMonitoredItemThrows, DeleteMonitoredItems, DeleteSubscriptions, Write, TriggerEvent,
         PublishLoad, DataChangeCallback, WriteReturns, PublishStore, paramVars
  <2>2. task \in [Threads -> Task]
    BY DEF TypeInv, TypeOK
  <2>3. \A u \in Threads : task'[u] = task[u] \/ task'[u].op \in {"idle", "write", "publish"}
    <3>1. CASE (\E n \in Nodes : Write(t, n)) \/ (\E q \in Sessions : PublishLoad(t, q))
      <4>1. ASSUME NEW n \in Nodes, Write(t, n) PROVE task'[t].op = "write"
        BY <2>2, <4>1 DEF Write, Goto, Idle
      <4>2. ASSUME NEW q \in Sessions, PublishLoad(t, q) PROVE task'[t].op = "publish"
        BY <2>2, <4>2 DEF PublishLoad, Goto, Idle
      <4>3. \A u \in Threads : u # t => task'[u] = task[u]
        BY <2>2, <3>1 DEF Write, PublishLoad, Goto
      <4> QED  BY <3>1, <4>1, <4>2, <4>3
    <3>2. ASSUME NEW c \in task[t].pending, DataChangeCallback(t, c)
          PROVE  \A u \in Threads : task'[u] = task[u] \/ task'[u].op = "write"
      BY <2>2, <3>2 DEF DataChangeCallback, Goto, Task
    <3>3. CASE WriteReturns(t) \/ \E acks \in SUBSET Outstanding : PublishStore(t, acks)
      BY <2>2, <3>3 DEF WriteReturns, PublishStore, Finish, Goto, Idle
    <3>4. CASE task' = task
      BY <3>4
    <3> QED  BY <1>2, <3>1, <3>2, <3>3, <3>4 DEF ServiceCall, ContinueCall,
           CreateMonitoredDataChange, CreateMonitoredEvent, CreateMonitoredItemThrows,
           DeleteMonitoredItems, DeleteSubscriptions, TriggerEvent
  <2> QED  BY <2>1, <2>3, AliveStays DEF HandlerOps
<1> QED  BY <1>1, <1>2

LEMMA HandlerAlive ==
  ASSUME TypeInv, HandlersAreAlive, NEW t \in Threads, ContinueHandler(t)
  PROVE  HandlersAreAlive'
<1>1. task \in [Threads -> Task] /\ KeepAliveCount \in [SubIds -> Nat] /\ task[t].op \in HandlerOps
  BY DEF TypeInv, TypeOK, ContinueHandler, PopPublishRequestMissing, PopPublishRequestLoad,
       PopPublishRequestStore, PopPublishResult, HandlerOps
<1>2. CASE PopPublishRequestMissing(t)
  BY <1>1, <1>2, AliveStays DEF PopPublishRequestMissing, Finish, Goto, Idle, HandlerOps, paramVars
<1>3. CASE PopPublishRequestLoad(t) \/ PopPublishRequestStore(t)
  <2>1. \A u \in Threads : task'[u].sub = task[u].sub /\ (u # t => task'[u] = task[u])
    <3>1. CASE PopPublishRequestLoad(t)
      BY <1>1, <3>1 DEF PopPublishRequestLoad, Goto, Task
    <3>2. CASE PopPublishRequestStore(t)
      BY <1>1, <3>2 DEF PopPublishRequestStore, Goto, Task
    <3> QED  BY <1>3, <3>1, <3>2
  <2> QED  BY <1>1, <1>3, <2>1, AliveStays DEF PopPublishRequestLoad, PopPublishRequestStore, paramVars
<1>4. CASE PopPublishResult(t)
  <2>1. \A u \in Threads : task'[u].op \in HandlerOps =>
          u # t /\ task'[u] = task[u] /\ task[u].sub \in SubIds /\ task[u].sub # task[t].sub
    BY <1>1, <1>4 DEF PopPublishResult, Finish, Goto, Idle, HandlerOps, TypeInv, CallsConsistent,
         SessionsKnown, OneHandlerEach
  <2>2. Data' = Data /\ KeepAliveCount' = [KeepAliveCount EXCEPT ![task[t].sub] = 0]
    BY <1>4 DEF PopPublishResult, paramVars
  <2> QED  BY <1>1, <2>1, <2>2 DEF HandlersAreAlive, HasExpired
<1> QED  BY <1>2, <1>3, <1>4 DEF ContinueHandler

LEMMA StartAlive ==
  ASSUME TypeInv, HandlersAreAlive, NEW t \in Threads, NEW s \in SubIds, StartHandler(t, s)
  PROVE  HandlersAreAlive'
<1>1. task \in [Threads -> Task] /\ KeepAliveCount \in [SubIds -> Nat]
  BY DEF TypeInv, TypeOK
<1>2. CASE PublishResultsStops(t, s)
  BY <1>2, AliveStays DEF PublishResultsStops, paramVars
<1>3. CASE PublishResultsNothing(t, s)
  <2>1. /\ Timer[s] = "expired" /\ task' = task /\ Data' = Data
        /\ KeepAliveCount' = [KeepAliveCount EXCEPT ![s] = @ + 1]
    BY <1>3 DEF PublishResultsNothing, MayPublish, paramVars
  <2>2. \A u \in Threads : task[u].op \in HandlerOps => task[u].sub \in SubIds /\ task[u].sub # s
    BY <2>1 DEF TypeInv, CallsConsistent, SessionsKnown, OneHandlerEach
  <2> QED  BY <1>1, <2>1, <2>2 DEF HandlersAreAlive, HasExpired
<1>4. CASE PublishResultsDue(t, s)
  <2>1. ~HasExpired(s) /\ UNCHANGED <<KeepAliveCount, Data>>
    BY <1>4 DEF PublishResultsDue, MayPublish, paramVars
  <2>2. \A u \in Threads : task'[u] = task[u] \/ task'[u].sub = s
    BY <1>1, <1>4 DEF PublishResultsDue, Goto, Idle
  <2> QED  BY <2>1, <2>2 DEF HandlersAreAlive, HasExpired
<1> QED  BY <1>2, <1>3, <1>4 DEF StartHandler

LEMMA AliveInvariant == Spec => []HandlersAreAlive
<1>1. Init => HandlersAreAlive
  BY DEF Init, HandlersAreAlive, Idle, HandlerOps
<1>2. TypeInv /\ HandlersAreAlive /\ [Next]_vars => HandlersAreAlive'
  <2> SUFFICES ASSUME TypeInv, HandlersAreAlive, [Next]_vars PROVE HandlersAreAlive'
    OBVIOUS
  <2>1. CASE UNCHANGED vars \/ \E s \in SubIds : TimerExpires(s)
    BY <2>1, AliveStays DEF vars, TimerExpires, paramVars
  <2> QED  BY <2>1, Steps, CallsAlive, HandlerAlive, StartAlive
<1> QED  BY <1>1, <1>2, TypeInvariant, PTL DEF Spec

\* Once the idle count of a subscription has passed its lifetime, no step of any
\* thread sends a result of it or resets the count, a handler that was already
\* running when the last period ended included.
THEOREM ExpiredStaysSilent == Spec => ExpiryIsFinal
<1> DEFINE Silent == \A s \in SubIds : HasExpired(s) /\ Timer[s] # "none" =>
                       sent'[s] = sent[s] /\ KeepAliveCount'[s] = KeepAliveCount[s]
<1>1. TypeInv /\ HandlersAreAlive /\ [Next]_vars => [Silent]_vars
  <2> SUFFICES ASSUME TypeInv, HandlersAreAlive, [Next]_vars,
                      NEW s \in SubIds, HasExpired(s)
               PROVE  sent'[s] = sent[s] /\ KeepAliveCount'[s] = KeepAliveCount[s]
    BY DEF vars
  <2>1. CASE UNCHANGED vars
    BY <2>1 DEF vars, resultVars
  <2>2. ASSUME NEW t \in Threads, ServiceCall(t) \/ ContinueCall(t)
        PROVE  UNCHANGED <<sent, KeepAliveCount>>
    BY <2>2 DEF ServiceCall, ContinueCall, CreateSubscription, CreateMonitoredDataChange,
         CreateMonitoredEvent, CreateMonitoredItemThrows, DeleteMonitoredItems, DeleteSubscriptions,
         Write, TriggerEvent, PublishLoad, DataChangeCallback, WriteReturns, PublishStore, resultVars
  <2>3. ASSUME NEW r \in SubIds, TimerExpires(r) PROVE UNCHANGED <<sent, KeepAliveCount>>
    BY <2>3 DEF TimerExpires, resultVars
  <2>4. ASSUME NEW t \in Threads, NEW r \in SubIds, StartHandler(t, r)
        PROVE  sent' = sent /\ KeepAliveCount'[s] = KeepAliveCount[s]
    <3>1. CASE PublishResultsNothing(t, r)
      <4>1. r # s /\ sent' = sent /\ KeepAliveCount' = [KeepAliveCount EXCEPT ![r] = @ + 1]
        BY <3>1 DEF PublishResultsNothing, MayPublish, resultVars
      <4> QED  BY <4>1 DEF TypeInv, TypeOK
    <3> QED  BY <2>4, <3>1 DEF StartHandler, PublishResultsStops, PublishResultsDue, resultVars
  <2>5. ASSUME NEW t \in Threads, ContinueHandler(t)
        PROVE  sent'[s] = sent[s] /\ KeepAliveCount'[s] = KeepAliveCount[s]
    <3>1. CASE PopPublishResult(t)
      <4>1. task[t].sub \in SubIds /\ task[t].sub # s
        BY <3>1 DEF PopPublishResult, HandlersAreAlive, HandlerOps, TypeInv, CallsConsistent,
             SessionsKnown
      <4>2. /\ sent' = [sent EXCEPT ![task[t].sub] = Append(@, NewResult(task[t].sub))]
            /\ KeepAliveCount' = [KeepAliveCount EXCEPT ![task[t].sub] = 0]
        BY <3>1 DEF PopPublishResult
      <4> QED  BY <4>1, <4>2 DEF TypeInv, TypeOK, ResultTypes
    <3> QED  BY <2>5, <3>1 DEF ContinueHandler, PopPublishRequestMissing, PopPublishRequestLoad,
         PopPublishRequestStore, resultVars
  <2> QED  BY <2>1, <2>2, <2>3, <2>4, <2>5, Steps
<1> QED  BY <1>1, TypeInvariant, AliveInvariant, PTL DEF Spec, ExpiryIsFinal

--------------------------------------------------------------------------------
(* Republish                                                                   *)

\* The results sent by a subscription are numbered from 1 in their order, and the
\* kept ones are those that have not been acknowledged.
ResultsNumbered ==
  \A s \in SubIds :
    /\ NotificationSequence[s] = Len(sent[s]) + 1
    /\ \A k \in 1 .. Len(sent[s]) : sent[s][k].SequenceNumber = k
    /\ acked[s] \subseteq 1 .. Len(sent[s])
    /\ NotAcknowledgedResults[s] = {sent[s][k] : k \in (1 .. Len(sent[s])) \ acked[s]}

LEMMA PublishStoreNumbered ==
  ASSUME TypeInv, ResultsNumbered, NEW t \in Threads, NEW acks \in SUBSET Outstanding,
         PublishStore(t, acks)
  PROVE  ResultsNumbered'
<1> DEFINE numbers(s) == {a[2] : a \in {b \in acks : b[1] = s}}
<1>1. UNCHANGED <<NotificationSequence, sent>>
  BY DEF PublishStore
<1>2. /\ NotAcknowledgedResults' = [s \in SubIds |->
           IF s \in SubscriptionsMap THEN Unacknowledged(NotAcknowledgedResults[s], numbers(s))
           ELSE NotAcknowledgedResults[s]]
      /\ acked' = [s \in SubIds |-> acked[s] \cup numbers(s)]
  BY DEF PublishStore
<1>3. ASSUME NEW s \in SubIds, NEW x \in numbers(s)
      PROVE  s \in SubscriptionsMap /\ \E r \in NotAcknowledgedResults[s] : x = r.SequenceNumber
  <2>1. PICK a \in acks : a[1] = s /\ a[2] = x
    BY <1>3
  <2>2. PICK u \in SubscriptionsMap :
          \E r \in NotAcknowledgedResults[u] : a = <<u, r.SequenceNumber>>
    BY <2>1 DEF Outstanding
  <2> QED  BY <2>1, <2>2
<1> HIDE DEF numbers
<1>4. ASSUME NEW s \in SubIds
      PROVE  /\ acked'[s] \subseteq 1 .. Len(sent[s])
             /\ NotAcknowledgedResults'[s] = {sent[s][k] : k \in (1 .. Len(sent[s])) \ acked'[s]}
  <2>1. /\ acked[s] \subseteq 1 .. Len(sent[s])
        /\ NotAcknowledgedResults[s] = {sent[s][k] : k \in (1 .. Len(sent[s])) \ acked[s]}
        /\ \A k \in 1 .. Len(sent[s]) : sent[s][k].SequenceNumber = k
    BY DEF ResultsNumbered
  <2>2. numbers(s) \subseteq 1 .. Len(sent[s])
    BY <1>3, <2>1
  <2>3. acked'[s] = acked[s] \cup numbers(s)
    BY <1>2
  <2>4. NotAcknowledgedResults'[s] = {r \in NotAcknowledgedResults[s] : r.SequenceNumber \notin numbers(s)}
    BY <1>2, <1>3 DEF Unacknowledged
  <2>5. ASSUME NEW r
        PROVE  r \in NotAcknowledgedResults'[s]
                 <=> \E k \in (1 .. Len(sent[s])) \ acked'[s] : r = sent[s][k]
    BY <2>1, <2>3, <2>4
  <2> QED  BY <2>1, <2>2, <2>3, <2>5
<1> QED  BY <1>1, <1>4 DEF ResultsNumbered

LEMMA ImageExtends ==
  ASSUME NEW K, NEW x, NEW f, NEW g, \A k \in K : g[k] = f[k]
  PROVE  {f[k] : k \in K} \cup {g[x]} = {g[k] : k \in K \cup {x}}
  OBVIOUS

LEMMA PopPublishResultNumbered ==
  ASSUME TypeInv, ResultsNumbered, NEW t \in Threads, PopPublishResult(t)
  PROVE  ResultsNumbered'
<1> DEFINE s == task[t].sub
           n == Len(sent[s])
<1>1. s \in SubIds
  BY DEF PopPublishResult, HandlerOps, TypeInv, CallsConsistent, SessionsKnown
<1>2. ResultTypes
  BY DEF TypeInv, TypeOK
<1>3. /\ NotificationSequence' = [NotificationSequence EXCEPT ![s] = @ + 1]
      /\ NotAcknowledgedResults' = [NotAcknowledgedResults EXCEPT ![s] = @ \cup {NewResult(s)}]
      /\ sent' = [sent EXCEPT ![s] = Append(@, NewResult(s))]
      /\ acked' = acked
  BY DEF PopPublishResult
<1>4. sent[s] \in Seq(Result) /\ n \in Nat /\ NewResult(s) \in Result
  BY <1>1, <1>2, NewResultType DEF ResultTypes, TypeInv
<1>5. /\ NotificationSequence[s] = n + 1
      /\ \A k \in 1 .. n : sent[s][k].SequenceNumber = k
      /\ acked[s] \subseteq 1 .. n
      /\ NotAcknowledgedResults[s] = {sent[s][k] : k \in (1 .. n) \ acked[s]}
  BY <1>1 DEF ResultsNumbered
<1>6. NewResult(s).SequenceNumber = n + 1
  BY <1>5 DEF NewResult
<1> HIDE DEF n
<1>7. /\ sent'[s] = Append(sent[s], NewResult(s))
      /\ NotificationSequence'[s] = n + 1 + 1
      /\ NotAcknowledgedResults'[s] = NotAcknowledgedResults[s] \cup {NewResult(s)}
  BY <1>1, <1>2, <1>3, <1>5 DEF ResultTypes
<1>8. /\ Len(sent'[s]) = n + 1
      /\ \A k \in 1 .. n : sent'[s][k] = sent[s][k]
      /\ sent'[s][n + 1] = NewResult(s)
  BY <1>4, <1>7 DEF n
<1>9. 1 .. n + 1 = (1 .. n) \cup {n + 1} /\ n + 1 \notin 1 .. n
  BY <1>4
<1>10. /\ NotificationSequence'[s] = Len(sent'[s]) + 1
       /\ \A k \in 1 .. Len(sent'[s]) : sent'[s][k].SequenceNumber = k
       /\ acked'[s] \subseteq 1 .. Len(sent'[s])
  BY <1>3, <1>5, <1>6, <1>7, <1>8, <1>9
<1>11. NotAcknowledgedResults'[s] = {sent'[s][k] : k \in (1 .. Len(sent'[s])) \ acked'[s]}
  <2>1. (1 .. Len(sent'[s])) \ acked'[s] = ((1 .. n) \ acked[s]) \cup {n + 1}
    BY <1>3, <1>5, <1>8, <1>9
  <2>2. \A k \in (1 .. n) \ acked[s] : sent'[s][k] = sent[s][k]
    BY <1>8
  <2>3. {sent[s][k] : k \in (1 .. n) \ acked[s]} \cup {sent'[s][n + 1]}
          = {sent'[s][k] : k \in ((1 .. n) \ acked[s]) \cup {n + 1}}
    BY <2>2, ImageExtends
  <2> QED  BY <1>5, <1>7, <1>8, <2>1, <2>3
<1>12. ASSUME NEW r \in SubIds, r # s
       PROVE  UNCHANGED <<NotificationSequence[r], sent[r], acked[r], NotAcknowledgedResults[r]>>
  BY <1>2, <1>3, <1>12 DEF ResultTypes
<1>13. ASSUME NEW r \in SubIds, r # s
       PROVE  /\ NotificationSequence'[r] = Len(sent'[r]) + 1
              /\ \A k \in 1 .. Len(sent'[r]) : sent'[r][k].SequenceNumber = k
              /\ acked'[r] \subseteq 1 .. Len(sent'[r])
              /\ NotAcknowledgedResults'[r] = {sent'[r][k] : k \in (1 .. Len(sent'[r])) \ acked'[r]}
  BY <1>12, <1>13 DEF ResultsNumbered
<1> HIDE DEF s
<1> QED  BY <1>10, <1>11, <1>13 DEF ResultsNumbered

LEMMA NumberedInvariant == Spec => []ResultsNumbered
<1>1. Init => ResultsNumbered
  BY DEF Init, ResultsNumbered
<1>2. TypeInv /\ ResultsNumbered /\ [Next]_vars => ResultsNumbered'
  <2> SUFFICES ASSUME TypeInv, ResultsNumbered, [Next]_vars PROVE ResultsNumbered'
    OBVIOUS
  <2>1. ASSUME UNCHANGED <<NotificationSequence, sent, acked, NotAcknowledgedResults>>
        PROVE  ResultsNumbered'
    BY <2>1 DEF ResultsNumbered
  <2>2. CASE UNCHANGED vars \/ \E s \in SubIds : TimerExpires(s)
    BY <2>1, <2>2 DEF vars, TimerExpires, resultVars
  <2>3. ASSUME NEW t \in Threads, ServiceCall(t)
        PROVE  ResultsNumbered'
    <3>1. UNCHANGED resultVars
      BY <2>3 DEF ServiceCall, CreateSubscription, CreateMonitoredDataChange,
         CreateMonitoredEvent, CreateMonitoredItemThrows, DeleteMonitoredItems, DeleteSubscriptions,
         Write, TriggerEvent, PublishLoad
    <3> QED  BY <2>1, <3>1 DEF resultVars
  <2>4. ASSUME NEW t \in Threads, ContinueCall(t)
        PROVE  ResultsNumbered'
    BY <2>1, <2>4, PublishStoreNumbered DEF ContinueCall, DataChangeCallback, WriteReturns, resultVars
  <2>5. ASSUME NEW t \in Threads, NEW s \in SubIds, StartHandler(t, s)
        PROVE  ResultsNumbered'
    BY <2>1, <2>5 DEF StartHandler, PublishResultsStops, PublishResultsNothing, PublishResultsDue,
         resultVars
  <2>6. ASSUME NEW t \in Threads, ContinueHandler(t)
        PROVE  ResultsNumbered'
    BY <2>1, <2>6, PopPublishResultNumbered DEF ContinueHandler, PopPublishRequestMissing,
         PopPublishRequestLoad, PopPublishRequestStore, resultVars
  <2> QED  BY <2>2, <2>3, <2>4, <2>5, <2>6, Steps
<1> QED  BY <1>1, <1>2, TypeInvariant, PTL DEF Spec

\* Republish answers every number ever sent with the very message sent under it
\* until it is acknowledged, and never afterwards, however Publish requests and
\* handlers interleave.
THEOREM RepublishIsFaithful == Spec => []RepublishFaithful
<1>1. TypeInv /\ ResultsNumbered => RepublishFaithful
  <2> SUFFICES ASSUME TypeInv, ResultsNumbered,
                      NEW s \in SubscriptionsMap, NEW k \in 1 .. Len(sent[s])
               PROVE  Republish(s, k) =
                        IF k \in acked[s] THEN [Status |-> "BadMessageNotAvailable"]
                        ELSE [Status |-> "Good", SequenceNumber |-> k,
                              changes |-> sent[s][k].changes, events |-> sent[s][k].events]
    BY DEF RepublishFaithful
  <2> DEFINE kept == {r \in NotAcknowledgedResults[s] : r.SequenceNumber = k}
  <2>1. s \in SubIds
    BY DEF TypeInv, TypeOK, ServiceTypes
  <2>2. /\ \A j \in 1 .. Len(sent[s]) : sent[s][j].SequenceNumber = j
        /\ NotAcknowledgedResults[s] = {sent[s][j] : j \in (1 .. Len(sent[s])) \ acked[s]}
    BY <2>1 DEF ResultsNumbered
  <2>3. CASE k \in acked[s]
    <3>1. kept = {}
      BY <2>2, <2>3
    <3> QED  BY <2>3, <3>1 DEF Republish
  <2>4. CASE k \notin acked[s]
    <3>1. kept = {sent[s][k]} /\ sent[s][k].SequenceNumber = k
      BY <2>2, <2>4
    <3> HIDE DEF kept
    <3>2. kept # {} /\ (CHOOSE r \in kept : TRUE) = sent[s][k]
      BY <3>1
    <3>3. Republish(s, k) = [Status |-> "Good", SequenceNumber |-> sent[s][k].SequenceNumber,
                             changes |-> sent[s][k].changes, events |-> sent[s][k].events]
      BY <3>2 DEF Republish, kept
    <3> QED  BY <2>4, <3>1, <3>3
  <2> QED  BY <2>3, <2>4
<1> QED  BY <1>1, TypeInvariant, NumberedInvariant, PTL

--------------------------------------------------------------------------------
(* Requests and responses, with one thread                                     *)

\* PopPublishRequest takes no lock, so that two threads can consume one request, as
\* TLC shows with two io threads. With one thread, the load and the store of a
\* counter have nothing between them.
OneThread == \A t, u \in Threads : t = u

CounterOps == {"publish", "popstore", "popresult"}

\* The requests kept for a session, with the ones answered, do not exceed the ones
\* received; the request of a Publish that has not stored it yet, and the one that a
\* handler has taken and not answered yet, come on top.
RequestsCounted ==
  /\ \A q \in Sessions : PublishRequestQueues[q] + responses[q] <= requests[q]
  /\ \A t \in Threads, q \in Sessions : task[t].session = q =>
       /\ task[t].op \in {"publish", "popstore"} => task[t].count = PublishRequestQueues[q]
       /\ task[t].op \in {"publish", "popresult"} =>
            PublishRequestQueues[q] + responses[q] + 1 <= requests[q]

LEMMA CountedStays ==
  ASSUME RequestsCounted, UNCHANGED <<PublishRequestQueues, requests, responses>>,
         \A t \in Threads : task'[t] = task[t] \/ task'[t].op \notin CounterOps
  PROVE  RequestsCounted'
  BY DEF RequestsCounted, CounterOps

LEMMA CallsCounted ==
  ASSUME OneThread, TypeInv, RequestsCounted, NEW t \in Threads, ServiceCall(t) \/ ContinueCall(t)
  PROVE  RequestsCounted'
<1>1. /\ task \in [Threads -> Task] /\ PublishRequestQueues \in [Sessions -> Nat]
      /\ requests \in [Sessions -> Nat] /\ responses \in [Sessions -> Nat]
  BY DEF TypeInv, TypeOK, ServiceTypes, CountTypes
<1>2. \A u \in Threads : u = t
  BY DEF OneThread
<1>3. ASSUME NEW q \in Sessions, PublishLoad(t, q)
      PROVE  RequestsCounted'
  <2>1. /\ requests' = [requests EXCEPT ![q] = @ + 1]
        /\ UNCHANGED <<PublishRequestQueues, responses>>
    BY <1>3 DEF PublishLoad, serviceVars
  <2>2. /\ task'[t].session = q /\ task'[t].op = "publish"
        /\ task'[t].count = PublishRequestQueues[q]
    BY <1>1, <1>3 DEF PublishLoad, Goto, Idle
  <2> QED  BY <1>1, <1>2, <2>1, <2>2 DEF RequestsCounted
<1>4. ASSUME NEW acks \in SUBSET Outstanding, PublishStore(t, acks)
      PROVE  RequestsCounted'
  <2>1. /\ task[t].op = "publish" /\ task[t].session \in Sessions
        /\ task[t].count = PublishRequestQueues[task[t].session]
    BY <1>4 DEF PublishStore, TypeInv, CallsConsistent, SessionsKnown, RequestsCounted
  <2>2. PublishRequestQueues' \in
          {[PublishRequestQueues EXCEPT ![task[t].session] = task[t].count + 1], PublishRequestQueues}
    BY <1>4 DEF PublishStore
  <2>3. UNCHANGED <<requests, responses>> /\ task'[t].op = "idle"
    BY <1>1, <1>4 DEF PublishStore, Finish, Goto, Idle, countVars
  <2>4. \A q \in Sessions : PublishRequestQueues'[q] + responses'[q] <= requests'[q]
    BY <1>1, <2>1, <2>2, <2>3 DEF RequestsCounted
  <2> QED  BY <1>2, <2>3, <2>4 DEF RequestsCounted
<1>5. CASE ~(\E q \in Sessions : PublishLoad(t, q))
           /\ ~(\E acks \in SUBSET Outstanding : PublishStore(t, acks))
  <2>1. UNCHANGED <<PublishRequestQueues, requests, responses>>
    BY <1>5 DEF ServiceCall, ContinueCall, CreateSubscription, CreateMonitoredDataChange,
         CreateMonitoredEvent, CreateMonitoredItemThrows, DeleteMonitoredItems, DeleteSubscriptions,
         Write, TriggerEvent, DataChangeCallback, WriteReturns, serviceVars, countVars
  <2>2. \A u \in Threads : task'[u] = task[u] \/ task'[u].op \in {"write", "idle"}
    <3>1. CASE \E n \in Nodes : Write(t, n)
      BY <1>1, <3>1 DEF Write, Goto, Idle
    <3>2. ASSUME NEW c \in task[t].pending, DataChangeCallback(t, c)
          PROVE  \A u \in Threads : task'[u] = task[u] \/ task'[u].op = "write"
      BY <1>1, <3>2 DEF DataChangeCallback, Goto, Task
    <3>3. CASE WriteReturns(t)
      BY <1>1, <3>3 DEF WriteReturns, Finish, Goto, Idle
    <3>4. CASE task' = task
      BY <3>4
    <3> QED  BY <1>5, <3>1, <3>2, <3>3, <3>4 DEF ServiceCall, ContinueCall, CreateSubscription,
           CreateMonitoredDataChange, CreateMonitoredEvent, CreateMonitoredItemThrows,
           DeleteMonitoredItems, DeleteSubscriptions, TriggerEvent
  <2> QED  BY <2>1, <2>2, CountedStays DEF CounterOps
<1> QED  BY <1>3, <1>4, <1>5

LEMMA HandlerCounted ==
  ASSUME OneThread, TypeInv, RequestsCounted, NEW t \in Threads, ContinueHandler(t)
  PROVE  RequestsCounted'
<1>1. /\ task \in [Threads -> Task] /\ PublishRequestQueues \in [Sessions -> Nat]
      /\ requests \in [Sessions -> Nat] /\ responses \in [Sessions -> Nat]
  BY DEF TypeInv, TypeOK, ServiceTypes, CountTypes
<1>2. \A u \in Threads : u = t
  BY DEF OneThread
<1>3. task[t].op \in HandlerOps /\ task[t].session \in Sessions
  BY DEF ContinueHandler, PopPublishRequestMissing, PopPublishRequestLoad, PopPublishRequestStore,
       PopPublishResult, HandlerOps, TypeInv, CallsConsistent, SessionsKnown
<1>4. CASE PopPublishRequestMissing(t)
  <2>1. \A u \in Threads : task'[u].op = "idle"
    BY <1>1, <1>2, <1>4 DEF PopPublishRequestMissing, Finish, Goto, Idle
  <2> QED  BY <1>4, <2>1, CountedStays DEF PopPublishRequestMissing, serviceVars, countVars, CounterOps
<1>5. CASE PopPublishRequestLoad(t)
  <2>1. /\ task'[t].op = "popstore" /\ task'[t].session = task[t].session
        /\ task'[t].count = PublishRequestQueues[task[t].session]
    BY <1>1, <1>5 DEF PopPublishRequestLoad, Goto, Task
  <2>2. UNCHANGED <<PublishRequestQueues, requests, responses>>
    BY <1>5 DEF PopPublishRequestLoad, serviceVars, countVars
  <2> QED  BY <1>2, <2>1, <2>2 DEF RequestsCounted
<1>6. CASE PopPublishRequestStore(t)
  <2>1. task[t].op = "popstore" /\ task[t].count > 0
        /\ task[t].count = PublishRequestQueues[task[t].session]
    BY <1>3, <1>6 DEF PopPublishRequestStore, TypeInv, CallsConsistent, SessionsKnown, RequestsCounted
  <2>2. /\ task'[t].op = "popresult" /\ task'[t].session = task[t].session
    BY <1>1, <1>6 DEF PopPublishRequestStore, Goto, Task
  <2>3. /\ PublishRequestQueues' = [PublishRequestQueues EXCEPT ![task[t].session] = task[t].count - 1]
        /\ UNCHANGED <<requests, responses>>
    BY <1>6 DEF PopPublishRequestStore, Decremented, countVars
  <2>4. \A q \in Sessions : PublishRequestQueues'[q] + responses'[q] <= requests'[q]
    BY <1>1, <1>3, <2>1, <2>3 DEF RequestsCounted
  <2>5. LET q == task[t].session IN PublishRequestQueues'[q] + responses'[q] + 1 <= requests'[q]
    BY <1>1, <1>3, <2>1, <2>3 DEF RequestsCounted
  <2> QED  BY <1>2, <2>2, <2>4, <2>5 DEF RequestsCounted
<1>7. CASE PopPublishResult(t)
  <2>1. task[t].op = "popresult" /\ task'[t].op = "idle"
    BY <1>1, <1>7 DEF PopPublishResult, Finish, Goto, Idle
  <2>2. LET q == task[t].session IN PublishRequestQueues[q] + responses[q] + 1 <= requests[q]
    BY <1>3, <2>1 DEF RequestsCounted
  <2>3. /\ responses' = [responses EXCEPT ![task[t].session] = @ + 1]
        /\ UNCHANGED <<requests, PublishRequestQueues>>
    BY <1>7 DEF PopPublishResult, serviceVars
  <2>4. \A q \in Sessions : PublishRequestQueues'[q] + responses'[q] <= requests'[q]
    BY <1>1, <1>3, <2>2, <2>3 DEF RequestsCounted
  <2> QED  BY <1>2, <2>1, <2>4 DEF RequestsCounted
<1> QED  BY <1>4, <1>5, <1>6, <1>7 DEF ContinueHandler

\* With one thread in the server, every response that is sent answers a publish
\* request of its own, for any number of sessions and subscriptions.
THEOREM OneThreadAnswersRequests ==
  ASSUME OneThread
  PROVE  Spec => []ResponsesNeverExceedRequests
<1>1. Init => RequestsCounted
  BY DEF Init, RequestsCounted, Idle
<1>2. TypeInv /\ RequestsCounted /\ [Next]_vars => RequestsCounted'
  <2> SUFFICES ASSUME TypeInv, RequestsCounted, [Next]_vars PROVE RequestsCounted'
    OBVIOUS
  <2>1. CASE UNCHANGED vars \/ \E s \in SubIds : TimerExpires(s)
    BY <2>1, CountedStays DEF vars, TimerExpires, serviceVars, countVars
  <2>2. ASSUME NEW t \in Threads, NEW s \in SubIds, StartHandler(t, s)
        PROVE  RequestsCounted'
    <3>1. \A u \in Threads : task'[u] = task[u] \/ task'[u].op = "poprequest"
      BY <2>2 DEF StartHandler, PublishResultsStops, PublishResultsNothing, PublishResultsDue,
           Goto, Idle, TypeInv, TypeOK
    <3> QED  BY <2>2, <3>1, CountedStays DEF StartHandler, PublishResultsStops,
           PublishResultsNothing, PublishResultsDue, serviceVars, countVars, CounterOps
  <2> QED  BY <2>1, <2>2, Steps, CallsCounted, HandlerCounted
<1>3. TypeInv /\ RequestsCounted => ResponsesNeverExceedRequests
  BY DEF RequestsCounted, ResponsesNeverExceedRequests, TypeInv, TypeOK, ServiceTypes, CountTypes
<1> QED  BY <1>1, <1>2, <1>3, TypeInvariant, PTL DEF Spec

--------------------------------------------------------------------------------
(* The values that a queue reports                                             *)

\* Induction over the natural numbers, for a set of them.
LEMMA SetInduction ==
  ASSUME NEW T \in SUBSET Nat, 0 \in T, \A n \in T : n + 1 \in T
  PROVE  T = Nat
<1> DEFINE R == OpToRel(<, Nat)
<1>1. \A x, y \in Nat : y < x => <<y, x>> \in R
  BY DEF OpToRel
<1> HIDE DEF R
<1>2. SUFFICES ASSUME Nat \ T # {} PROVE FALSE
  OBVIOUS
<1>3. PICK x \in Nat \ T : \A y \in Nat \ T : ~(<<y, x>> \in R)
  BY <1>2, NatLessThanWellFounded, WFMin DEF R
<1>4. x # 0 /\ x - 1 \in Nat
  BY <1>3
<1>5. x - 1 \in T
  <2>1. <<x - 1, x>> \in R
    BY <1>1, <1>3, <1>4
  <2> QED  BY <1>3, <1>4, <2>1
<1>6. x = (x - 1) + 1
  BY <1>3
<1> QED  BY <1>3, <1>5, <1>6

\* f is what ValuesUpTo defines, for the first m entries.
IsUpTo(f, queue, i, m) ==
  f = [n \in 0 .. m |->
         IF n = 0 THEN <<>>
         ELSE IF queue[n].item = i THEN Append(f[n - 1], queue[n].value) ELSE f[n - 1]]

LEMMA UpToExists ==
  ASSUME NEW queue, NEW i
  PROVE  \A m \in Nat : \E f : IsUpTo(f, queue, i, m)
<1> DEFINE T == {m \in Nat : \E f : IsUpTo(f, queue, i, m)}
<1>1. 0 \in T
  <2> DEFINE g == [n \in 0 .. 0 |-> <<>>]
  <2>1. IsUpTo(g, queue, i, 0)
    BY DEF IsUpTo
  <2> QED  BY <2>1
<1>2. ASSUME NEW m \in T PROVE m + 1 \in T
  <2>1. PICK f : IsUpTo(f, queue, i, m)
    BY <1>2
  <2> DEFINE g == [n \in 0 .. m + 1 |->
                     IF n <= m THEN f[n]
                     ELSE IF queue[n].item = i THEN Append(f[n - 1], queue[n].value) ELSE f[n - 1]]
  <2>2. ASSUME NEW n \in 0 .. m + 1
        PROVE  g[n] = IF n = 0 THEN <<>>
                      ELSE IF queue[n].item = i THEN Append(g[n - 1], queue[n].value) ELSE g[n - 1]
    <3>1. CASE n = 0
      BY <2>1, <3>1 DEF IsUpTo
    <3>2. CASE n # 0 /\ n <= m
      <4>1. n \in 0 .. m /\ n - 1 \in 0 .. m + 1 /\ n - 1 <= m
        BY <3>2
      <4>2. g[n] = f[n] /\ g[n - 1] = f[n - 1]
        BY <3>2, <4>1
      <4> QED  BY <2>1, <3>2, <4>1, <4>2 DEF IsUpTo
    <3>3. CASE n = m + 1
      <4>1. n - 1 \in 0 .. m + 1 /\ n - 1 <= m /\ ~(n <= m) /\ n # 0
        BY <3>3
      <4> QED  BY <4>1
    <3> QED  BY <3>1, <3>2, <3>3
  <2>3. g = [n \in 0 .. m + 1 |-> g[n]]
    OBVIOUS
  <2> HIDE DEF g
  <2>4. IsUpTo(g, queue, i, m + 1)
    BY <2>2, <2>3 DEF IsUpTo
  <2> QED  BY <2>4
<1>3. T = Nat
  <2> HIDE DEF T
  <2>1. T \in SUBSET Nat
    BY DEF T
  <2> QED  BY <1>1, <1>2, <2>1, SetInduction
<1> QED  BY <1>3

LEMMA UpToDef ==
  ASSUME NEW queue \in Seq(Change), NEW i
  PROVE  /\ ValuesUpTo(queue, i)[0] = <<>>
         /\ \A n \in 1 .. Len(queue) : ValuesUpTo(queue, i)[n] =
              IF queue[n].item = i
              THEN Append(ValuesUpTo(queue, i)[n - 1], queue[n].value)
              ELSE ValuesUpTo(queue, i)[n - 1]
<1> DEFINE F == ValuesUpTo(queue, i)
<1>1. IsUpTo(F, queue, i, Len(queue))
  <2>1. \E f : IsUpTo(f, queue, i, Len(queue))
    <3>1. Len(queue) \in Nat
      OBVIOUS
    <3> QED  BY <3>1, UpToExists, Zenon
  <2>2. F = CHOOSE f : IsUpTo(f, queue, i, Len(queue))
    BY Zenon DEF ValuesUpTo, IsUpTo
  <2> HIDE DEF F
  <2> QED  BY <2>1, <2>2
<1> HIDE DEF F
<1>2. F[0] = <<>>
  BY <1>1 DEF IsUpTo
<1>3. ASSUME NEW n \in 1 .. Len(queue)
      PROVE  F[n] = IF queue[n].item = i THEN Append(F[n - 1], queue[n].value) ELSE F[n - 1]
  <2>1. n \in 0 .. Len(queue) /\ n # 0
    OBVIOUS
  <2> QED  BY <1>1, <2>1 DEF IsUpTo
<1> QED  BY <1>2, <1>3 DEF F

LEMMA UpToType ==
  ASSUME NEW queue \in Seq(Change), NEW i
  PROVE  \A n \in 0 .. Len(queue) : ValuesUpTo(queue, i)[n] \in Seq(Nat)
<1> DEFINE F == ValuesUpTo(queue, i)
           T == {n \in Nat : n <= Len(queue) => F[n] \in Seq(Nat)}
<1>1. /\ F[0] = <<>>
      /\ \A n \in 1 .. Len(queue) :
           F[n] = IF queue[n].item = i THEN Append(F[n - 1], queue[n].value) ELSE F[n - 1]
  BY UpToDef
<1> HIDE DEF F
<1>2. 0 \in T
  <2>1. F[0] \in Seq(Nat) /\ 0 \in Nat
    BY <1>1, EmptySeq
  <2> QED  BY <2>1
<1>3. ASSUME NEW n \in T PROVE n + 1 \in T
  <2>1. SUFFICES ASSUME n + 1 <= Len(queue) PROVE F[n + 1] \in Seq(Nat)
    OBVIOUS
  <2>2. n + 1 \in 1 .. Len(queue) /\ (n + 1) - 1 = n /\ F[n] \in Seq(Nat)
    BY <1>3, <2>1
  <2>3. queue[n + 1].value \in Nat
    <3>1. queue[n + 1] \in Change
      BY <2>2, ElementOfSeq
    <3> QED  BY <3>1 DEF Change
  <2>4. Append(F[n], queue[n + 1].value) \in Seq(Nat)
    BY <2>2, <2>3
  <2> QED  BY <1>1, <2>2, <2>4
<1>4. T = Nat
  <2> HIDE DEF T
  <2>1. T \in SUBSET Nat
    BY DEF T
  <2> QED  BY <1>2, <1>3, <2>1, SetInduction
<1> QED  BY <1>4 DEF F

LEMMA ValuesOfType ==
  ASSUME NEW queue \in Seq(Change), NEW i
  PROVE  ValuesOf(queue, i) \in Seq(Nat)
<1>1. Len(queue) \in 0 .. Len(queue)
  OBVIOUS
<1> QED  BY <1>1, UpToType DEF ValuesOf

LEMMA ValuesOfEmpty ==
  ASSUME NEW i
  PROVE  ValuesOf(<<>>, i) = <<>>
<1>1. <<>> \in Seq(Change) /\ Len(<<>>) = 0
  OBVIOUS
<1> QED  BY <1>1, UpToDef DEF ValuesOf

\* What the first entries report depends on them alone.
LEMMA ValuesSame ==
  ASSUME NEW queue \in Seq(Change), NEW other \in Seq(Change), NEW i, NEW m \in Nat,
         m <= Len(queue), m <= Len(other), \A n \in 1 .. m : queue[n] = other[n]
  PROVE  ValuesUpTo(queue, i)[m] = ValuesUpTo(other, i)[m]
<1> DEFINE F == ValuesUpTo(queue, i)
           G == ValuesUpTo(other, i)
           T == {n \in Nat : n <= m => F[n] = G[n]}
<1>1. /\ F[0] = <<>> /\ G[0] = <<>>
      /\ \A n \in 1 .. Len(queue) :
           F[n] = IF queue[n].item = i THEN Append(F[n - 1], queue[n].value) ELSE F[n - 1]
      /\ \A n \in 1 .. Len(other) :
           G[n] = IF other[n].item = i THEN Append(G[n - 1], other[n].value) ELSE G[n - 1]
  BY UpToDef
<1> HIDE DEF F, G
<1>2. 0 \in T
  BY <1>1
<1>3. ASSUME NEW n \in T PROVE n + 1 \in T
  <2>1. SUFFICES ASSUME n + 1 <= m PROVE F[n + 1] = G[n + 1]
    OBVIOUS
  <2>2. /\ n + 1 \in 1 .. Len(queue) /\ n + 1 \in 1 .. Len(other) /\ n + 1 \in 1 .. m
        /\ (n + 1) - 1 = n /\ F[n] = G[n]
    BY <1>3, <2>1
  <2> QED  BY <1>1, <2>2
<1>4. T = Nat
  <2> HIDE DEF T
  <2>1. T \in SUBSET Nat
    BY DEF T
  <2> QED  BY <1>2, <1>3, <2>1, SetInduction
<1> QED  BY <1>4 DEF F, G

LEMMA ValuesOfAppend ==
  ASSUME NEW queue \in Seq(Change), NEW e \in Change, NEW i
  PROVE  ValuesOf(Append(queue, e), i) =
           IF e.item = i THEN Append(ValuesOf(queue, i), e.value) ELSE ValuesOf(queue, i)
<1> DEFINE q == Append(queue, e)
           n == Len(queue)
<1>1. /\ q \in Seq(Change) /\ n \in Nat /\ Len(q) = n + 1 /\ q[n + 1] = e
      /\ \A k \in 1 .. n : q[k] = queue[k]
  OBVIOUS
<1> HIDE DEF q, n
<1>2. n + 1 \in 1 .. Len(q) /\ (n + 1) - 1 = n /\ n <= Len(q) /\ n <= Len(queue)
  BY <1>1 DEF n
<1>3. ValuesUpTo(q, i)[n] = ValuesUpTo(queue, i)[n]
  BY <1>1, <1>2, ValuesSame
<1>4. ValuesUpTo(q, i)[n + 1] =
        IF e.item = i THEN Append(ValuesUpTo(q, i)[n], e.value) ELSE ValuesUpTo(q, i)[n]
  BY <1>1, <1>2, UpToDef
<1> QED  BY <1>1, <1>3, <1>4 DEF ValuesOf, q, n

\* An item of which no entry is left has no values.
LEMMA ValuesOfNone ==
  ASSUME NEW queue \in Seq(Change), NEW i, \A n \in 1 .. Len(queue) : queue[n].item # i
  PROVE  ValuesOf(queue, i) = <<>>
<1> DEFINE F == ValuesUpTo(queue, i)
           T == {n \in Nat : n <= Len(queue) => F[n] = <<>>}
<1>1. /\ F[0] = <<>>
      /\ \A n \in 1 .. Len(queue) : F[n] = F[n - 1]
  BY UpToDef
<1> HIDE DEF F
<1>2. 0 \in T
  BY <1>1
<1>3. ASSUME NEW n \in T PROVE n + 1 \in T
  <2>1. SUFFICES ASSUME n + 1 <= Len(queue) PROVE F[n + 1] = <<>>
    OBVIOUS
  <2>2. n + 1 \in 1 .. Len(queue) /\ (n + 1) - 1 = n /\ F[n] = <<>>
    BY <1>3, <2>1
  <2> QED  BY <1>1, <2>2
<1>4. T = Nat
  <2> HIDE DEF T
  <2>1. T \in SUBSET Nat
    BY DEF T
  <2> QED  BY <1>2, <1>3, <2>1, SetInduction
<1>5. Len(queue) \in Nat
  OBVIOUS
<1> QED  BY <1>4, <1>5 DEF F, ValuesOf

\* An increasing enumeration of the kept positions, as many as there are, misses none.
LEMMA EnumerationIsComplete ==
  ASSUME NEW m \in Nat, NEW keep \in SUBSET (1 .. m),
         NEW f \in [1 .. Cardinality(keep) -> keep],
         \A j, k \in 1 .. Cardinality(keep) : j < k => f[j] < f[k]
  PROVE  Cardinality(keep) \in Nat /\ \A x \in keep : \E k \in 1 .. Cardinality(keep) : f[k] = x
<1> DEFINE n == Cardinality(keep)
<1>1. IsFiniteSet(keep) /\ n \in Nat
  <2>1. IsFiniteSet(1 .. m)
    BY FS_Interval
  <2> QED  BY <2>1, FS_Subset, FS_CardinalityType
<1> HIDE DEF n
<1>2. IsFiniteSet(1 .. n) /\ Cardinality(1 .. n) = n
  <2>1. IsFiniteSet(1 .. n) /\ Cardinality(1 .. n) = IF 1 > n THEN 0 ELSE n - 1 + 1
    BY <1>1, FS_Interval
  <2> QED  BY <1>1, <2>1
<1>3. ASSUME NEW j \in 1 .. n, NEW k \in 1 .. n, f[j] = f[k]
      PROVE  j = k
  <2>1. (j < k => f[j] < f[k]) /\ (k < j => f[k] < f[j])
    BY DEF n
  <2>2. f[j] \in keep /\ keep \subseteq Nat
    BY DEF n
  <2>3. f[j] \in Nat /\ ~(f[j] < f[k]) /\ ~(f[k] < f[j])
    <3>1. \A x, y \in Nat : x = y => ~(x < y) /\ ~(y < x)
      OBVIOUS
    <3>2. f[j] \in Nat
      BY <2>2, Zenon
    <3> QED  BY <1>3, <3>1, <3>2, Zenon
  <2> QED  BY <1>1, <2>1, <2>3
<1>4. f \in Injection(1 .. n, keep)
  BY <1>3 DEF n, Injection, IsInjective
<1>5. f \in Surjection(1 .. n, keep)
  BY <1>1, <1>2, <1>4, FS_Injection DEF n
<1> QED  BY <1>1, <1>5 DEF n, Surjection

\* Erasing the entries of other items leaves the values of an item as they are: the
\* values up to a position are those that the kept entries up to there report.
LEMMA ValuesOfPurged ==
  ASSUME NEW queue \in Seq(Change), NEW items, NEW left \in PurgedChanges(queue, items),
         NEW i, i \notin items
  PROVE  ValuesOf(left, i) = ValuesOf(queue, i)
<1> DEFINE keep == {j \in 1 .. Len(queue) : queue[j].item \notin items}
           n == Cardinality(keep)
<1>1. PICK f \in [1 .. n -> keep] :
        /\ \A j, k \in 1 .. n : j < k => f[j] < f[k]
        /\ left = [k \in 1 .. n |-> queue[f[k]]]
  BY DEF PurgedChanges, Selections
<1>2. left \in Seq(Change) /\ Len(queue) \in Nat
  BY PurgedChangesType
<1>3. keep \in SUBSET (1 .. Len(queue)) /\ \A x \in 1 .. Len(queue) : x \notin keep => queue[x].item # i
  OBVIOUS
<1> HIDE DEF keep
<1>4. n \in Nat /\ \A x \in keep : \E k \in 1 .. n : f[k] = x
  BY <1>1, <1>2, <1>3, EnumerationIsComplete
<1> HIDE DEF n
<1>5. Len(left) = n /\ \A k \in 1 .. n : left[k] = queue[f[k]]
  BY <1>1, <1>4
<1> DEFINE at == [k \in 0 .. n |-> IF k = 0 THEN 0 ELSE f[k]]
<1>6. at[0] = 0 /\ \A k \in 1 .. n : at[k] = f[k] /\ at[k] \in keep
  BY <1>1, <1>4
<1> HIDE DEF at
<1>7. \A k \in 1 .. n : at[k] \in 1 .. Len(queue) /\ left[k] = queue[at[k]]
  BY <1>3, <1>5, <1>6
<1>8. \A x \in keep : \E k \in 1 .. n : at[k] = x
  BY <1>4, <1>6
<1>9. \A j, k \in 0 .. n : at[j] \in Nat /\ (j < k => at[j] < at[k])
  <2> SUFFICES ASSUME NEW j \in 0 .. n, NEW k \in 0 .. n
               PROVE  at[j] \in Nat /\ (j < k => at[j] < at[k])
    OBVIOUS
  <2>1. CASE j = 0
    <3>1. j < k => k \in 1 .. n
      BY <1>4, <2>1
    <3> QED  BY <1>2, <1>6, <1>7, <2>1, <3>1
  <2>2. CASE j # 0
    <3>1. j \in 1 .. n /\ (j < k => k \in 1 .. n)
      BY <1>4, <2>2
    <3> QED  BY <1>1, <1>2, <1>6, <1>7, <3>1
  <2> QED  BY <2>1, <2>2
<1> DEFINE F == ValuesUpTo(queue, i)
           G == ValuesUpTo(left, i)
<1>10. /\ F[0] = <<>> /\ G[0] = <<>>
       /\ \A m \in 1 .. Len(queue) :
            F[m] = IF queue[m].item = i THEN Append(F[m - 1], queue[m].value) ELSE F[m - 1]
       /\ \A k \in 1 .. n :
            G[k] = IF left[k].item = i THEN Append(G[k - 1], left[k].value) ELSE G[k - 1]
  BY <1>2, <1>5, UpToDef
<1> HIDE DEF F, G
<1> DEFINE Between(k, m) == at[k] <= m /\ (k < n => m < at[k + 1])
           T == {m \in Nat : m <= Len(queue) => \A k \in 0 .. n : Between(k, m) => F[m] = G[k]}
<1>11. 0 \in T
  <2>1. ASSUME NEW k \in 0 .. n, Between(k, 0) PROVE k = 0
    <3>1. 0 \in 0 .. n /\ at[k] <= 0 /\ at[k] \in Nat
      BY <1>4, <1>9, <2>1
    <3>2. ~(0 < k)
      BY <1>6, <1>9, <3>1
    <3> QED  BY <1>4, <3>2
  <2> QED  BY <1>10, <2>1
<1>12. ASSUME NEW m \in T PROVE m + 1 \in T
  <2>1. SUFFICES ASSUME m + 1 <= Len(queue), NEW k \in 0 .. n, Between(k, m + 1)
                 PROVE  F[m + 1] = G[k]
    OBVIOUS
  <2>2. /\ m \in Nat /\ m + 1 \in 1 .. Len(queue) /\ (m + 1) - 1 = m
        /\ \A j \in 0 .. n : Between(j, m) => F[m] = G[j]
    BY <1>2, <1>12, <2>1
  <2>3. at[k] \in Nat /\ at[k] <= m + 1 /\ (k < n => m + 1 < at[k + 1] /\ at[k + 1] \in Nat)
    <3>1. k < n => k + 1 \in 0 .. n
      BY <1>4
    <3> QED  BY <1>9, <2>1, <3>1
  <2>4. CASE m + 1 \notin keep
    <3>1. at[k] # m + 1
      BY <1>4, <1>6, <2>4, <2>2
    <3>2. Between(k, m)
      BY <2>2, <2>3, <3>1
    <3>3. F[m + 1] = F[m]
      BY <1>3, <1>10, <2>2, <2>4
    <3> QED  BY <2>2, <3>2, <3>3
  <2>5. CASE m + 1 \in keep
    <3>1. PICK j \in 1 .. n : at[j] = m + 1
      BY <1>8, <2>5
    <3>2. j = k
      <4>1. j \in 0 .. n /\ j \in Int /\ k \in Int /\ k <= n
        BY <1>4, <3>1
      <4>2. ~(j < k)
        BY <1>9, <2>2, <2>3, <3>1, <4>1
      <4>3. ASSUME k < j PROVE FALSE
        <5>1. k < n /\ k + 1 \in 0 .. n /\ (k + 1 = j \/ k + 1 < j)
          BY <1>4, <4>1, <4>3
        <5>2. at[k + 1] <= at[j]
          BY <1>9, <2>2, <2>3, <3>1, <4>1, <5>1
        <5> QED  BY <2>2, <2>3, <3>1, <5>1, <5>2
      <4> QED  BY <4>1, <4>2, <4>3
    <3>3. j - 1 \in 0 .. n /\ j - 1 < n /\ (j - 1) + 1 = j /\ at[j - 1] \in Nat /\ at[j - 1] < at[j]
      <4>1. j \in 0 .. n /\ j - 1 \in 0 .. n /\ j - 1 < j /\ j - 1 < n /\ (j - 1) + 1 = j
        BY <1>4, <3>1
      <4> QED  BY <1>9, <4>1
    <3>4. Between(j - 1, m)
      BY <2>2, <3>1, <3>3
    <3>5. F[m] = G[j - 1]
      BY <2>2, <3>3, <3>4
    <3>6. left[j] = queue[m + 1]
      BY <1>7, <3>1
    <3>7. G[j] = IF left[j].item = i THEN Append(G[j - 1], left[j].value) ELSE G[j - 1]
      BY <1>10, <3>1
    <3>8. F[m + 1] = IF queue[m + 1].item = i THEN Append(F[m], queue[m + 1].value) ELSE F[m]
      BY <1>10, <2>2
    <3> QED  BY <3>2, <3>5, <3>6, <3>7, <3>8
  <2> QED  BY <2>4, <2>5
<1>13. T = Nat
  <2> HIDE DEF T
  <2>1. T \in SUBSET Nat
    BY DEF T
  <2> QED  BY <1>11, <1>12, <2>1, SetInduction
<1>14. F[Len(queue)] = G[n]
  <2>1. n \in 0 .. n /\ at[n] <= Len(queue)
    BY <1>2, <1>4, <1>6, <1>7
  <2>2. Between(n, Len(queue))
    BY <1>4, <2>1
  <2> QED  BY <1>2, <1>13, <2>1, <2>2
<1> QED  BY <1>5, <1>14 DEF F, G, ValuesOf

--------------------------------------------------------------------------------
(* No change is lost                                                           *)

HistoryTypes ==
  /\ expected \in [SubIds -> [ItemIds -> Seq(Nat)]]
  /\ delivered \in [SubIds -> [ItemIds -> Seq(Nat)]]

\* One thread at a time calls back, and the callbacks it still has to make for
\* existing items are registered ones.
OneWriter ==
  /\ \A t \in Threads : task[t].pending # {} => task[t].op = "write"
  /\ \A t, u \in Threads : task[t].op = "write" /\ task[u].op = "write" => t = u
  /\ \A t \in Threads : \A c \in task[t].pending :
       MonitoredDataChanges[c.sub][c.item] > 0 => c \in DataChangeCallbacks

\* An item that does not exist yet has reported nothing.
FreshDelivered ==
  \A s \in SubIds, i \in ItemIds : i > LastMonitoredItemId[s] => delivered[s][i] = <<>>

\* What InFlight is.
FlightKnown ==
  \A s \in SubIds, i \in ItemIds : MonitoredDataChanges[s][i] > 0 =>
    /\ \A t \in Threads : \A c \in task[t].pending :
         c.sub = s /\ c.item = i => InFlight(s, i) = <<Value[c.node]>>
    /\ (\A t \in Threads : \A c \in task[t].pending : ~(c.sub = s /\ c.item = i))
         => InFlight(s, i) = <<>>

LEMMA FlightIsKnown == TableInv /\ OneWriter => FlightKnown
<1> SUFFICES ASSUME TableInv, OneWriter, NEW s \in SubIds, NEW i \in ItemIds,
                    MonitoredDataChanges[s][i] > 0
             PROVE  /\ \A t \in Threads : \A c \in task[t].pending :
                         c.sub = s /\ c.item = i => InFlight(s, i) = <<Value[c.node]>>
                    /\ (\A t \in Threads : \A c \in task[t].pending : ~(c.sub = s /\ c.item = i))
                         => InFlight(s, i) = <<>>
  BY DEF FlightKnown
<1> DEFINE calls == {c \in UNION {task[t].pending : t \in Threads} : c.sub = s /\ c.item = i}
<1>1. InFlight(s, i) = IF calls = {} THEN <<>> ELSE <<Value[(CHOOSE c \in calls : TRUE).node]>>
  BY DEF InFlight
<1>2. \A c, d \in calls : c = d
  <2> SUFFICES ASSUME NEW c \in calls, NEW d \in calls PROVE c = d
    OBVIOUS
  <2>1. c \in DataChangeCallbacks /\ d \in DataChangeCallbacks
    BY DEF OneWriter
  <2>2. c.handle = d.handle
    BY <2>1 DEF TableInv, CallbacksMatchItems
  <2> QED  BY <2>1, <2>2 DEF TableInv, CallbacksMatchItems
<1>3. ASSUME NEW t \in Threads, NEW c \in task[t].pending, c.sub = s, c.item = i
      PROVE  InFlight(s, i) = <<Value[c.node]>>
  <2>1. c \in calls
    BY <1>3
  <2> HIDE DEF calls
  <2>2. (CHOOSE d \in calls : TRUE) \in calls
    BY <2>1
  <2>3. (CHOOSE d \in calls : TRUE) = c
    BY <1>2, <2>1, <2>2
  <2> QED  BY <1>1, <2>1, <2>3
<1>4. ASSUME \A t \in Threads : \A c \in task[t].pending : ~(c.sub = s /\ c.item = i)
      PROVE  InFlight(s, i) = <<>>
  <2>1. calls = {}
    BY <1>4
  <2> QED  BY <1>1, <2>1
<1> QED  BY <1>3, <1>4

LEMMA FlightIsKnownNext == TableInv' /\ OneWriter' => FlightKnown'
  BY FlightIsKnown, PTL

\* The threads, in a step that neither stores a value nor calls back.
SameWriter ==
  \A u \in Threads :
    /\ task'[u].pending = task[u].pending
    /\ task'[u].op = "write" => task[u].op = "write"
    /\ task[u].pending # {} => task'[u].op = task[u].op

\* The steps that touch neither items nor changes.
QuietStep ==
  /\ UNCHANGED <<MonitoredDataChanges, DataChangeCallbacks, LastMonitoredItemId,
                 TriggeredDataChangeEvents, Value, expected, delivered>>
  /\ SameWriter

LEMMA SameWriterWhen ==
  ASSUME TypeInv, NEW t \in Threads, NEW new, task' = [task EXCEPT ![t] = new],
         task[t].pending = {}, new.pending = {}, new.op # "write"
  PROVE  SameWriter
  BY DEF SameWriter, TypeInv, TypeOK

LEMMA QuietCalls ==
  ASSUME TypeInv, OneWriter, NEW t \in Threads,
         \/ \E q \in Sessions, p \in Parameters : CreateSubscription(t, q, p)
         \/ \E n \in Nodes : TriggerEvent(t, n)
         \/ \E q \in Sessions : PublishLoad(t, q)
         \/ WriteReturns(t)
         \/ \E acks \in SUBSET Outstanding : PublishStore(t, acks)
  PROVE  QuietStep
<1>1. UNCHANGED <<MonitoredDataChanges, DataChangeCallbacks, LastMonitoredItemId,
                  TriggeredDataChangeEvents, Value, expected, delivered>>
  BY DEF CreateSubscription, TriggerEvent, PublishLoad, WriteReturns, PublishStore, itemVars,
       queueVars, resultVars, spaceVars
<1>2. CASE task' = task
  BY <1>1, <1>2 DEF QuietStep, SameWriter
<1>3. ASSUME NEW q \in Sessions, PublishLoad(t, q)
      PROVE  SameWriter
  <2> DEFINE new == [Idle EXCEPT !.op = "publish", !.session = q, !.count = PublishRequestQueues[q]]
  <2>1. new.pending = {} /\ new.op # "write" /\ Idle.pending = {}
    BY DEF Idle
  <2>2. task[t].pending = {} /\ task' = [task EXCEPT ![t] = new]
    BY <1>3, <2>1 DEF PublishLoad, CanStart, Goto
  <2> HIDE DEF new
  <2> QED  BY <2>1, <2>2, SameWriterWhen
<1>4. CASE WriteReturns(t) \/ \E acks \in SUBSET Outstanding : PublishStore(t, acks)
  <2>1. task[t].pending = {} /\ task' = [task EXCEPT ![t] = Idle]
    BY <1>4 DEF WriteReturns, PublishStore, Finish, Goto, OneWriter
  <2>2. Idle.pending = {} /\ Idle.op # "write"
    BY DEF Idle
  <2>3. SameWriter
    BY <2>1, <2>2, SameWriterWhen
  <2> QED  BY <1>1, <2>3 DEF QuietStep
<1> QED  BY <1>1, <1>2, <1>3, <1>4 DEF QuietStep, CreateSubscription, TriggerEvent

LEMMA QuietHandlers ==
  ASSUME TypeInv, OneWriter, NEW t \in Threads,
         \/ \E s \in SubIds : StartHandler(t, s)
         \/ PopPublishRequestMissing(t)
         \/ PopPublishRequestLoad(t)
         \/ PopPublishRequestStore(t)
  PROVE  QuietStep
<1>1. UNCHANGED <<MonitoredDataChanges, DataChangeCallbacks, LastMonitoredItemId,
                  TriggeredDataChangeEvents, Value, expected, delivered>>
  BY DEF StartHandler, PublishResultsStops, PublishResultsNothing, PublishResultsDue,
       PopPublishRequestMissing, PopPublishRequestLoad, PopPublishRequestStore, itemVars,
       queueVars, resultVars, spaceVars
<1>2. task[t] \in Task
  BY DEF TypeInv, TypeOK
<1>3. CASE task' = task
  BY <1>1, <1>3 DEF QuietStep, SameWriter
<1>4. ASSUME NEW s \in SubIds, PublishResultsDue(t, s)
      PROVE  SameWriter
  <2> DEFINE new == [Idle EXCEPT !.op = "poprequest", !.sub = s, !.session = CurrentSession[s]]
  <2>1. new.pending = {} /\ new.op # "write" /\ Idle.pending = {}
    BY DEF Idle
  <2>2. task[t].pending = {} /\ task' = [task EXCEPT ![t] = new]
    BY <1>4, <2>1 DEF PublishResultsDue, CanStart, Goto
  <2> HIDE DEF new
  <2> QED  BY <2>1, <2>2, SameWriterWhen
<1>5. CASE PopPublishRequestMissing(t)
  <2>1. task[t].pending = {} /\ task' = [task EXCEPT ![t] = Idle]
    BY <1>5 DEF PopPublishRequestMissing, Finish, Goto, OneWriter
  <2>2. Idle.pending = {} /\ Idle.op # "write"
    BY DEF Idle
  <2> QED  BY <1>1, <2>1, <2>2, SameWriterWhen DEF QuietStep
<1>6. CASE PopPublishRequestLoad(t)
  <2> DEFINE new == [task[t] EXCEPT !.op = "popstore", !.count = PublishRequestQueues[task[t].session]]
  <2>1. task[t].pending = {} /\ task' = [task EXCEPT ![t] = new]
    BY <1>6 DEF PopPublishRequestLoad, Goto, OneWriter
  <2>2. new.pending = {} /\ new.op # "write"
    BY <1>2, <2>1 DEF Task
  <2> HIDE DEF new
  <2> QED  BY <1>1, <2>1, <2>2, SameWriterWhen DEF QuietStep
<1>7. CASE PopPublishRequestStore(t)
  <2> DEFINE new == [task[t] EXCEPT !.op = "popresult", !.count = 0]
  <2>1. task[t].pending = {} /\ task' = [task EXCEPT ![t] = new]
    BY <1>7 DEF PopPublishRequestStore, Goto, OneWriter
  <2>2. new.pending = {} /\ new.op # "write"
    BY <1>2, <2>1 DEF Task
  <2> HIDE DEF new
  <2> QED  BY <1>1, <2>1, <2>2, SameWriterWhen DEF QuietStep
<1> QED  BY <1>1, <1>3, <1>4, <1>5, <1>6, <1>7 DEF QuietStep, StartHandler, PublishResultsStops,
       PublishResultsNothing

\* The steps that matter here.
LEMMA DeliverySteps ==
  ASSUME TypeInv, OneWriter, [Next]_vars
  PROVE  \/ QuietStep
         \/ \E t \in Threads, s \in SubIds, n \in Nodes :
              CreateMonitoredDataChange(t, s, n) \/ CreateMonitoredEvent(t, s, n)
         \/ \E t \in Threads, s \in SubIds : CreateMonitoredItemThrows(t, s)
         \/ \E t \in Threads, s \in SubIds, i \in ItemIds : DeleteMonitoredItems(t, s, i)
         \/ \E t \in Threads, s \in SubIds : DeleteSubscriptions(t, s)
         \/ \E t \in Threads, n \in Nodes : Write(t, n)
         \/ \E t \in Threads : \E c \in task[t].pending : DataChangeCallback(t, c)
         \/ \E t \in Threads : PopPublishResult(t)
<1>1. CASE UNCHANGED vars \/ \E s \in SubIds : TimerExpires(s)
  BY <1>1 DEF vars, TimerExpires, itemVars, queueVars, resultVars, spaceVars, QuietStep, SameWriter
<1> QED  BY <1>1, Steps, QuietCalls, QuietHandlers DEF ServiceCall, ContinueCall, ContinueHandler

\* The steps that call back, delete or deliver leave a writer its callbacks.
LEMMA OneWriterStays ==
  ASSUME TypeInv, TableInv, TableInv', OneWriter,
         DataChangeCallbacks' \subseteq DataChangeCallbacks,
         \A s \in SubIds, i \in ItemIds :
            MonitoredDataChanges'[s][i] > 0 => MonitoredDataChanges[s][i] > 0,
         \A u \in Threads : /\ task'[u].pending \subseteq task[u].pending
                            /\ task'[u].op = "write" => task[u].op = "write"
                            /\ task'[u].pending # {} => task'[u].op = task[u].op
  PROVE  OneWriter'
<1>1. \A u \in Threads : task'[u].pending # {} => task'[u].op = "write"
  BY DEF OneWriter
<1>2. \A u, v \in Threads : task'[u].op = "write" /\ task'[v].op = "write" => u = v
  BY DEF OneWriter
<1>3. ASSUME NEW u \in Threads, NEW c \in task'[u].pending,
             MonitoredDataChanges'[c.sub][c.item] > 0
      PROVE  c \in DataChangeCallbacks'
  <2>1. c \in task[u].pending /\ c.sub \in SubIds /\ c.item \in ItemIds
    <3>1. c \in task[u].pending /\ task[u] \in Task
      BY DEF TypeInv, TypeOK
    <3> QED  BY <3>1 DEF Task, Callback
  <2>2. c \in DataChangeCallbacks
    BY <1>3, <2>1 DEF OneWriter
  <2>3. PICK d \in DataChangeCallbacks' : d.sub = c.sub /\ d.item = c.item
    BY <1>3, <2>1 DEF TableInv, CallbacksMatchItems
  <2>4. c.handle = d.handle
    BY <2>2, <2>3 DEF TableInv, CallbacksMatchItems
  <2>5. c = d
    BY <2>2, <2>3, <2>4 DEF TableInv, CallbacksMatchItems
  <2> QED  BY <2>3, <2>5
<1> QED  BY <1>1, <1>2, <1>3 DEF OneWriter

\* Nobody calls back while the address space's mutex is free.
LEMMA NobodyCallsBack ==
  ASSUME OneWriter, SpaceFree
  PROVE  \A u \in Threads : task[u].pending = {}
  BY DEF OneWriter, SpaceFree

\* What deleting items does to the others.
LEMMA DeletedItems ==
  ASSUME TypeInv, NEW s \in SubIds, NEW ids, DeleteMonitoredItemsIds(s, ids)
  PROVE  /\ DataChangeCallbacks' \subseteq DataChangeCallbacks
         /\ \A r \in SubIds, i \in ItemIds : MonitoredDataChanges'[r][i] > 0 =>
              /\ MonitoredDataChanges[r][i] > 0
              /\ ValuesOf(TriggeredDataChangeEvents'[r], i) =
                   ValuesOf(TriggeredDataChangeEvents[r], i)
<1> DEFINE eventItems == ids \cap EventIds(s)
           dataItems == (ids \ eventItems) \cap Present(s)
<1>1. /\ MonitoredDataChanges' = [MonitoredDataChanges EXCEPT ![s] =
           [i \in ItemIds |-> IF i \in dataItems THEN NoItem ELSE @[i]]]
      /\ DataChangeCallbacks' \subseteq DataChangeCallbacks
  BY DEF DeleteMonitoredItemsIds, CallbacksWithout
<1>2. PICK left \in PurgedChanges(TriggeredDataChangeEvents[s], dataItems) :
        TriggeredDataChangeEvents' = [TriggeredDataChangeEvents EXCEPT ![s] = left]
  BY DEF DeleteMonitoredItemsIds
<1> HIDE DEF eventItems, dataItems
<1>3. /\ MonitoredDataChanges \in [SubIds -> [ItemIds -> Nat \cup {NoItem}]]
      /\ TriggeredDataChangeEvents \in [SubIds -> Seq(Change)]
  BY DEF TypeInv, TypeOK, ItemTypes, QueueTypes
<1>4. ASSUME NEW r \in SubIds, NEW i \in ItemIds, MonitoredDataChanges'[r][i] > 0
      PROVE  /\ MonitoredDataChanges[r][i] > 0
             /\ ValuesOf(TriggeredDataChangeEvents'[r], i) =
                  ValuesOf(TriggeredDataChangeEvents[r], i)
  <2>1. MonitoredDataChanges[r][i] > 0 /\ ~(r = s /\ i \in dataItems)
    BY <1>1, <1>3, <1>4 DEF NoItem
  <2>2. CASE r = s
    <3>1. TriggeredDataChangeEvents'[r] = left /\ TriggeredDataChangeEvents[s] \in Seq(Change)
      BY <1>2, <1>3, <2>2
    <3>2. i \notin dataItems
      BY <2>1, <2>2
    <3> QED  BY <2>1, <2>2, <3>1, <3>2, ValuesOfPurged
  <2>3. CASE r # s
    <3>1. TriggeredDataChangeEvents'[r] = TriggeredDataChangeEvents[r]
      BY <1>2, <1>3, <2>3
    <3> QED  BY <2>1, <3>1
  <2> QED  BY <2>2, <2>3
<1> QED  BY <1>1, <1>4

\* The steps after which an existing item existed before with the same changes, and
\* which touch neither values nor callbacks in progress nor histories.
ItemsOnlyLeave ==
  /\ UNCHANGED <<Value, expected, delivered>>
  /\ DataChangeCallbacks' \subseteq DataChangeCallbacks
  /\ \A s \in SubIds : LastMonitoredItemId'[s] >= LastMonitoredItemId[s]
  /\ \A s \in SubIds, i \in ItemIds : MonitoredDataChanges'[s][i] > 0 =>
       /\ MonitoredDataChanges[s][i] > 0
       /\ ValuesOf(TriggeredDataChangeEvents'[s], i) = ValuesOf(TriggeredDataChangeEvents[s], i)
  /\ SameWriter

LEMMA LastIdsAreNumbers ==
  ASSUME TypeInv
  PROVE  /\ LastMonitoredItemId \in [SubIds -> 100 .. (100 + MaxItems)]
         /\ MaxItems \in Nat
         /\ \A s \in SubIds : LastMonitoredItemId[s] \in Nat
  BY ConstantsAssumption DEF TypeInv, TypeOK, ItemTypes

LEMMA ItemsOnlyLeaveWhen ==
  ASSUME TypeInv,
         \/ QuietStep
         \/ \E t \in Threads, s \in SubIds, n \in Nodes : CreateMonitoredEvent(t, s, n)
         \/ \E t \in Threads, s \in SubIds : CreateMonitoredItemThrows(t, s)
         \/ \E t \in Threads, s \in SubIds, i \in ItemIds : DeleteMonitoredItems(t, s, i)
         \/ \E t \in Threads, s \in SubIds : DeleteSubscriptions(t, s)
  PROVE  ItemsOnlyLeave
<1>1. ASSUME task' = task PROVE SameWriter
  BY <1>1 DEF SameWriter
<1>2. CASE QuietStep
  BY <1>2, LastIdsAreNumbers DEF QuietStep, ItemsOnlyLeave
<1>3. ASSUME NEW t \in Threads, NEW s \in SubIds, NEW n \in Nodes, CreateMonitoredEvent(t, s, n)
      PROVE  ItemsOnlyLeave
  <2> DEFINE id == LastMonitoredItemId[s] + 1
  <2>1. /\ LastMonitoredItemId' = [LastMonitoredItemId EXCEPT ![s] = id]
        /\ MonitoredDataChanges' = [MonitoredDataChanges EXCEPT ![s][id] = 0]
        /\ UNCHANGED <<Value, expected, delivered, DataChangeCallbacks,
                       TriggeredDataChangeEvents, task>>
    BY <1>3 DEF CreateMonitoredEvent, resultVars, queueVars, spaceVars
  <2>2. \A r \in SubIds : LastMonitoredItemId'[r] >= LastMonitoredItemId[r]
    BY <2>1, LastIdsAreNumbers
  <2>3. \A r \in SubIds, i \in ItemIds :
          MonitoredDataChanges'[r][i] > 0 => MonitoredDataChanges[r][i] > 0
    BY <2>1 DEF TypeInv, TypeOK, ItemTypes
  <2> QED  BY <1>1, <2>1, <2>2, <2>3 DEF ItemsOnlyLeave
<1>4. ASSUME NEW t \in Threads, NEW s \in SubIds, CreateMonitoredItemThrows(t, s)
      PROVE  ItemsOnlyLeave
  <2>1. /\ LastMonitoredItemId' = [LastMonitoredItemId EXCEPT ![s] = @ + 1]
        /\ UNCHANGED <<Value, expected, delivered, DataChangeCallbacks, MonitoredDataChanges,
                       TriggeredDataChangeEvents, task>>
    BY <1>4 DEF CreateMonitoredItemThrows, resultVars, queueVars, spaceVars
  <2>2. \A r \in SubIds : LastMonitoredItemId'[r] >= LastMonitoredItemId[r]
    BY <2>1, LastIdsAreNumbers
  <2> QED  BY <1>1, <2>1, <2>2 DEF ItemsOnlyLeave
<1>5. ASSUME NEW t \in Threads, NEW s \in SubIds,
             \/ \E i \in ItemIds : DeleteMonitoredItems(t, s, i)
             \/ DeleteSubscriptions(t, s)
      PROVE  ItemsOnlyLeave
  <2>1. /\ \E ids : DeleteMonitoredItemsIds(s, ids)
        /\ UNCHANGED <<Value, expected, delivered, LastMonitoredItemId, task>>
    BY <1>5 DEF DeleteMonitoredItems, DeleteSubscriptions, resultVars
  <2> QED  BY <1>1, <2>1, DeletedItems, LastIdsAreNumbers DEF ItemsOnlyLeave
<1> QED  BY <1>2, <1>3, <1>4, <1>5

LEMMA OneWriterNext ==
  ASSUME TypeInv, TableInv, TableInv', OneWriter, [Next]_vars
  PROVE  OneWriter'
<1>1. CASE ItemsOnlyLeave
  <2>1. \A u \in Threads : /\ task'[u].pending \subseteq task[u].pending
                           /\ task'[u].op = "write" => task[u].op = "write"
                           /\ task'[u].pending # {} => task'[u].op = task[u].op
    BY <1>1 DEF ItemsOnlyLeave, SameWriter
  <2> QED  BY <1>1, <2>1, OneWriterStays DEF ItemsOnlyLeave
<1>2. ASSUME NEW t \in Threads, NEW s \in SubIds, NEW n \in Nodes,
             CreateMonitoredDataChange(t, s, n)
      PROVE  OneWriter'
  <2>1. SpaceFree /\ task' = task
    BY <1>2 DEF CreateMonitoredDataChange
  <2> QED  BY <2>1, NobodyCallsBack DEF OneWriter, SpaceFree
<1>3. ASSUME NEW t \in Threads, NEW n \in Nodes, Write(t, n)
      PROVE  OneWriter'
  <2> DEFINE new == [Idle EXCEPT !.op = "write",
                                 !.pending = {c \in DataChangeCallbacks : c.node = n}]
  <2>1. SpaceFree /\ task' = [task EXCEPT ![t] = new] /\ UNCHANGED DataChangeCallbacks
    BY <1>3 DEF Write, Goto
  <2>2. new.op = "write" /\ new.pending \subseteq DataChangeCallbacks
    BY DEF Idle
  <2> HIDE DEF new
  <2>3. \A u \in Threads : task'[u] = IF u = t THEN new ELSE task[u]
    BY <2>1 DEF TypeInv, TypeOK
  <2>4. \A u \in Threads : task[u].pending = {} /\ task[u].op # "write"
    BY <2>1, NobodyCallsBack DEF SpaceFree
  <2> QED  BY <2>1, <2>2, <2>3, <2>4 DEF OneWriter
<1>4. ASSUME NEW t \in Threads, NEW c \in task[t].pending, DataChangeCallback(t, c)
      PROVE  OneWriter'
  <2>1. /\ task' = [task EXCEPT ![t] = [task[t] EXCEPT !.pending = @ \ {c}]]
        /\ UNCHANGED <<DataChangeCallbacks, MonitoredDataChanges>>
    BY <1>4 DEF DataChangeCallback, Goto, itemVars, spaceVars
  <2>2. \A u \in Threads : task'[u].pending \subseteq task[u].pending /\ task'[u].op = task[u].op
    BY <2>1 DEF TypeInv, TypeOK, Task
  <2> QED  BY <2>1, <2>2, OneWriterStays
<1>5. ASSUME NEW t \in Threads, PopPublishResult(t)
      PROVE  OneWriter'
  <2>1. /\ task' = [task EXCEPT ![t] = Idle]
        /\ UNCHANGED <<DataChangeCallbacks, MonitoredDataChanges>>
    BY <1>5 DEF PopPublishResult, Finish, Goto, itemVars, spaceVars
  <2>2. Idle.pending = {} /\ Idle.op # "write"
    BY DEF Idle
  <2>3. \A u \in Threads : task'[u] = IF u = t THEN Idle ELSE task[u]
    BY <2>1 DEF TypeInv, TypeOK
  <2>4. \A u \in Threads : /\ task'[u].pending \subseteq task[u].pending
                           /\ task'[u].op = "write" => task[u].op = "write"
                           /\ task'[u].pending # {} => task'[u].op = task[u].op
    BY <2>2, <2>3
  <2> QED  BY <2>1, <2>4, OneWriterStays
<1> QED  BY <1>1, <1>2, <1>3, <1>4, <1>5, DeliverySteps, ItemsOnlyLeaveWhen

\* The histories: their types, the items that have none, and the property itself.
Reported(s, i) ==
  expected[s][i] =
    delivered[s][i] \o ValuesOf(TriggeredDataChangeEvents[s], i) \o InFlight(s, i)

DeliveryInv == HistoryTypes /\ FreshDelivered /\ OneWriter /\ NoChangeLost

LEMMA InitDelivery == Init => DeliveryInv
<1> SUFFICES ASSUME Init PROVE DeliveryInv
  OBVIOUS
<1>1. HistoryTypes /\ FreshDelivered
  <2>1. <<>> \in Seq(Nat)
    OBVIOUS
  <2> QED  BY <2>1 DEF Init, HistoryTypes, FreshDelivered
<1>2. OneWriter
  <2>1. Idle.pending = {} /\ Idle.op # "write"
    BY DEF Idle
  <2>2. \A t \in Threads : task[t] = Idle
    BY DEF Init
  <2> QED  BY <2>1, <2>2 DEF OneWriter
<1>3. NoChangeLost
  BY DEF Init, NoChangeLost, NoItem
<1> QED  BY <1>1, <1>2, <1>3 DEF DeliveryInv

\* The values an existing item has in flight are those of its callback in progress.
LEMMA FlightType ==
  ASSUME TypeInv, FlightKnown, NEW s \in SubIds, NEW i \in ItemIds, MonitoredDataChanges[s][i] > 0
  PROVE  InFlight(s, i) \in Seq(Nat)
<1>1. CASE \A t \in Threads : \A c \in task[t].pending : ~(c.sub = s /\ c.item = i)
  <2>1. InFlight(s, i) = <<>>
    BY <1>1 DEF FlightKnown
  <2> QED  BY <2>1
<1>2. ASSUME NEW t \in Threads, NEW c \in task[t].pending, c.sub = s, c.item = i
      PROVE  InFlight(s, i) \in Seq(Nat)
  <2>1. InFlight(s, i) = <<Value[c.node]>>
    BY <1>2 DEF FlightKnown
  <2>2. task[t] \in Task /\ Value \in [Nodes -> Nat]
    BY DEF TypeInv, TypeOK, SpaceTypes
  <2>3. c.node \in Nodes
    BY <2>2 DEF Task, Callback
  <2>4. Value[c.node] \in Nat
    BY <2>2, <2>3
  <2> QED  BY <2>1, <2>4
<1> QED  BY <1>1, <1>2

LEMMA FlightStays ==
  ASSUME FlightKnown, FlightKnown', NEW s \in SubIds, NEW i \in ItemIds,
         MonitoredDataChanges[s][i] > 0, MonitoredDataChanges'[s][i] > 0,
         UNCHANGED Value,
         \A u \in Threads : \A c \in task[u].pending :
            c.sub = s /\ c.item = i => c \in task'[u].pending,
         \A u \in Threads : task'[u].pending \subseteq task[u].pending
  PROVE  InFlight(s, i)' = InFlight(s, i)
<1>1. CASE \A t \in Threads : \A c \in task[t].pending : ~(c.sub = s /\ c.item = i)
  <2>1. \A t \in Threads : \A c \in task'[t].pending : ~(c.sub = s /\ c.item = i)
    BY <1>1
  <2>2. InFlight(s, i) = <<>>
    BY <1>1 DEF FlightKnown
  <2>3. InFlight(s, i)' = <<>>
    BY <2>1 DEF FlightKnown
  <2> QED  BY <2>2, <2>3
<1>2. ASSUME NEW t \in Threads, NEW c \in task[t].pending, c.sub = s, c.item = i
      PROVE  InFlight(s, i)' = InFlight(s, i)
  <2>1. c \in task'[t].pending
    BY <1>2
  <2>2. InFlight(s, i) = <<Value[c.node]>>
    BY <1>2 DEF FlightKnown
  <2>3. InFlight(s, i)' = <<Value'[c.node]>>
    BY <1>2, <2>1 DEF FlightKnown
  <2> QED  BY <2>2, <2>3
<1> QED  BY <1>1, <1>2

\* The sequences that make up a history.
LEMMA HistoryParts ==
  ASSUME TypeInv, HistoryTypes, FlightKnown, NEW s \in SubIds, NEW i \in ItemIds,
         MonitoredDataChanges[s][i] > 0
  PROVE  /\ expected[s][i] \in Seq(Nat) /\ delivered[s][i] \in Seq(Nat)
         /\ ValuesOf(TriggeredDataChangeEvents[s], i) \in Seq(Nat)
         /\ delivered[s][i] \o ValuesOf(TriggeredDataChangeEvents[s], i) \in Seq(Nat)
         /\ InFlight(s, i) \in Seq(Nat)
<1>1. expected[s][i] \in Seq(Nat) /\ delivered[s][i] \in Seq(Nat)
  BY DEF HistoryTypes
<1>2. TriggeredDataChangeEvents[s] \in Seq(Change)
  BY DEF TypeInv, TypeOK, QueueTypes
<1>3. ValuesOf(TriggeredDataChangeEvents[s], i) \in Seq(Nat)
  BY <1>2, ValuesOfType
<1> QED  BY <1>1, <1>3, FlightType, ConcatProperties

LEMMA ItemsOnlyLeaveDelivery ==
  ASSUME TypeInv, FlightKnown, FlightKnown', HistoryTypes, FreshDelivered, NoChangeLost,
         ItemsOnlyLeave, TypeInv'
  PROVE  HistoryTypes' /\ FreshDelivered' /\ NoChangeLost'
<1>1. HistoryTypes'
  BY DEF HistoryTypes, ItemsOnlyLeave
<1>2. FreshDelivered'
  <2> SUFFICES ASSUME NEW s \in SubIds, NEW i \in ItemIds, i > LastMonitoredItemId'[s]
               PROVE  delivered'[s][i] = <<>>
    BY DEF FreshDelivered
  <2>1. /\ LastMonitoredItemId[s] \in Nat /\ LastMonitoredItemId'[s] \in Nat
        /\ LastMonitoredItemId'[s] >= LastMonitoredItemId[s] /\ i \in Nat
    BY ConstantsAssumption DEF TypeInv, TypeOK, ItemTypes, ItemsOnlyLeave, ItemIds
  <2>2. i > LastMonitoredItemId[s]
    BY <2>1
  <2> QED  BY <2>2 DEF FreshDelivered, ItemsOnlyLeave
<1>3. NoChangeLost'
  <2> SUFFICES ASSUME NEW s \in SubIds, NEW i \in ItemIds, MonitoredDataChanges'[s][i] > 0
               PROVE  Reported(s, i)'
    BY DEF NoChangeLost, Reported
  <2>1. /\ MonitoredDataChanges[s][i] > 0
        /\ ValuesOf(TriggeredDataChangeEvents'[s], i) = ValuesOf(TriggeredDataChangeEvents[s], i)
        /\ UNCHANGED <<Value, expected, delivered>>
    BY DEF ItemsOnlyLeave
  <2>2. \A u \in Threads : task'[u].pending = task[u].pending
    BY DEF ItemsOnlyLeave, SameWriter
  <2>3. InFlight(s, i)' = InFlight(s, i)
    BY <2>1, <2>2, FlightStays
  <2>4. Reported(s, i)
    BY <2>1 DEF NoChangeLost, Reported
  <2> QED  BY <2>1, <2>3, <2>4 DEF Reported
<1> QED  BY <1>1, <1>2, <1>3

\* A new item: its first value is queued, and nothing is under way for it.
LEMMA CreateDataChangeDelivery ==
  ASSUME TypeInv, TypeInv', TableInv, OneWriter, FlightKnown, FlightKnown', HistoryTypes,
         FreshDelivered, NoChangeLost,
         NEW t \in Threads, NEW s \in SubIds, NEW n \in Nodes, CreateMonitoredDataChange(t, s, n)
  PROVE  HistoryTypes' /\ FreshDelivered' /\ NoChangeLost'
<1> DEFINE id == LastMonitoredItemId[s] + 1
           e == [item |-> id, value |-> Value[n]]
<1>1. /\ LastMonitoredItemId' = [LastMonitoredItemId EXCEPT ![s] = id]
      /\ MonitoredDataChanges' = [MonitoredDataChanges EXCEPT
           ![s][id] = DataChangeCallbackHandle + 1]
      /\ TriggeredDataChangeEvents' = [TriggeredDataChangeEvents EXCEPT ![s] = Append(@, e)]
      /\ expected' = [expected EXCEPT ![s][id] = <<Value[n]>>]
      /\ UNCHANGED <<Value, delivered, task>>
      /\ SpaceFree /\ id \in ItemIds
  BY DEF CreateMonitoredDataChange, resultVars
<1>2. /\ MonitoredDataChanges \in [SubIds -> [ItemIds -> Nat \cup {NoItem}]]
      /\ TriggeredDataChangeEvents \in [SubIds -> Seq(Change)]
      /\ Value[n] \in Nat /\ LastMonitoredItemId[s] \in Nat
      /\ expected \in [SubIds -> [ItemIds -> Seq(Nat)]]
  BY LastIdsAreNumbers DEF TypeInv, TypeOK, ItemTypes, QueueTypes, SpaceTypes, HistoryTypes
<1>3. e \in Change /\ e.item = id /\ e.value = Value[n]
  BY <1>1, <1>2 DEF Change
<1>4. \A u \in Threads : task[u].pending = {} /\ task'[u].pending = {}
  BY <1>1, NobodyCallsBack
<1>5. delivered[s][id] = <<>> /\ MonitoredDataChanges[s][id] = NoItem
  BY <1>1, <1>2 DEF FreshDelivered, TableInv, FreshItems
<1> HIDE DEF e, id
<1>6. HistoryTypes'
  <2>1. <<Value[n]>> \in Seq(Nat)
    BY <1>2
  <2>2. expected' \in [SubIds -> [ItemIds -> Seq(Nat)]]
    BY <1>1, <1>2, <2>1
  <2> QED  BY <1>1, <2>2 DEF HistoryTypes
<1>7. FreshDelivered'
  <2> SUFFICES ASSUME NEW r \in SubIds, NEW i \in ItemIds, i > LastMonitoredItemId'[r]
               PROVE  delivered'[r][i] = <<>>
    BY DEF FreshDelivered
  <2>1. LastMonitoredItemId[r] \in Nat /\ i \in Nat /\ LastMonitoredItemId'[r] >= LastMonitoredItemId[r]
    BY <1>1, LastIdsAreNumbers, ConstantsAssumption DEF id, ItemIds
  <2>2. LastMonitoredItemId'[r] \in Nat
    BY DEF TypeInv, TypeOK, ItemTypes
  <2>3. i > LastMonitoredItemId[r]
    BY <2>1, <2>2
  <2> QED  BY <1>1, <2>3 DEF FreshDelivered
<1>8. ASSUME NEW r \in SubIds, NEW i \in ItemIds, MonitoredDataChanges'[r][i] > 0
      PROVE  Reported(r, i)'
  <2>1. InFlight(r, i)' = <<>>
    BY <1>4, <1>8 DEF FlightKnown
  <2>2. CASE r = s /\ i = id
    <3>1. \A k \in 1 .. Len(TriggeredDataChangeEvents[s]) :
            TriggeredDataChangeEvents[s][k].item # id
      BY <1>5 DEF TableInv, ChangesBelongToItems, NoItem
    <3>2. ValuesOf(TriggeredDataChangeEvents[s], id) = <<>>
      BY <1>2, <3>1, ValuesOfNone
    <3>3. TriggeredDataChangeEvents'[s] = Append(TriggeredDataChangeEvents[s], e)
      BY <1>1, <1>2
    <3>4. ValuesOf(TriggeredDataChangeEvents'[s], id) = Append(<<>>, Value[n])
      BY <1>2, <1>3, <3>2, <3>3, ValuesOfAppend
    <3>5. Append(<<>>, Value[n]) = <<Value[n]>> /\ <<Value[n]>> \in Seq(Nat)
      BY <1>2
    <3>6. <<>> \o <<Value[n]>> = <<Value[n]>> /\ <<Value[n]>> \o <<>> = <<Value[n]>>
      BY <3>5, ConcatEmptySeq
    <3>7. expected'[s][id] = <<Value[n]>> /\ delivered'[s][id] = <<>>
      BY <1>1, <1>2, <1>5
    <3> QED  BY <2>1, <2>2, <3>4, <3>5, <3>6, <3>7 DEF Reported
  <2>3. CASE ~(r = s /\ i = id)
    <3>1. MonitoredDataChanges[r][i] > 0 /\ expected'[r][i] = expected[r][i]
      BY <1>1, <1>2, <1>8, <2>3
    <3>2. InFlight(r, i) = <<>>
      BY <1>4, <3>1 DEF FlightKnown
    <3>3. ValuesOf(TriggeredDataChangeEvents'[r], i) = ValuesOf(TriggeredDataChangeEvents[r], i)
      <4>1. CASE r = s
        <5>1. TriggeredDataChangeEvents'[r] = Append(TriggeredDataChangeEvents[r], e)
          BY <1>1, <1>2, <4>1
        <5> QED  BY <1>2, <1>3, <2>3, <4>1, <5>1, ValuesOfAppend
      <4>2. CASE r # s
        <5>1. TriggeredDataChangeEvents'[r] = TriggeredDataChangeEvents[r]
          BY <1>1, <1>2, <4>2
        <5> QED  BY <5>1
      <4> QED  BY <4>1, <4>2
    <3>4. Reported(r, i)
      BY <3>1 DEF NoChangeLost, Reported
    <3> QED  BY <1>1, <2>1, <3>1, <3>2, <3>3, <3>4 DEF Reported
  <2> QED  BY <2>2, <2>3
<1> QED  BY <1>6, <1>7, <1>8 DEF NoChangeLost, Reported

\* A write: the value is expected from exactly the items it will call back.
LEMMA WriteDelivery ==
  ASSUME TypeInv, TableInv, OneWriter, FlightKnown, FlightKnown', HistoryTypes,
         FreshDelivered, NoChangeLost,
         NEW t \in Threads, NEW n \in Nodes, Write(t, n)
  PROVE  HistoryTypes' /\ FreshDelivered' /\ NoChangeLost'
<1> DEFINE called == {c \in DataChangeCallbacks : c.node = n}
           new == [Idle EXCEPT !.op = "write", !.pending = called]
<1>1. /\ Value' = [Value EXCEPT ![n] = writes + 1]
      /\ task' = [task EXCEPT ![t] = new]
      /\ expected' = [s \in SubIds |-> [i \in ItemIds |->
           IF \E c \in DataChangeCallbacks : c.node = n /\ c.sub = s /\ c.item = i
           THEN Append(expected[s][i], writes + 1)
           ELSE expected[s][i]]]
      /\ UNCHANGED <<delivered, MonitoredDataChanges, LastMonitoredItemId,
                     TriggeredDataChangeEvents>>
      /\ SpaceFree
  BY DEF Write, Goto, resultVars, itemVars, queueVars
<1>2. new.pending = called
  BY DEF Idle
<1> HIDE DEF new
<1>3. /\ task'[t].pending = called
      /\ \A u \in Threads : u # t => task'[u].pending = {}
      /\ \A u \in Threads : task[u].pending = {}
  <2>1. \A u \in Threads : task'[u] = IF u = t THEN new ELSE task[u]
    BY <1>1 DEF TypeInv, TypeOK
  <2> QED  BY <1>1, <1>2, <2>1, NobodyCallsBack
<1>4. writes + 1 \in Nat /\ Value'[n] = writes + 1
  BY <1>1 DEF TypeInv, TypeOK, CountTypes, SpaceTypes
<1>5. HistoryTypes'
  <2>1. ASSUME NEW s \in SubIds, NEW i \in ItemIds
        PROVE  expected[s][i] \in Seq(Nat) /\ Append(expected[s][i], writes + 1) \in Seq(Nat)
    <3>1. expected[s][i] \in Seq(Nat)
      BY DEF HistoryTypes
    <3> QED  BY <1>4, <3>1
  <2>2. expected' \in [SubIds -> [ItemIds -> Seq(Nat)]]
    BY <1>1, <2>1
  <2> QED  BY <1>1, <2>2 DEF HistoryTypes
<1>6. FreshDelivered'
  BY <1>1 DEF FreshDelivered
<1>7. ASSUME NEW s \in SubIds, NEW i \in ItemIds, MonitoredDataChanges'[s][i] > 0
      PROVE  Reported(s, i)'
  <2> DEFINE before == delivered[s][i] \o ValuesOf(TriggeredDataChangeEvents[s], i)
  <2>1. MonitoredDataChanges[s][i] > 0 /\ before \in Seq(Nat)
    BY <1>1, <1>7, HistoryParts
  <2>2. InFlight(s, i) = <<>>
    BY <1>3, <2>1 DEF FlightKnown
  <2>3. expected[s][i] = before
    <3>1. Reported(s, i)
      BY <2>1 DEF NoChangeLost, Reported
    <3>2. before \o <<>> = before
      BY <2>1, ConcatEmptySeq
    <3> QED  BY <2>2, <3>1, <3>2 DEF Reported
  <2>4. delivered'[s][i] \o ValuesOf(TriggeredDataChangeEvents'[s], i) = before
    BY <1>1
  <2> HIDE DEF before
  <2>5. PICK c \in DataChangeCallbacks :
          c.sub = s /\ c.item = i /\ c.handle = MonitoredDataChanges[s][i]
    BY <2>1 DEF TableInv, CallbacksMatchItems
  <2>6. \A d \in DataChangeCallbacks : d.sub = s /\ d.item = i => d = c
    <3>1. \A d \in DataChangeCallbacks : d.sub = s /\ d.item = i => d.handle = c.handle
      BY <2>5 DEF TableInv, CallbacksMatchItems
    <3> QED  BY <2>5, <3>1 DEF TableInv, CallbacksMatchItems
  <2>7. CASE c.node = n
    <3>1. c \in task'[t].pending
      BY <1>3, <2>5, <2>7
    <3>2. InFlight(s, i)' = <<writes + 1>>
      <4>1. InFlight(s, i)' = <<Value'[c.node]>>
        BY <1>7, <2>5, <3>1 DEF FlightKnown
      <4> QED  BY <1>4, <2>7, <4>1
    <3>3. expected'[s][i] = Append(expected[s][i], writes + 1)
      BY <1>1, <2>5, <2>7
    <3>4. Append(before, writes + 1) = before \o <<writes + 1>>
      BY <1>4, <2>1, AppendIsConcat
    <3> QED  BY <2>3, <2>4, <3>2, <3>3, <3>4 DEF Reported
  <2>8. CASE c.node # n
    <3>1. expected'[s][i] = expected[s][i]
      BY <1>1, <2>6, <2>8
    <3>2. \A u \in Threads : \A d \in task'[u].pending : ~(d.sub = s /\ d.item = i)
      BY <1>3, <2>6, <2>8
    <3>3. InFlight(s, i)' = <<>>
      BY <1>7, <3>2 DEF FlightKnown
    <3>4. before \o <<>> = before
      BY <2>1, ConcatEmptySeq
    <3> QED  BY <2>3, <2>4, <3>1, <3>3, <3>4 DEF Reported
  <2> QED  BY <2>7, <2>8
<1> QED  BY <1>5, <1>6, <1>7 DEF NoChangeLost, Reported

LEMMA ConcatNumbers ==
  ASSUME NEW x \in Seq(Nat), NEW y \in Seq(Nat), NEW z \in Seq(Nat)
  PROVE  (x \o y) \o z = x \o (y \o z)
  BY ConcatAssociative, SMTT(60)

\* A callback: the value moves from the write to the end of the item's queue.
LEMMA CallbackDelivery ==
  ASSUME TypeInv, TableInv, OneWriter, FlightKnown, FlightKnown', HistoryTypes,
         FreshDelivered, NoChangeLost,
         NEW t \in Threads, NEW c \in task[t].pending, DataChangeCallback(t, c)
  PROVE  HistoryTypes' /\ FreshDelivered' /\ NoChangeLost'
<1> DEFINE e == [item |-> c.item, value |-> Value[c.node]]
<1>1. /\ TriggeredDataChangeEvents' = IF MonitoredDataChanges[c.sub][c.item] # NoItem
           THEN [TriggeredDataChangeEvents EXCEPT ![c.sub] = Append(@, e)]
           ELSE TriggeredDataChangeEvents
      /\ task' = [task EXCEPT ![t] = [task[t] EXCEPT !.pending = @ \ {c}]]
      /\ UNCHANGED <<Value, delivered, expected, MonitoredDataChanges, LastMonitoredItemId>>
  BY DEF DataChangeCallback, Goto, resultVars, itemVars, spaceVars
<1>2. /\ c.sub \in SubIds /\ c.item \in ItemIds
      /\ e \in Change /\ e.item = c.item /\ e.value = Value[c.node] /\ Value[c.node] \in Nat
      /\ TriggeredDataChangeEvents \in [SubIds -> Seq(Change)]
  <2>1. task[t] \in Task /\ Value \in [Nodes -> Nat]
    BY DEF TypeInv, TypeOK, SpaceTypes
  <2>2. c.sub \in SubIds /\ c.item \in ItemIds /\ c.node \in Nodes
    BY <2>1 DEF Task, Callback
  <2>3. TriggeredDataChangeEvents \in [SubIds -> Seq(Change)]
    BY DEF TypeInv, TypeOK, QueueTypes
  <2>4. Value[c.node] \in Nat
    BY <2>1, <2>2
  <2> QED  BY <2>2, <2>3, <2>4 DEF Change
<1> HIDE DEF e
<1>3. \A u \in Threads : task'[u].pending = IF u = t THEN task[u].pending \ {c} ELSE task[u].pending
  BY <1>1 DEF TypeInv, TypeOK, Task
<1>4. HistoryTypes' /\ FreshDelivered'
  BY <1>1 DEF HistoryTypes, FreshDelivered
<1>5. ASSUME NEW s \in SubIds, NEW i \in ItemIds, MonitoredDataChanges'[s][i] > 0
      PROVE  Reported(s, i)'
  <2> DEFINE queued == ValuesOf(TriggeredDataChangeEvents[s], i)
             old == delivered[s][i]
  <2>1. MonitoredDataChanges[s][i] > 0 /\ old \in Seq(Nat) /\ queued \in Seq(Nat)
    BY <1>1, <1>5, HistoryParts
  <2>2. expected'[s][i] = old \o queued \o InFlight(s, i) /\ delivered'[s][i] = old
    BY <1>1, <2>1 DEF NoChangeLost
  <2>3. CASE c.sub = s /\ c.item = i
    <3>1. InFlight(s, i) = <<Value[c.node]>>
      BY <2>1, <2>3 DEF FlightKnown
    <3>2. TriggeredDataChangeEvents'[s] = Append(TriggeredDataChangeEvents[s], e)
      BY <1>1, <1>2, <2>1, <2>3 DEF NoItem
    <3>3. ValuesOf(TriggeredDataChangeEvents'[s], i) = Append(queued, Value[c.node])
      BY <1>2, <2>3, <3>2, ValuesOfAppend
    <3> HIDE DEF queued, old
    <3>4. InFlight(s, i)' = <<>>
      <4>1. ASSUME NEW u \in Threads, NEW d \in task'[u].pending, d.sub = s, d.item = i
            PROVE  FALSE
        <5>1. d \in task[u].pending /\ (u = t => d # c)
          BY <1>3, <4>1
        <5>2. u = t
          BY <5>1 DEF OneWriter
        <5>3. c \in DataChangeCallbacks /\ d \in DataChangeCallbacks
          BY <2>1, <2>3, <4>1, <5>1 DEF OneWriter
        <5>4. c.handle = d.handle
          BY <2>3, <4>1, <5>3 DEF TableInv, CallbacksMatchItems
        <5>5. c = d
          BY <5>3, <5>4 DEF TableInv, CallbacksMatchItems
        <5> QED  BY <5>1, <5>2, <5>5
      <4> QED  BY <1>5, <4>1 DEF FlightKnown
    <3> DEFINE v == Value[c.node]
    <3>5. v \in Nat /\ <<v>> \in Seq(Nat)
      BY <1>2
    <3> HIDE DEF v
    <3>6. Append(queued, v) = queued \o <<v>> /\ Append(queued, v) \in Seq(Nat)
      <4>1. queued \in Seq(Nat) /\ v \in Nat
        BY <2>1, <3>5
      <4>2. Append(queued, v) = queued \o <<v>>
        BY <4>1, AppendIsConcat
      <4> QED  BY <4>1, <4>2
    <3>7. (old \o queued) \o <<v>> = old \o (queued \o <<v>>)
      <4> DEFINE w == <<v>>
      <4>2. w \in Seq(Nat)
        BY <3>5
      <4> HIDE DEF w
      <4>3. (old \o queued) \o w = old \o (queued \o w)
        BY <2>1, <4>2, ConcatNumbers
      <4> QED  BY <4>3 DEF w
    <3>8. (old \o Append(queued, v)) \o <<>> = old \o Append(queued, v)
      BY <2>1, <3>6, ConcatEmptySeq, ConcatProperties
    <3> QED  BY <2>2, <3>1, <3>3, <3>4, <3>6, <3>7, <3>8 DEF Reported, v
  <2>4. CASE ~(c.sub = s /\ c.item = i)
    <3>1. ValuesOf(TriggeredDataChangeEvents'[s], i) = queued
      <4>1. CASE TriggeredDataChangeEvents'[s] = TriggeredDataChangeEvents[s]
        BY <4>1
      <4>2. CASE c.sub = s /\ TriggeredDataChangeEvents'[s] = Append(TriggeredDataChangeEvents[s], e)
        BY <1>2, <2>4, <4>2, ValuesOfAppend
      <4> QED  BY <1>1, <1>2, <4>1, <4>2
    <3>2. \A u \in Threads : /\ task'[u].pending \subseteq task[u].pending
                             /\ \A d \in task[u].pending :
                                  d.sub = s /\ d.item = i => d \in task'[u].pending
      BY <1>3, <2>4
    <3>3. InFlight(s, i)' = InFlight(s, i)
      BY <1>1, <1>5, <2>1, <3>2, FlightStays
    <3> QED  BY <2>2, <3>1, <3>3 DEF Reported
  <2> QED  BY <2>3, <2>4
<1> QED  BY <1>4, <1>5 DEF NoChangeLost, Reported

\* A result: what was queued has been reported.
LEMMA ResultDelivery ==
  ASSUME TypeInv, OneWriter, FlightKnown, FlightKnown', HistoryTypes, FreshDelivered,
         TableInv, NoChangeLost, NEW t \in Threads, PopPublishResult(t)
  PROVE  HistoryTypes' /\ FreshDelivered' /\ NoChangeLost'
<1> DEFINE s == task[t].sub
           queue == TriggeredDataChangeEvents[s]
<1>1. /\ TriggeredDataChangeEvents' = [TriggeredDataChangeEvents EXCEPT ![s] = <<>>]
      /\ delivered' = [delivered EXCEPT ![s] = [i \in ItemIds |-> @[i] \o ValuesOf(queue, i)]]
      /\ task' = [task EXCEPT ![t] = Idle]
      /\ UNCHANGED <<Value, expected, MonitoredDataChanges, LastMonitoredItemId>>
      /\ task[t].op = "popresult"
  BY DEF PopPublishResult, NewResult, Finish, Goto, itemVars, spaceVars
<1>2. s \in SubIds /\ queue \in Seq(Change) /\ TriggeredDataChangeEvents \in [SubIds -> Seq(Change)]
  <2>1. s \in SubIds
    BY <1>1 DEF TypeInv, CallsConsistent, SessionsKnown, HandlerOps
  <2> QED  BY <2>1 DEF TypeInv, TypeOK, QueueTypes
<1>3. \A u \in Threads : task'[u].pending = task[u].pending
  <2>1. Idle.pending = {} /\ task[t].pending = {}
    BY <1>1 DEF Idle, OneWriter
  <2>2. \A u \in Threads : task'[u] = IF u = t THEN Idle ELSE task[u]
    BY <1>1 DEF TypeInv, TypeOK
  <2> QED  BY <2>1, <2>2
<1> HIDE DEF s, queue
<1>4. \A r \in SubIds, i \in ItemIds :
        delivered'[r][i] = IF r = s THEN delivered[r][i] \o ValuesOf(queue, i) ELSE delivered[r][i]
  BY <1>1, <1>2 DEF HistoryTypes
<1>5. HistoryTypes'
  <2>1. ASSUME NEW i \in ItemIds PROVE delivered[s][i] \o ValuesOf(queue, i) \in Seq(Nat)
    <3>1. delivered[s][i] \in Seq(Nat) /\ ValuesOf(queue, i) \in Seq(Nat)
      BY <1>2, ValuesOfType DEF HistoryTypes
    <3> QED  BY <3>1, ConcatProperties
  <2>2. [i \in ItemIds |-> delivered[s][i] \o ValuesOf(queue, i)] \in [ItemIds -> Seq(Nat)]
    BY <2>1
  <2>3. delivered' \in [SubIds -> [ItemIds -> Seq(Nat)]]
    BY <1>1, <1>2, <2>2 DEF HistoryTypes
  <2> QED  BY <1>1, <2>3 DEF HistoryTypes
<1>6. FreshDelivered'
  <2> SUFFICES ASSUME NEW r \in SubIds, NEW i \in ItemIds, i > LastMonitoredItemId[r]
               PROVE  delivered'[r][i] = <<>>
    BY <1>1 DEF FreshDelivered
  <2>1. delivered[r][i] = <<>>
    BY DEF FreshDelivered
  <2>2. CASE r = s
    <3>1. MonitoredDataChanges[s][i] = NoItem
      BY <2>2 DEF TableInv, FreshItems
    <3>2. \A k \in 1 .. Len(queue) : queue[k].item # i
      BY <1>2, <3>1 DEF TableInv, ChangesBelongToItems, NoItem, queue
    <3>3. ValuesOf(queue, i) = <<>>
      BY <1>2, <3>2, ValuesOfNone
    <3>4. <<>> \o <<>> = <<>>
      <4>1. <<>> \in Seq(Nat)
        OBVIOUS
      <4> QED  BY <4>1, ConcatEmptySeq
    <3> QED  BY <1>4, <2>1, <2>2, <3>3, <3>4
  <2>3. CASE r # s
    BY <1>4, <2>1, <2>3
  <2> QED  BY <2>2, <2>3
<1>7. ASSUME NEW r \in SubIds, NEW i \in ItemIds, MonitoredDataChanges'[r][i] > 0
      PROVE  Reported(r, i)'
  <2>1. MonitoredDataChanges[r][i] > 0
    BY <1>1, <1>7
  <2>2. InFlight(r, i)' = InFlight(r, i)
    BY <1>1, <1>3, <1>7, <2>1, FlightStays
  <2>3. Reported(r, i)
    BY <2>1 DEF NoChangeLost, Reported
  <2>4. CASE r = s
    <3>1. TriggeredDataChangeEvents'[r] = <<>> /\ TriggeredDataChangeEvents[r] = queue
      BY <1>1, <1>2, <2>4 DEF queue
    <3>2. ValuesOf(TriggeredDataChangeEvents'[r], i) = <<>>
      BY <3>1, ValuesOfEmpty
    <3>3. delivered'[r][i] = delivered[r][i] \o ValuesOf(queue, i)
      BY <1>4, <2>4
    <3>4. delivered'[r][i] \in Seq(Nat)
      BY <1>5 DEF HistoryTypes
    <3>5. delivered'[r][i] \o <<>> = delivered'[r][i]
      BY <3>4, ConcatEmptySeq
    <3> QED  BY <1>1, <2>2, <2>3, <3>1, <3>2, <3>3, <3>5 DEF Reported
  <2>5. CASE r # s
    <3>1. TriggeredDataChangeEvents'[r] = TriggeredDataChangeEvents[r]
      BY <1>1, <1>2, <2>5
    <3>2. delivered'[r][i] = delivered[r][i]
      BY <1>4, <2>5
    <3> QED  BY <1>1, <2>2, <2>3, <3>1, <3>2 DEF Reported
  <2> QED  BY <2>4, <2>5
<1> QED  BY <1>5, <1>6, <1>7 DEF NoChangeLost, Reported

LEMMA NextDelivery ==
  TypeInv /\ TypeInv' /\ TableInv /\ TableInv' /\ DeliveryInv /\ [Next]_vars => DeliveryInv'
<1> SUFFICES ASSUME TypeInv, TypeInv', TableInv, TableInv', DeliveryInv, [Next]_vars
             PROVE  DeliveryInv'
  OBVIOUS
<1>1. HistoryTypes /\ FreshDelivered /\ OneWriter /\ NoChangeLost
  BY DEF DeliveryInv
<1>2. OneWriter'
  BY <1>1, OneWriterNext
<1>3. FlightKnown /\ FlightKnown'
  BY <1>1, <1>2, FlightIsKnown, FlightIsKnownNext
<1>4. HistoryTypes' /\ FreshDelivered' /\ NoChangeLost'
  BY <1>1, <1>3, DeliverySteps, ItemsOnlyLeaveWhen, ItemsOnlyLeaveDelivery,
     CreateDataChangeDelivery, WriteDelivery, CallbackDelivery, ResultDelivery
<1> QED  BY <1>2, <1>4 DEF DeliveryInv

\* For every number of threads, subscriptions, items and writes, and in every order of
\* their steps: what an existing item has reported, then what is queued for it, then the
\* value of a Write that has yet to call it back, is its first value followed by every
\* value written since (CreateMonitoredItem, Write, DataChangeCallback, PopPublishResult).
THEOREM NothingIsLost == Spec => []NoChangeLost
<1>1. DeliveryInv => NoChangeLost
  BY DEF DeliveryInv
<1> QED  BY <1>1, InitDelivery, NextDelivery, TypeInvariant, TableInvariant, PTL DEF Spec
================================================================================
