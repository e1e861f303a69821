--------------------------- MODULE OpcTcpServerProofs ---------------------------
(* Proofs about OpcTcpServer, for any number of connections, messages, subscriptions *)
(* and any limit on publish requests.                                                *)
EXTENDS OpcTcpServer, SequenceTheorems, TLAPS

Messages == [number : Nat, request : 1 .. MaxMessages]

\* What the first numbered answers are: SequenceNb counts them.
Numbering ==
  \A c \in Connections :
    /\ SequenceNb[c] = Len(sent[c])
    /\ \A i \in DOMAIN sent[c] : sent[c][i].number = i

\* The next request is new, and no request is queued twice.
FreshOf(c) ==
  /\ \A i \in DOMAIN sent[c] : sent[c][i].request <= received[c]
  /\ \A i \in DOMAIN PublishRequestQueue[c] : PublishRequestQueue[c][i] <= received[c]
  /\ \A i, j \in DOMAIN PublishRequestQueue[c] :
       PublishRequestQueue[c][i] = PublishRequestQueue[c][j] => i = j

Fresh == \A c \in Connections : FreshOf(c)

\* The service's count of a client's requests is not ahead of its queue.
CountCovered ==
  \A c \in Connections :
    /\ c \in Clients => PublishRequestQueues[Token[c]] <= Len(PublishRequestQueue[c])
    /\ received[c] = 0 => PublishRequestQueues[Token[c]] = 0

Inv ==
  /\ TypeOK
  /\ SubscriptionsTracked
  /\ Numbering
  /\ Fresh
  /\ TokensAreOwn => CountCovered /\ unanswerable = 0

--------------------------------------------------------------------------------
(* The steps, by what they do to requests and answers. *)

QuietStep(c) ==
  /\ UNCHANGED <<PublishRequestQueue, sent, SequenceNb, PublishRequestQueues, unanswerable>>
  /\ \/ received' = received
     \/ received' = [received EXCEPT ![c] = @ + 1]
  /\ \/ Clients' \subseteq Clients
     \/ received' = received /\ received[c] = 0 /\ Clients' = Clients \cup {c}

AnswerStep(c) ==
  /\ Respond(c, received[c] + 1)
  /\ received[c] < MaxMessages
  /\ received' = [received EXCEPT ![c] = @ + 1]
  /\ UNCHANGED <<PublishRequestQueue, PublishRequestQueues, Clients, unanswerable>>

PublishStep(c) ==
  /\ received[c] < MaxMessages
  /\ received' = [received EXCEPT ![c] = @ + 1]
  /\ PublishRequestQueue' = [PublishRequestQueue EXCEPT ![c] = Append(@, received[c] + 1)]
  /\ PublishRequestQueues' = [PublishRequestQueues EXCEPT ![Token[c]] = Counted(@)]
  /\ UNCHANGED <<SequenceNb, sent, Clients, unanswerable>>

ForwardStep(c) ==
  /\ PublishRequestQueues[Token[c]] > 0
  /\ PublishRequestQueues' = [PublishRequestQueues EXCEPT ![Token[c]] = @ - 1]
  /\ ForwardPublishResponse(c)
  /\ UNCHANGED <<received, Clients>>

KindOfStep ==
  \E c \in Connections : QuietStep(c) \/ AnswerStep(c) \/ PublishStep(c) \/ ForwardStep(c)

LEMMA StepsHaveKinds ==
  ASSUME TypeOK, [Next]_vars
  PROVE  UNCHANGED <<Clients, received, SequenceNb, PublishRequestQueue, sent,
                     PublishRequestQueues, unanswerable>> \/ KindOfStep
<1> USE DEF TypeOK, ConnectionTypes, connectionVars, serviceVars, failureVars
<1>1. ASSUME NEW c \in Connections, Connection(c)
      PROVE  QuietStep(c)
  <2>1. CASE Accept(c)
    BY <2>1 DEF Accept, QuietStep
  <2>2. CASE ProcessHeader(c)
    BY <2>2 DEF ProcessHeader, QuietStep
  <2>3. CASE ProcessHeaderFails(c)
    BY <2>3 DEF ProcessHeaderFails, GoodBye, Destroy, QuietStep
  <2>4. CASE ReadingEnds(c)
    BY <2>4 DEF ReadingEnds, QuietStep
  <2>5. CASE SendFails(c)
    BY <2>5 DEF SendFails, GoodBye, Destroy, QuietStep
  <2>6. CASE ReadAfterEnd(c)
    BY <2>6 DEF ReadAfterEnd, QuietStep
  <2> QED  BY <1>1, <2>1, <2>2, <2>3, <2>4, <2>5, <2>6 DEF Connection
<1>2. ASSUME NEW c \in Connections, Processor(c)
      PROVE  QuietStep(c) \/ AnswerStep(c) \/ PublishStep(c)
  <2>1. CASE HelloClient(c)
    BY <2>1 DEF HelloClient, ProcessMessage, ReadNextData, QuietStep
  <2>2. CASE OpenChannel(c)
    BY <2>2 DEF OpenChannel, ProcessMessage, ReadNextData, AnswerStep
  <2>3. CASE CloseChannel(c)
    BY <2>3 DEF CloseChannel, ProcessMessage, GoodBye, Destroy, QuietStep
  <2>4. CASE ProcessRequest(c)
    BY <2>4 DEF ProcessRequest, ProcessMessage, ReadNextData, AnswerStep
  <2>5. CASE CreateSubscription(c)
    BY <2>5 DEF CreateSubscription, ProcessMessage, ReadNextData, AnswerStep
  <2>6. CASE \E ids \in SUBSET SubIds : DeleteSubscriptions(c, ids)
    BY <2>6 DEF DeleteSubscriptions, ProcessMessage, ReadNextData, AnswerStep
  <2>7. CASE CloseSession(c)
    BY <2>7 DEF CloseSession, ProcessMessage, ReadNextData, AnswerStep
  <2>8. CASE Publish(c)
    BY <2>8 DEF Publish, ProcessMessage, ReadNextData, PublishStep
  <2> QED  BY <1>2, <2>1, <2>2, <2>3, <2>4, <2>5, <2>6, <2>7, <2>8 DEF Processor
<1>3. ASSUME NEW s \in SubIds, Publishing(s)
      PROVE  UNCHANGED <<Clients, received, SequenceNb, PublishRequestQueue, sent,
                         PublishRequestQueues, unanswerable>> \/ KindOfStep
  <2>1. CASE TimerExpires(s)
    BY <2>1 DEF TimerExpires
  <2>2. CASE PublishResultsStops(s)
    BY <2>2 DEF PublishResultsStops
  <2>3. CASE PublishResultsNothing(s)
    BY <2>3 DEF PublishResultsNothing
  <2>4. ASSUME NEW c \in Connections, PublishResults(s, c)
        PROVE  ForwardStep(c)
    BY <2>4 DEF PublishResults, ForwardStep
  <2> QED  BY <1>3, <2>1, <2>2, <2>3, <2>4 DEF Publishing, KindOfStep
<1>4. CASE Stopping
  <2>1. /\ UNCHANGED <<received, SequenceNb, PublishRequestQueue, sent, PublishRequestQueues,
                       unanswerable>>
        /\ Clients' \subseteq Clients
    BY <1>4 DEF Stopping, ShutdownClears, ShutdownCleared, Stop, StoppingOnly, Destroy
  <2>2. CASE Clients = {}
    BY <2>1, <2>2
  <2>3. ASSUME NEW c \in Clients PROVE QuietStep(c)
    BY <2>1 DEF QuietStep
  <2> QED  BY <2>2, <2>3 DEF KindOfStep
<1>5. CASE UNCHANGED vars
  BY <1>5 DEF vars
<1> QED  BY <1>1, <1>2, <1>3, <1>4, <1>5 DEF Next, KindOfStep

--------------------------------------------------------------------------------
(* Types. *)

LEMMA DestroyTypes ==
  ASSUME TypeOK, NEW cs \in SUBSET Connections, Destroy(cs)
  PROVE  /\ Clients' \subseteq Connections
         /\ Subscriptions' \in [Connections -> SUBSET SubIds]
         /\ SubscriptionsMap' \subseteq SubIds
         /\ Timer' \in [SubIds -> TimerStates]
BY DEF TypeOK, ConnectionTypes, ProcessorTypes, ServiceTypes, Destroy, DeleteFromService,
       Cancelled, TimerStates

LEMMA DeleteTypes ==
  ASSUME TypeOK, NEW subs, DeleteFromService(subs)
  PROVE  /\ SubscriptionsMap' \subseteq SubIds
         /\ Timer' \in [SubIds -> TimerStates]
BY DEF TypeOK, ServiceTypes, DeleteFromService, Cancelled, TimerStates

LEMMA RespondTypes ==
  ASSUME TypeOK, NEW c \in Connections, NEW request \in 1 .. MaxMessages, Respond(c, request)
  PROVE  /\ SequenceNb' \in [Connections -> Nat]
         /\ sent' \in [Connections -> Seq(Messages)]
<1>1. [number |-> SequenceNb[c] + 1, request |-> request] \in Messages
  BY DEF TypeOK, ProcessorTypes, Messages
<1>2. sent \in [Connections -> Seq(Messages)]
  BY DEF TypeOK, ProcessorTypes, Messages
<1>3. Append(sent[c], [number |-> SequenceNb[c] + 1, request |-> request]) \in Seq(Messages)
  BY <1>1, <1>2, AppendProperties
<1>4. sent' \in [Connections -> Seq(Messages)]
  BY <1>2, <1>3 DEF Respond
<1> QED  BY <1>4 DEF TypeOK, ProcessorTypes, Respond

LEMMA MessageTypes ==
  ASSUME TypeOK, NEW c \in Connections, ProcessMessage(c)
  PROVE  /\ received[c] + 1 \in 1 .. MaxMessages
         /\ received' \in [Connections -> 0 .. MaxMessages]
         /\ \A d \in Connections : d # c => received'[d] = received[d]
BY OpcTcpAssumption DEF TypeOK, ConnectionTypes, ProcessMessage

LEMMA ReadNextTypes ==
  ASSUME TypeOK, NEW c \in Connections, ProcessMessage(c), ReadNextData(c)
  PROVE  ConnectionTypes'
BY MessageTypes DEF TypeOK, ConnectionTypes, ProcessMessage, ReadNextData, failureVars

\* The step of a connection between messages.
LEMMA ConnectionKeepsTypes ==
  ASSUME TypeOK, NEW c \in Connections, Connection(c)
  PROVE  TypeOK'
<1> USE DEF connectionVars, serviceVars, failureVars
<1>1. CASE Accept(c)
  BY <1>1 DEF Accept, TypeOK, ConnectionTypes, ProcessorTypes, ServiceTypes
<1>2. CASE ProcessHeader(c)
  BY <1>2 DEF ProcessHeader, TypeOK, ConnectionTypes, ProcessorTypes, ServiceTypes
<1>3. CASE ReadingEnds(c)
  BY <1>3 DEF ReadingEnds, ReadIsOver, TypeOK, ConnectionTypes, ProcessorTypes, ServiceTypes
<1>4. CASE ReadAfterEnd(c)
  BY <1>4 DEF ReadAfterEnd, ReadIsOver, TypeOK, ConnectionTypes, ProcessorTypes, ServiceTypes
<1>5. CASE ProcessHeaderFails(c) \/ SendFails(c)
  <2>1. Destroy({c}) /\ GoodBye(c)
    BY <1>5 DEF ProcessHeaderFails, SendFails, GoodBye
  <2>2. /\ reading' \in [Connections -> {"nothing", "header", "body"}]
        /\ \A d \in Connections : reading'[d] = "body" => reading[d] = "body"
        /\ received' = received /\ orphans' \subseteq Connections
    BY <1>5 DEF ProcessHeaderFails, SendFails, ReadIsOver, Orphan, TypeOK, ConnectionTypes
  <2>3. ConnectionTypes'
    BY <2>1, <2>2, DestroyTypes DEF GoodBye, TypeOK, ConnectionTypes
  <2>4. ProcessorTypes' /\ ServiceTypes'
    BY <2>1, DestroyTypes DEF GoodBye, TypeOK, ProcessorTypes, ServiceTypes
  <2> QED  BY <2>1, <2>2, <2>3, <2>4 DEF GoodBye, TypeOK
<1> QED  BY <1>1, <1>2, <1>3, <1>4, <1>5 DEF Connection

\* The step of a message.
LEMMA ProcessorKeepsTypes ==
  ASSUME TypeOK, NEW c \in Connections, Processor(c)
  PROVE  TypeOK'
<1> USE DEF connectionVars, serviceVars, failureVars
<1>1. CASE HelloClient(c)
  <2>1. ConnectionTypes'
    BY <1>1, ReadNextTypes DEF HelloClient
  <2> QED  BY <1>1, <2>1 DEF HelloClient, ReadNextData, TypeOK, ProcessorTypes, ServiceTypes
<1>2. CASE OpenChannel(c)
  <2>1. ConnectionTypes'
    BY <1>2, ReadNextTypes DEF OpenChannel
  <2>2. SequenceNb' \in [Connections -> Nat] /\ sent' \in [Connections -> Seq(Messages)]
    BY <1>2, MessageTypes, RespondTypes DEF OpenChannel
  <2> QED  BY <1>2, <2>1, <2>2
           DEF OpenChannel, ReadNextData, TypeOK, ProcessorTypes, ServiceTypes, Messages
<1>3. CASE CloseChannel(c)
  <2>1. Destroy({c})
    BY <1>3 DEF CloseChannel, GoodBye
  <2>2. /\ reading' \in [Connections -> {"nothing", "header", "body"}]
        /\ \A d \in Connections : reading'[d] = "body" => d # c /\ reading[d] = "body"
    BY <1>3 DEF CloseChannel, ReadIsOver, TypeOK, ConnectionTypes
  <2>3. ConnectionTypes'
    BY <1>3, <2>1, <2>2, DestroyTypes, MessageTypes
    DEF CloseChannel, GoodBye, TypeOK, ConnectionTypes
  <2>4. ProcessorTypes' /\ ServiceTypes'
    BY <1>3, <2>1, DestroyTypes DEF CloseChannel, GoodBye, TypeOK, ProcessorTypes, ServiceTypes
  <2> QED  BY <1>3, <2>3, <2>4 DEF CloseChannel, GoodBye, TypeOK
<1>4. CASE ProcessRequest(c)
  <2>1. ConnectionTypes'
    BY <1>4, ReadNextTypes DEF ProcessRequest
  <2>2. SequenceNb' \in [Connections -> Nat] /\ sent' \in [Connections -> Seq(Messages)]
    BY <1>4, MessageTypes, RespondTypes DEF ProcessRequest
  <2> QED  BY <1>4, <2>1, <2>2
           DEF ProcessRequest, ReadNextData, TypeOK, ProcessorTypes, ServiceTypes, Messages
<1>5. CASE CreateSubscription(c)
  <2>1. ConnectionTypes'
    BY <1>5, ReadNextTypes DEF CreateSubscription
  <2>2. SequenceNb' \in [Connections -> Nat] /\ sent' \in [Connections -> Seq(Messages)]
    BY <1>5, MessageTypes, RespondTypes DEF CreateSubscription
  <2>3. ServiceTypes' /\ Subscriptions' \in [Connections -> SUBSET SubIds]
    BY <1>5, OpcTcpAssumption
    DEF CreateSubscription, TypeOK, ServiceTypes, ProcessorTypes, SubIds, TimerStates
  <2> QED  BY <1>5, <2>1, <2>2, <2>3
           DEF CreateSubscription, ReadNextData, TypeOK, ProcessorTypes, Messages
<1>6. ASSUME NEW ids \in SUBSET SubIds, DeleteSubscriptions(c, ids)
      PROVE  TypeOK'
  <2>1. ConnectionTypes'
    BY <1>6, ReadNextTypes DEF DeleteSubscriptions
  <2>2. SequenceNb' \in [Connections -> Nat] /\ sent' \in [Connections -> Seq(Messages)]
    BY <1>6, MessageTypes, RespondTypes DEF DeleteSubscriptions
  <2>3. ServiceTypes' /\ Subscriptions' \in [Connections -> SUBSET SubIds]
    BY <1>6, DeleteTypes DEF DeleteSubscriptions, TypeOK, ServiceTypes, ProcessorTypes
  <2> QED  BY <1>6, <2>1, <2>2, <2>3
           DEF DeleteSubscriptions, ReadNextData, TypeOK, ProcessorTypes, Messages
<1>7. CASE CloseSession(c)
  <2>1. ConnectionTypes'
    BY <1>7, ReadNextTypes DEF CloseSession
  <2>2. SequenceNb' \in [Connections -> Nat] /\ sent' \in [Connections -> Seq(Messages)]
    BY <1>7, MessageTypes, RespondTypes DEF CloseSession
  <2>3. ServiceTypes' /\ Subscriptions' \in [Connections -> SUBSET SubIds]
    BY <1>7, DeleteTypes DEF CloseSession, TypeOK, ServiceTypes, ProcessorTypes
  <2> QED  BY <1>7, <2>1, <2>2, <2>3
           DEF CloseSession, ReadNextData, TypeOK, ProcessorTypes, Messages
<1>8. CASE Publish(c)
  <2>1. ConnectionTypes'
    BY <1>8, ReadNextTypes DEF Publish
  <2>2. Append(PublishRequestQueue[c], received[c] + 1) \in Seq(1 .. MaxMessages)
    BY <1>8, MessageTypes, AppendProperties DEF Publish, TypeOK, ProcessorTypes
  <2>3. PublishRequestQueue' \in [Connections -> Seq(1 .. MaxMessages)]
    BY <1>8, <2>2 DEF Publish, TypeOK, ProcessorTypes
  <2>4. PublishRequestQueues' \in [Tokens -> Nat]
    BY <1>8, OpcTcpAssumption DEF Publish, Counted, TypeOK, ServiceTypes
  <2> QED  BY <1>8, <2>1, <2>3, <2>4
           DEF Publish, ReadNextData, TypeOK, ProcessorTypes, ServiceTypes
<1> QED  BY <1>1, <1>2, <1>3, <1>4, <1>5, <1>6, <1>7, <1>8 DEF Processor

LEMMA ForwardTypes ==
  ASSUME TypeOK, NEW c \in Connections, ForwardPublishResponse(c)
  PROVE  /\ SequenceNb' \in [Connections -> Nat]
         /\ sent' \in [Connections -> Seq(Messages)]
         /\ PublishRequestQueue' \in [Connections -> Seq(1 .. MaxMessages)]
         /\ unanswerable' \in Nat /\ stale' \subseteq Connections /\ orphans' = orphans
<1>1. CASE c \in Clients /\ PublishRequestQueue[c] # << >>
  <2>1. PublishRequestQueue[c] \in Seq(1 .. MaxMessages)
    BY DEF TypeOK, ProcessorTypes
  <2>2. /\ Head(PublishRequestQueue[c]) \in 1 .. MaxMessages
        /\ Tail(PublishRequestQueue[c]) \in Seq(1 .. MaxMessages)
    BY <1>1, <2>1, HeadTailProperties
  <2>3. Respond(c, Head(PublishRequestQueue[c]))
    BY <1>1 DEF ForwardPublishResponse
  <2>4. SequenceNb' \in [Connections -> Nat] /\ sent' \in [Connections -> Seq(Messages)]
    BY <2>2, <2>3, RespondTypes
  <2> QED  BY <1>1, <2>2, <2>4
           DEF ForwardPublishResponse, TypeOK, ProcessorTypes, failureVars
<1>2. CASE ~(c \in Clients /\ PublishRequestQueue[c] # << >>)
  <2>1. /\ UNCHANGED <<SequenceNb, sent, PublishRequestQueue>>
        /\ unanswerable' \in {unanswerable, unanswerable + 1}
        /\ stale' \in {stale, stale \cup {c}} /\ orphans' = orphans
    BY <1>2 DEF ForwardPublishResponse
  <2>2. unanswerable' \in Nat /\ stale' \subseteq Connections
    BY <2>1 DEF TypeOK
  <2> QED  BY <2>1, <2>2 DEF TypeOK, ProcessorTypes, Messages
<1> QED  BY <1>1, <1>2

\* The step of a subscription.
LEMMA PublishingKeepsTypes ==
  ASSUME TypeOK, NEW s \in SubIds, Publishing(s)
  PROVE  TypeOK'
<1> USE DEF connectionVars, serviceVars, failureVars, TimerStates
<1>1. CASE TimerExpires(s)
  BY <1>1 DEF TimerExpires, TypeOK, ConnectionTypes, ProcessorTypes, ServiceTypes
<1>2. CASE PublishResultsStops(s)
  BY <1>2 DEF PublishResultsStops, TypeOK, ConnectionTypes, ProcessorTypes, ServiceTypes
<1>3. CASE PublishResultsNothing(s)
  BY <1>3 DEF PublishResultsNothing, Rearm, TypeOK, ConnectionTypes, ProcessorTypes, ServiceTypes
<1>4. ASSUME NEW c \in Connections, PublishResults(s, c)
      PROVE  TypeOK'
  <2>1. ForwardPublishResponse(c)
    BY <1>4 DEF PublishResults
  <2>2. /\ ProcessorTypes'
        /\ unanswerable' \in Nat /\ stale' \subseteq Connections /\ orphans' \subseteq Connections
    BY <1>4, <2>1, ForwardTypes DEF PublishResults, TypeOK, ProcessorTypes, Messages
  <2>3. PublishRequestQueues' \in [Tokens -> Nat]
    BY <1>4, OpcTcpAssumption DEF PublishResults, TypeOK, ServiceTypes
  <2>4. ServiceTypes'
    BY <1>4, <2>3 DEF PublishResults, Rearm, TypeOK, ServiceTypes
  <2>5. ConnectionTypes'
    BY <1>4 DEF PublishResults, TypeOK, ConnectionTypes
  <2> QED  BY <2>2, <2>4, <2>5 DEF TypeOK
<1> QED  BY <1>1, <1>2, <1>3, <1>4 DEF Publishing

LEMMA NextKeepsTypes ==
  ASSUME TypeOK, [Next]_vars
  PROVE  TypeOK'
<1>1. CASE Stopping
  <2>1. PICK cs \in SUBSET Connections :
          \/ Destroy(cs) /\ Orphan(cs)
          \/ UNCHANGED <<Clients, Subscriptions, SubscriptionsMap, Timer, orphans>>
    BY <1>1 DEF Stopping, ShutdownClears, ShutdownCleared, Stop, TypeOK, ConnectionTypes
  <2>2. stopping' \in {"no", "cleared", "stopped"} /\ StoppingOnly
    BY <1>1 DEF Stopping, ShutdownClears, ShutdownCleared, Stop, TypeOK, ConnectionTypes
  <2>3. ConnectionTypes' /\ orphans' \subseteq Connections
    BY <2>1, <2>2, DestroyTypes DEF Orphan, StoppingOnly, TypeOK, ConnectionTypes
  <2>4. ProcessorTypes' /\ ServiceTypes'
    BY <2>1, <2>2, DestroyTypes DEF StoppingOnly, TypeOK, ProcessorTypes, ServiceTypes
  <2> QED  BY <2>2, <2>3, <2>4 DEF StoppingOnly, TypeOK
<1>2. CASE UNCHANGED vars
  BY <1>2 DEF vars, connectionVars, serviceVars, failureVars, TypeOK, ConnectionTypes,
              ProcessorTypes, ServiceTypes
<1> QED
  BY <1>1, <1>2, ConnectionKeepsTypes, ProcessorKeepsTypes, PublishingKeepsTypes DEF Next

LEMMA InitTypes ==
  ASSUME Init
  PROVE  TypeOK
BY OpcTcpAssumption
DEF Init, TypeOK, ConnectionTypes, ProcessorTypes, ServiceTypes, SubIds, TimerStates

(* Every variable keeps its type, and a connection whose read of a body is pending has *)
(* a message left to receive.                                                          *)
THEOREM TypeCorrect == Spec => []TypeOK
BY InitTypes, NextKeepsTypes, PTL DEF Spec

--------------------------------------------------------------------------------
(* Subscriptions and the connections they call. *)

LEMMA DestroyKeepsTrack ==
  ASSUME TypeOK, SubscriptionsTracked, NEW cs \in SUBSET Connections, Destroy(cs),
         UNCHANGED Callback
  PROVE  SubscriptionsTracked'
<1> SUFFICES ASSUME NEW s \in SubscriptionsMap'
             PROVE  \E c \in Clients' : Callback'[s] = {c} /\ s \in Subscriptions'[c]
  BY DEF SubscriptionsTracked
<1>1. s \in SubscriptionsMap /\ s \notin SubscriptionsOf(cs)
  BY DEF Destroy, DeleteFromService
<1>2. PICK c \in Clients : Callback[s] = {c} /\ s \in Subscriptions[c]
  BY <1>1 DEF SubscriptionsTracked
<1>3. c \notin cs
  BY <1>1, <1>2 DEF SubscriptionsOf
<1>4. c \in Connections
  BY DEF TypeOK, ConnectionTypes
<1>5. c \in Clients' /\ Subscriptions'[c] = Subscriptions[c]
  BY <1>3, <1>4 DEF Destroy
<1> QED  BY <1>2, <1>5

\* Messages that leave the callbacks alone and delete what the connection forgets.
LEMMA ForgetKeepsTrack ==
  ASSUME TypeOK, SubscriptionsTracked, NEW c \in Connections, NEW subs,
         DeleteFromService(subs), Subscriptions' = [Subscriptions EXCEPT ![c] = @ \ subs],
         UNCHANGED <<Callback, Clients>>
  PROVE  SubscriptionsTracked'
<1> SUFFICES ASSUME NEW s \in SubscriptionsMap'
             PROVE  \E d \in Clients : Callback[s] = {d} /\ s \in Subscriptions'[d]
  BY DEF SubscriptionsTracked
<1>1. s \in SubscriptionsMap /\ s \notin subs
  BY DEF DeleteFromService
<1>2. PICK d \in Clients : Callback[s] = {d} /\ s \in Subscriptions[d]
  BY <1>1 DEF SubscriptionsTracked
<1>3. s \in Subscriptions'[d]
  BY <1>1, <1>2 DEF TypeOK, ConnectionTypes, ProcessorTypes
<1> QED  BY <1>2, <1>3

LEMMA CreateKeepsTrack ==
  ASSUME TypeOK, SubscriptionsTracked, NEW c \in Connections, CreateSubscription(c)
  PROVE  SubscriptionsTracked'
<1> DEFINE new == LastSubscriptionId + 1
<1> SUFFICES ASSUME NEW s \in SubscriptionsMap'
             PROVE  \E d \in Clients : Callback'[s] = {d} /\ s \in Subscriptions'[d]
  BY DEF SubscriptionsTracked, CreateSubscription, ReadNextData
<1>1. c \in Clients
  BY DEF CreateSubscription, ProcessMessage, TypeOK, ConnectionTypes
<1>2. /\ Callback' = [Callback EXCEPT ![new] = {c}]
      /\ Subscriptions' = [Subscriptions EXCEPT ![c] = @ \cup {new}]
      /\ SubscriptionsMap' = SubscriptionsMap \cup {new}
      /\ new \in SubIds
  BY DEF CreateSubscription
<1> HIDE DEF new
<1>3. CASE s = new
  BY <1>1, <1>2, <1>3 DEF TypeOK, ProcessorTypes, ServiceTypes
<1>4. CASE s # new
  <2>1. PICK d \in Clients : Callback[s] = {d} /\ s \in Subscriptions[d]
    BY <1>2, <1>4 DEF SubscriptionsTracked
  <2>2. Callback'[s] = Callback[s] /\ s \in Subscriptions'[d]
    BY <1>2, <1>4, <2>1 DEF TypeOK, ConnectionTypes, ProcessorTypes, ServiceTypes
  <2> QED  BY <2>1, <2>2
<1> QED  BY <1>3, <1>4

LEMMA NextKeepsTrack ==
  ASSUME TypeOK, SubscriptionsTracked, [Next]_vars
  PROVE  SubscriptionsTracked'
<1> USE DEF connectionVars, serviceVars, failureVars
<1>1. CASE UNCHANGED <<SubscriptionsMap, Callback, Clients, Subscriptions>>
  BY <1>1 DEF SubscriptionsTracked
<1>2. ASSUME NEW c \in Connections, Connection(c)
      PROVE  SubscriptionsTracked'
  <2>1. CASE Accept(c)
    BY <2>1 DEF Accept, SubscriptionsTracked
  <2>2. CASE ProcessHeader(c) \/ ReadingEnds(c) \/ ReadAfterEnd(c)
    BY <1>1, <2>2 DEF ProcessHeader, ReadingEnds, ReadAfterEnd
  <2>3. CASE ProcessHeaderFails(c) \/ SendFails(c)
    BY <2>3, DestroyKeepsTrack DEF ProcessHeaderFails, SendFails, GoodBye
  <2> QED  BY <1>2, <2>1, <2>2, <2>3 DEF Connection
<1>3. ASSUME NEW c \in Connections, Processor(c)
      PROVE  SubscriptionsTracked'
  <2>1. CASE HelloClient(c) \/ ProcessRequest(c) \/ Publish(c)
    BY <1>1, <2>1 DEF HelloClient, ProcessRequest, Publish, ReadNextData
  <2>2. CASE OpenChannel(c)
    BY <1>1, <2>2 DEF OpenChannel, ReadNextData
  <2>3. CASE CloseChannel(c)
    BY <2>3, DestroyKeepsTrack DEF CloseChannel, GoodBye
  <2>4. CASE CreateSubscription(c)
    BY <2>4, CreateKeepsTrack
  <2>5. CASE \E ids \in SUBSET SubIds : DeleteSubscriptions(c, ids)
    BY <2>5, ForgetKeepsTrack DEF DeleteSubscriptions, ReadNextData
  <2>6. CASE CloseSession(c)
    <3>1. Subscriptions' = [Subscriptions EXCEPT ![c] = @ \ Subscriptions[c]]
      BY <2>6 DEF CloseSession, TypeOK, ProcessorTypes
    <3> QED  BY <2>6, <3>1, ForgetKeepsTrack DEF CloseSession, ReadNextData
  <2> QED  BY <1>3, <2>1, <2>2, <2>3, <2>4, <2>5, <2>6 DEF Processor
<1>4. ASSUME NEW s \in SubIds, Publishing(s)
      PROVE  SubscriptionsTracked'
  BY <1>1, <1>4 DEF Publishing, TimerExpires, PublishResultsStops, PublishResultsNothing,
                    PublishResults
<1>5. CASE Stopping
  BY <1>1, <1>5, DestroyKeepsTrack
  DEF Stopping, ShutdownClears, ShutdownCleared, Stop, StoppingOnly, TypeOK, ConnectionTypes
<1>6. CASE UNCHANGED vars
  BY <1>1, <1>6 DEF vars
<1> QED  BY <1>2, <1>3, <1>4, <1>5, <1>6 DEF Next

(* However connections come, go and delete each other's subscriptions, the service     *)
(* keeps no subscription whose connection is gone or has forgotten it: the destructor  *)
(* of OpcTcpMessages leaves none behind.                                               *)
THEOREM NoSubscriptionLeftBehind == Spec => []SubscriptionsTracked
<1>1. Init => TypeOK /\ SubscriptionsTracked
  BY InitTypes DEF Init, SubscriptionsTracked
<1>2. (TypeOK /\ SubscriptionsTracked) /\ [Next]_vars => (TypeOK /\ SubscriptionsTracked)'
  BY NextKeepsTypes, NextKeepsTrack
<1> QED  BY <1>1, <1>2, PTL DEF Spec

--------------------------------------------------------------------------------
(* Reads and the connections they are for. *)

LEMMA ConnectionKeepsReads ==
  ASSUME TypeOK, NoReadLeftBehind, NEW c \in Connections, Connection(c)
  PROVE  NoReadLeftBehind'
<1> USE DEF TypeOK, ConnectionTypes, NoReadLeftBehind, failureVars
<1>1. CASE Accept(c)
  BY <1>1 DEF Accept
<1>2. CASE ProcessHeader(c)
  BY <1>2 DEF ProcessHeader
<1>3. CASE ProcessHeaderFails(c)
  BY <1>3 DEF ProcessHeaderFails, ReadIsOver, GoodBye, Destroy
<1>4. CASE ReadingEnds(c)
  BY <1>4 DEF ReadingEnds, ReadIsOver
<1>5. CASE SendFails(c)
  BY <1>5 DEF SendFails, Orphan, GoodBye, Destroy
<1>6. CASE ReadAfterEnd(c)
  BY <1>6 DEF ReadAfterEnd, ReadIsOver
<1> QED  BY <1>1, <1>2, <1>3, <1>4, <1>5, <1>6 DEF Connection

LEMMA ProcessorKeepsReads ==
  ASSUME TypeOK, NoReadLeftBehind, NEW c \in Connections, Processor(c)
  PROVE  NoReadLeftBehind'
<1>1. CASE CloseChannel(c)
  BY <1>1 DEF CloseChannel, ProcessMessage, ReadIsOver, GoodBye, Destroy, TypeOK, ConnectionTypes,
              NoReadLeftBehind
<1>2. CASE ~CloseChannel(c)
  <2>1. ReadNextData(c) /\ c \in Clients
    BY <1>2 DEF Processor, HelloClient, OpenChannel, ProcessRequest, CreateSubscription,
                DeleteSubscriptions, CloseSession, Publish, ProcessMessage
  <2> QED  BY <2>1 DEF ReadNextData, failureVars, TypeOK, ConnectionTypes, NoReadLeftBehind
<1> QED  BY <1>1, <1>2

LEMMA NextKeepsReads ==
  ASSUME TypeOK, NoReadLeftBehind, [Next]_vars
  PROVE  NoReadLeftBehind'
<1>1. ASSUME NEW s \in SubIds, Publishing(s)
      PROVE  UNCHANGED <<Clients, reading, orphans>>
  BY <1>1 DEF Publishing, TimerExpires, PublishResultsStops, PublishResultsNothing,
              PublishResults, ForwardPublishResponse, failureVars
<1>2. CASE Stopping
  BY <1>2 DEF Stopping, ShutdownClears, ShutdownCleared, Stop, StoppingOnly, Destroy, Orphan,
              TypeOK, ConnectionTypes, NoReadLeftBehind
<1>3. CASE UNCHANGED <<Clients, reading, orphans>>
  BY <1>3 DEF NoReadLeftBehind
<1> QED
  BY <1>1, <1>2, <1>3, ConnectionKeepsReads, ProcessorKeepsReads DEF Next, vars, failureVars

(* A connection's own reading, however it ends it, leaves no read whose handler would   *)
(* run without the connection; the reads that are left are those that a failed write,   *)
(* Shutdown or the destruction of the server found pending.                             *)
THEOREM ReadsEndWithConnection == Spec => []NoReadLeftBehind
<1>1. Init => TypeOK /\ NoReadLeftBehind
  BY InitTypes DEF Init, NoReadLeftBehind
<1>2. (TypeOK /\ NoReadLeftBehind) /\ [Next]_vars => (TypeOK /\ NoReadLeftBehind)'
  BY NextKeepsTypes, NextKeepsReads
<1> QED  BY <1>1, <1>2, PTL DEF Spec

--------------------------------------------------------------------------------
(* Requests and answers. *)

\* A numbered message extends what a connection has sent.
LEMMA RespondAppends ==
  ASSUME TypeOK, NEW c \in Connections, NEW request \in 1 .. MaxMessages, Respond(c, request)
  PROVE  /\ SequenceNb'[c] = SequenceNb[c] + 1
         /\ Len(sent'[c]) = Len(sent[c]) + 1
         /\ DOMAIN sent'[c] = DOMAIN sent[c] \cup {Len(sent[c]) + 1}
         /\ \A i \in DOMAIN sent[c] : sent'[c][i] = sent[c][i]
         /\ sent'[c][Len(sent[c]) + 1].number = SequenceNb[c] + 1
         /\ sent'[c][Len(sent[c]) + 1].request = request
         /\ \A d \in Connections : d # c => sent'[d] = sent[d] /\ SequenceNb'[d] = SequenceNb[d]
<1>1. sent \in [Connections -> Seq(Messages)] /\ SequenceNb \in [Connections -> Nat]
  BY DEF TypeOK, ProcessorTypes, Messages
<1> DEFINE m == [number |-> SequenceNb[c] + 1, request |-> request]
<1>2. m \in Messages
  BY <1>1 DEF Messages
<1>3. sent'[c] = Append(sent[c], m) /\ SequenceNb'[c] = SequenceNb[c] + 1
  BY <1>1 DEF Respond
<1>4. \A d \in Connections : d # c => sent'[d] = sent[d] /\ SequenceNb'[d] = SequenceNb[d]
  BY <1>1 DEF Respond
<1> HIDE DEF m
<1>5. sent[c] \in Seq(Messages)
  BY <1>1
<1>6. /\ Len(sent'[c]) = Len(sent[c]) + 1
      /\ \A i \in 1 .. Len(sent[c]) : sent'[c][i] = sent[c][i]
      /\ sent'[c][Len(sent[c]) + 1] = m
      /\ DOMAIN sent'[c] = 1 .. Len(sent[c]) + 1
  BY <1>2, <1>3, <1>5, AppendProperties
<1>7. DOMAIN sent[c] = 1 .. Len(sent[c]) /\ Len(sent[c]) \in Nat
  BY <1>5
<1>8. m.number = SequenceNb[c] + 1 /\ m.request = request
  BY DEF m
<1> QED  BY <1>3, <1>4, <1>6, <1>7, <1>8

LEMMA RespondKeepsNumbering ==
  ASSUME TypeOK, Numbering, NEW c \in Connections, NEW request \in 1 .. MaxMessages,
         Respond(c, request)
  PROVE  Numbering'
<1> SUFFICES ASSUME NEW d \in Connections
             PROVE  /\ SequenceNb'[d] = Len(sent'[d])
                    /\ \A i \in DOMAIN sent'[d] : sent'[d][i].number = i
  BY DEF Numbering
<1>1. CASE d = c
  <2>1. SequenceNb[c] = Len(sent[c])
    BY DEF Numbering
  <2>2. ASSUME NEW i \in DOMAIN sent[c] PROVE sent'[c][i].number = i
    BY RespondAppends DEF Numbering
  <2>3. sent'[c][Len(sent[c]) + 1].number = Len(sent[c]) + 1
    BY <2>1, RespondAppends
  <2>4. /\ DOMAIN sent'[c] = DOMAIN sent[c] \cup {Len(sent[c]) + 1}
        /\ SequenceNb'[c] = SequenceNb[c] + 1 /\ Len(sent'[c]) = Len(sent[c]) + 1
    BY RespondAppends
  <2> QED  BY <1>1, <2>1, <2>2, <2>3, <2>4
<1>2. CASE d # c
  BY <1>2, RespondAppends DEF Numbering
<1> QED  BY <1>1, <1>2

\* The oldest publish request leaves the queue.
LEMMA TailRequests ==
  ASSUME NEW q \in Seq(1 .. MaxMessages), q # << >>
  PROVE  /\ Head(q) = q[1] /\ 1 \in DOMAIN q
         /\ Len(Tail(q)) = Len(q) - 1 /\ Len(q) \in Nat \ {0}
         /\ \A i \in DOMAIN Tail(q) : i + 1 \in DOMAIN q /\ Tail(q)[i] = q[i + 1]
         /\ \A i \in DOMAIN q : i = 1 \/ (i - 1 \in DOMAIN Tail(q) /\ Tail(q)[i - 1] = q[i])
<1>1. Len(q) \in Nat \ {0} /\ DOMAIN q = 1 .. Len(q)
  BY EmptySeq
<1>2. Head(q) = q[1] /\ Len(Tail(q)) = Len(q) - 1 /\ Tail(q) \in Seq(1 .. MaxMessages)
  BY HeadTailProperties
<1>3. DOMAIN Tail(q) = 1 .. Len(q) - 1 /\ \A i \in 1 .. Len(q) - 1 : Tail(q)[i] = q[i + 1]
  BY <1>1, <1>2, HeadTailProperties
<1> QED  BY <1>1, <1>2, <1>3

\* A publish request joins the queue.
LEMMA AppendRequests ==
  ASSUME NEW q \in Seq(1 .. MaxMessages), NEW r \in 1 .. MaxMessages
  PROVE  /\ Len(Append(q, r)) = Len(q) + 1 /\ Len(q) \in Nat
         /\ DOMAIN Append(q, r) = DOMAIN q \cup {Len(q) + 1}
         /\ DOMAIN q = 1 .. Len(q)
         /\ \A i \in DOMAIN q : Append(q, r)[i] = q[i]
         /\ Append(q, r)[Len(q) + 1] = r
<1>1. Len(q) \in Nat /\ DOMAIN q = 1 .. Len(q)
  OBVIOUS
<1>2. /\ Len(Append(q, r)) = Len(q) + 1
      /\ DOMAIN Append(q, r) = 1 .. Len(q) + 1
      /\ \A i \in 1 .. Len(q) : Append(q, r)[i] = q[i]
      /\ Append(q, r)[Len(q) + 1] = r
  BY AppendProperties
<1> QED  BY <1>1, <1>2

LEMMA KindsKeepNumbering ==
  ASSUME TypeOK, Numbering, NEW c \in Connections,
         QuietStep(c) \/ AnswerStep(c) \/ PublishStep(c) \/ ForwardStep(c)
  PROVE  Numbering'
<1>1. CASE QuietStep(c) \/ PublishStep(c)
  BY <1>1 DEF QuietStep, PublishStep, Numbering
<1>2. CASE AnswerStep(c)
  <2>1. received[c] + 1 \in 1 .. MaxMessages
    BY <1>2, OpcTcpAssumption DEF AnswerStep, TypeOK, ConnectionTypes
  <2> QED  BY <1>2, <2>1, RespondKeepsNumbering DEF AnswerStep
<1>3. CASE ForwardStep(c)
  <2>1. CASE c \in Clients /\ PublishRequestQueue[c] # << >>
    <3>1. Head(PublishRequestQueue[c]) \in 1 .. MaxMessages
      BY <2>1, HeadTailProperties DEF TypeOK, ProcessorTypes
    <3> QED  BY <1>3, <2>1, <3>1, RespondKeepsNumbering DEF ForwardStep, ForwardPublishResponse
  <2>2. CASE ~(c \in Clients /\ PublishRequestQueue[c] # << >>)
    BY <1>3, <2>2 DEF ForwardStep, ForwardPublishResponse, Numbering
  <2> QED  BY <2>1, <2>2
<1> QED  BY <1>1, <1>2, <1>3

LEMMA KindsKeepFresh ==
  ASSUME TypeOK, Fresh, NEW c \in Connections,
         QuietStep(c) \/ AnswerStep(c) \/ PublishStep(c) \/ ForwardStep(c)
  PROVE  Fresh'
<1>1. /\ received \in [Connections -> 0 .. MaxMessages] /\ MaxMessages \in Nat
      /\ PublishRequestQueue \in [Connections -> Seq(1 .. MaxMessages)]
      /\ sent \in [Connections -> Seq(Messages)]
  BY OpcTcpAssumption DEF TypeOK, ConnectionTypes, ProcessorTypes, Messages
<1>2. \A d \in Connections : FreshOf(d)
  BY DEF Fresh
<1>3. ASSUME NEW d \in Connections, NEW i \in DOMAIN sent[d]
      PROVE  sent[d][i].request \in 1 .. MaxMessages
  <2>1. sent[d][i] \in Messages
    BY <1>1
  <2> QED  BY <2>1 DEF Messages
<1>4. \A d \in Connections :
        \A i \in DOMAIN PublishRequestQueue[d] : PublishRequestQueue[d][i] \in 1 .. MaxMessages
  BY <1>1
<1>5. \A d \in Connections : received'[d] \in {received[d], received[d] + 1} /\ (d # c => received'[d] = received[d])
  BY <1>1 DEF QuietStep, AnswerStep, PublishStep, ForwardStep
<1> SUFFICES ASSUME NEW d \in Connections PROVE FreshOf(d)'
  BY DEF Fresh
<1>6. CASE sent'[d] = sent[d] /\ PublishRequestQueue'[d] = PublishRequestQueue[d]
  <2>1. received[d] <= received'[d] /\ received[d] \in Nat /\ received'[d] \in Nat
    <3>1. received[d] \in Nat
      BY <1>1
    <3> QED  BY <1>5, <3>1
  <2>2. \A i \in DOMAIN sent[d] : sent[d][i].request <= received'[d]
    BY <1>2, <1>3, <2>1 DEF FreshOf
  <2>3. \A i \in DOMAIN PublishRequestQueue[d] : PublishRequestQueue[d][i] <= received'[d]
    BY <1>2, <1>4, <2>1 DEF FreshOf
  <2> QED  BY <1>2, <1>6, <2>2, <2>3 DEF FreshOf
<1>7. CASE d # c
  BY <1>1, <1>6, <1>7
  DEF QuietStep, AnswerStep, PublishStep, ForwardStep, ForwardPublishResponse, Respond
<1>8. CASE d = c /\ QuietStep(c)
  BY <1>6, <1>8 DEF QuietStep
<1>9. CASE d = c /\ AnswerStep(c)
  <2>1. received[c] + 1 \in 1 .. MaxMessages /\ received'[c] = received[c] + 1
    BY <1>1, <1>9 DEF AnswerStep
  <2>2. Respond(c, received[c] + 1) /\ PublishRequestQueue' = PublishRequestQueue
    BY <1>9 DEF AnswerStep
  <2>3. ASSUME NEW i \in DOMAIN sent'[c] PROVE sent'[c][i].request <= received'[c]
    <3>1. CASE i \in DOMAIN sent[c]
      <4>1. sent'[c][i] = sent[c][i]
        BY <2>1, <2>2, <3>1, RespondAppends
      <4> QED  BY <1>1, <1>2, <1>3, <2>1, <3>1, <4>1 DEF FreshOf
    <3>2. CASE i \notin DOMAIN sent[c]
      <4>1. /\ DOMAIN sent'[c] = DOMAIN sent[c] \cup {Len(sent[c]) + 1}
            /\ sent'[c][Len(sent[c]) + 1].request = received[c] + 1
        BY <2>1, <2>2, RespondAppends
      <4>2. i = Len(sent[c]) + 1
        BY <3>2, <4>1
      <4> QED  BY <2>1, <4>1, <4>2
    <3> QED  BY <3>1, <3>2
  <2>4. \A i \in DOMAIN PublishRequestQueue[c] : PublishRequestQueue[c][i] <= received'[c]
    BY <1>1, <1>2, <1>4, <2>1 DEF FreshOf
  <2> QED  BY <1>2, <1>9, <2>2, <2>3, <2>4 DEF FreshOf
<1>10. CASE d = c /\ PublishStep(c)
  <2> DEFINE q == PublishRequestQueue[c]
             r == received[c] + 1
  <2>1. r \in 1 .. MaxMessages /\ received'[c] = r /\ sent' = sent
    BY <1>1, <1>10 DEF PublishStep
  <2>2. PublishRequestQueue'[c] = Append(q, r) /\ q \in Seq(1 .. MaxMessages)
    BY <1>1, <1>10 DEF PublishStep
  <2>3. \A i \in DOMAIN q : q[i] < r /\ q[i] \in Nat
    BY <1>1, <1>2, <1>4 DEF FreshOf
  <2>4. \A i \in DOMAIN sent[c] : sent[c][i].request <= r
    BY <1>1, <1>2, <1>3 DEF FreshOf
  <2>5. \A i, j \in DOMAIN q : q[i] = q[j] => i = j
    BY <1>2 DEF FreshOf
  <2> HIDE DEF q, r
  <2>6. \A i \in DOMAIN Append(q, r) : Append(q, r)[i] <= r
    BY <2>1, <2>2, <2>3, AppendRequests
  <2>7. \A i, j \in DOMAIN Append(q, r) : Append(q, r)[i] = Append(q, r)[j] => i = j
    BY <2>1, <2>2, <2>3, <2>5, AppendRequests
  <2> QED  BY <1>10, <2>1, <2>2, <2>4, <2>6, <2>7 DEF FreshOf
<1>11. CASE d = c /\ ForwardStep(c)
  <2>1. CASE ~(c \in Clients /\ PublishRequestQueue[c] # << >>)
    BY <1>6, <1>11, <2>1 DEF ForwardStep, ForwardPublishResponse
  <2>2. CASE c \in Clients /\ PublishRequestQueue[c] # << >>
    <3> DEFINE q == PublishRequestQueue[c]
    <3>1. Respond(c, Head(q)) /\ received' = received
      BY <1>11, <2>2 DEF ForwardStep, ForwardPublishResponse
    <3>2. PublishRequestQueue'[c] = Tail(q) /\ q \in Seq(1 .. MaxMessages)
      BY <1>1, <1>11, <2>2 DEF ForwardStep, ForwardPublishResponse
    <3>3. Head(q) \in 1 .. MaxMessages /\ Head(q) <= received[c]
      BY <1>2, <1>4, <2>2, <3>2, TailRequests DEF FreshOf
    <3>4. ASSUME NEW i \in DOMAIN sent'[c] PROVE sent'[c][i].request <= received[c]
      <4>1. CASE i \in DOMAIN sent[c]
        BY <1>2, <3>1, <3>3, <4>1, RespondAppends DEF FreshOf
      <4>2. CASE i \notin DOMAIN sent[c]
        <5>1. /\ DOMAIN sent'[c] = DOMAIN sent[c] \cup {Len(sent[c]) + 1}
              /\ sent'[c][Len(sent[c]) + 1].request = Head(q)
          BY <3>1, <3>3, RespondAppends
        <5>2. i = Len(sent[c]) + 1
          BY <4>2, <5>1
        <5> QED  BY <3>3, <5>1, <5>2
      <4> QED  BY <4>1, <4>2
    <3>5. (\A i \in DOMAIN q : q[i] <= received[c]) /\ \A i, j \in DOMAIN q : q[i] = q[j] => i = j
      BY <1>2 DEF FreshOf
    <3>6. q # << >>
      BY <2>2
    <3> HIDE DEF q
    <3>7. DOMAIN Tail(q) \subseteq Nat
      BY <3>2, <3>6, HeadTailProperties
    <3>8. /\ \A i \in DOMAIN Tail(q) : Tail(q)[i] <= received[c]
          /\ \A i, j \in DOMAIN Tail(q) : Tail(q)[i] = Tail(q)[j] => i = j
      BY <3>2, <3>5, <3>6, <3>7, TailRequests
    <3> QED  BY <1>11, <3>1, <3>2, <3>4, <3>8 DEF FreshOf
  <2> QED  BY <2>1, <2>2
<1> QED  BY <1>7, <1>8, <1>9, <1>10, <1>11

LEMMA KindsKeepCounts ==
  ASSUME TypeOK, TokensAreOwn, CountCovered, NEW c \in Connections,
         QuietStep(c) \/ AnswerStep(c) \/ PublishStep(c) \/ ForwardStep(c)
  PROVE  CountCovered' /\ unanswerable' = unanswerable
<1> DEFINE Count(d) == PublishRequestQueues[Token[d]]
           Covered(d) == /\ d \in Clients => Count(d) <= Len(PublishRequestQueue[d])
                         /\ received[d] = 0 => Count(d) = 0
<1>1. /\ received \in [Connections -> 0 .. MaxMessages]
      /\ PublishRequestQueue \in [Connections -> Seq(1 .. MaxMessages)]
      /\ PublishRequestQueues \in [Tokens -> Nat]
      /\ Token \in [Connections -> Tokens] /\ MaxMessages \in Nat /\ PublishLimit \in Nat
      /\ Clients \subseteq Connections
  BY OpcTcpAssumption DEF TypeOK, ConnectionTypes, ProcessorTypes, ServiceTypes
<1>2. \A d \in Connections :
        /\ Covered(d) /\ Count(d) \in Nat /\ received[d] \in Nat
        /\ PublishRequestQueue[d] \in Seq(1 .. MaxMessages) /\ Len(PublishRequestQueue[d]) \in Nat
        /\ d # c => Token[d] # Token[c]
  BY <1>1 DEF CountCovered, TokensAreOwn
<1>3. CountCovered' <=> \A d \in Connections : Covered(d)'
  BY DEF CountCovered
<1>4. CASE QuietStep(c)
  BY <1>1, <1>2, <1>3, <1>4 DEF QuietStep
<1>5. CASE AnswerStep(c)
  BY <1>1, <1>2, <1>3, <1>5 DEF AnswerStep
<1>6. CASE PublishStep(c)
  <2>1. received[c] + 1 \in 1 .. MaxMessages
    BY <1>1, <1>6 DEF PublishStep
  <2>2. /\ PublishRequestQueue'[c] = Append(PublishRequestQueue[c], received[c] + 1)
        /\ received'[c] = received[c] + 1 /\ Count(c)' = Counted(Count(c))
        /\ Clients' = Clients
    BY <1>1, <1>6 DEF PublishStep
  <2>3. Len(PublishRequestQueue'[c]) = Len(PublishRequestQueue[c]) + 1
    BY <1>2, <2>1, <2>2, AppendRequests
  <2>4. Count(c)' \in Nat /\ Count(c)' <= Count(c) + 1
    BY <1>1, <1>2, <2>2 DEF Counted
  <2>5. Covered(c)'
    BY <1>2, <2>2, <2>3, <2>4
  <2>6. ASSUME NEW d \in Connections, d # c PROVE Covered(d)'
    BY <1>1, <1>2, <1>6, <2>6 DEF PublishStep
  <2> QED  BY <1>3, <1>6, <2>5, <2>6 DEF PublishStep
<1>7. CASE ForwardStep(c)
  <2>1. /\ Count(c) > 0 /\ Count(c)' = Count(c) - 1 /\ received' = received /\ Clients' = Clients
    BY <1>1, <1>7 DEF ForwardStep
  <2>2. ~(c \in Clients /\ PublishRequestQueue[c] = << >>)
    BY <1>2, <2>1, EmptySeq
  <2>3. unanswerable' = unanswerable
    BY <1>7, <2>2 DEF ForwardStep, ForwardPublishResponse, failureVars
  <2>4. Covered(c)'
    <3>1. CASE c \notin Clients
      BY <1>2, <2>1, <3>1
    <3>2. CASE c \in Clients
      <4>1. PublishRequestQueue[c] # << >> /\ PublishRequestQueue'[c] = Tail(PublishRequestQueue[c])
        BY <1>1, <1>7, <2>2, <3>2 DEF ForwardStep, ForwardPublishResponse
      <4>2. Len(PublishRequestQueue'[c]) = Len(PublishRequestQueue[c]) - 1
        BY <1>2, <4>1, TailRequests
      <4> QED  BY <1>2, <2>1, <4>2
    <3> QED  BY <3>1, <3>2
  <2>5. ASSUME NEW d \in Connections, d # c PROVE Covered(d)'
    <3>1. Count(d)' = Count(d) /\ PublishRequestQueue'[d] = PublishRequestQueue[d]
      BY <1>1, <1>2, <1>7, <2>5 DEF ForwardStep, ForwardPublishResponse
    <3> QED  BY <1>2, <2>1, <3>1
  <2> QED  BY <1>3, <2>3, <2>4, <2>5
<1> QED  BY <1>4, <1>5, <1>6, <1>7 DEF QuietStep, AnswerStep, PublishStep

LEMMA InitInv ==
  ASSUME Init
  PROVE  Inv
<1>1. TypeOK /\ SubscriptionsTracked
  BY InitTypes DEF Init, SubscriptionsTracked
<1>2. Numbering /\ Fresh
  BY EmptySeq DEF Init, Numbering, Fresh, FreshOf
<1>3. CountCovered /\ unanswerable = 0
  BY EmptySeq, OpcTcpAssumption DEF Init, CountCovered
<1> QED  BY <1>1, <1>2, <1>3 DEF Inv

LEMMA NextKeepsInv ==
  ASSUME Inv, [Next]_vars
  PROVE  Inv'
<1>1. TypeOK' /\ SubscriptionsTracked'
  BY NextKeepsTypes, NextKeepsTrack DEF Inv
<1>2. CASE UNCHANGED <<Clients, received, SequenceNb, PublishRequestQueue, sent,
                       PublishRequestQueues, unanswerable>>
  BY <1>1, <1>2 DEF Inv, Numbering, Fresh, FreshOf, CountCovered, TokensAreOwn
<1>3. CASE KindOfStep
  <2>1. PICK c \in Connections :
          QuietStep(c) \/ AnswerStep(c) \/ PublishStep(c) \/ ForwardStep(c)
    BY <1>3 DEF KindOfStep
  <2>2. Numbering' /\ Fresh'
    BY <2>1, KindsKeepNumbering, KindsKeepFresh DEF Inv
  <2>3. ASSUME TokensAreOwn PROVE CountCovered' /\ unanswerable' = 0
    BY <2>1, <2>3, KindsKeepCounts DEF Inv
  <2>4. TokensAreOwn' <=> TokensAreOwn
    BY DEF TokensAreOwn
  <2> QED  BY <1>1, <2>2, <2>3, <2>4 DEF Inv
<1> QED  BY <1>2, <1>3, StepsHaveKinds DEF Inv

(* The inductive invariant: answers are numbered by their position, requests are new,  *)
(* and the service's count of a client's publish requests is covered by its queue.     *)
THEOREM Invariance == Spec => []Inv
BY InitInv, NextKeepsInv, PTL DEF Spec

(* If every client sends its own token, ForwardPublishResponse never finds the queue   *)
(* of its connection empty: the limit of 100 in the service only makes its count       *)
(* smaller than the queue, and a connection starts with both at zero.                  *)
THEOREM RequestsForNotifications == Spec => []NotificationsFindRequests
<1>1. Inv => NotificationsFindRequests
  BY DEF Inv, NotificationsFindRequests
<1> QED  BY <1>1, Invariance, PTL

--------------------------------------------------------------------------------
(* The connections implement Exchange. *)

\* The requests of the oldest-first queue, as a set.
LEMMA QueueAppend ==
  ASSUME NEW q \in Seq(1 .. MaxMessages), NEW r \in 1 .. MaxMessages
  PROVE  {Append(q, r)[i] : i \in DOMAIN Append(q, r)} = {q[i] : i \in DOMAIN q} \cup {r}
BY AppendRequests

LEMMA QueueTail ==
  ASSUME NEW q \in Seq(1 .. MaxMessages), q # << >>,
         \A i, j \in DOMAIN q : q[i] = q[j] => i = j
  PROVE  /\ Head(q) \in {q[i] : i \in DOMAIN q}
         /\ {Tail(q)[i] : i \in DOMAIN Tail(q)} = {q[i] : i \in DOMAIN q} \ {Head(q)}
<1>1. /\ Head(q) = q[1] /\ 1 \in DOMAIN q
      /\ \A i \in DOMAIN Tail(q) : i + 1 \in DOMAIN q /\ Tail(q)[i] = q[i + 1]
      /\ \A i \in DOMAIN q : i = 1 \/ (i - 1 \in DOMAIN Tail(q) /\ Tail(q)[i - 1] = q[i])
  BY TailRequests
<1>2. DOMAIN Tail(q) \subseteq Nat \ {0}
  BY HeadTailProperties
<1>3. ASSUME NEW i \in DOMAIN Tail(q)
      PROVE  Tail(q)[i] \in {q[j] : j \in DOMAIN q} \ {Head(q)}
  <2>1. i + 1 # 1 /\ i + 1 \in DOMAIN q /\ Tail(q)[i] = q[i + 1]
    BY <1>1, <1>2
  <2> QED  BY <1>1, <2>1
<1>4. ASSUME NEW i \in DOMAIN q, q[i] # Head(q)
      PROVE  q[i] \in {Tail(q)[j] : j \in DOMAIN Tail(q)}
  BY <1>1, <1>4
<1> QED  BY <1>1, <1>3, <1>4

\* A numbered message is the next answer of Exchange.
LEMMA RespondIsNumbered ==
  ASSUME TypeOK, Numbering, NEW c \in Connections, NEW request, Respond(c, request)
  PROVE  Promise!Numbered(c, request)
<1>1. sent' = [sent EXCEPT ![c] = Append(@, [number |-> SequenceNb[c] + 1, request |-> request])]
  BY DEF Respond
<1>2. SequenceNb[c] = Len(sent[c])
  BY DEF Numbering
<1> QED  BY <1>1, <1>2 DEF Promise!Numbered

LEMMA NextIsNew ==
  ASSUME TypeOK, Fresh, NEW c \in Connections
  PROVE  ~Promise!Asked(c, received[c] + 1)
<1>1. received[c] \in Nat
  BY DEF TypeOK, ConnectionTypes
<1>2. ASSUME NEW i \in DOMAIN sent[c] PROVE sent[c][i].request # received[c] + 1
  BY <1>1 DEF Fresh, FreshOf
<1>3. received[c] + 1 \notin QueuedRequests(c)
  BY <1>1 DEF Fresh, FreshOf, QueuedRequests
<1> QED  BY <1>2, <1>3 DEF Promise!Asked

LEMMA AnswerStepRefines ==
  ASSUME Inv, NEW c \in Connections, AnswerStep(c)
  PROVE  Promise!Next
<1>1. received[c] + 1 \in 1 .. MaxMessages
  BY OpcTcpAssumption DEF AnswerStep, Inv, TypeOK, ConnectionTypes
<1>2. Promise!Numbered(c, received[c] + 1)
  BY RespondIsNumbered DEF AnswerStep, Inv
<1>3. \A d \in Connections : QueuedRequests(d)' = QueuedRequests(d)
  BY DEF AnswerStep, QueuedRequests
<1>4. Promise!AnswerAtOnce(c, received[c] + 1)
  BY <1>2, <1>3, NextIsNew DEF Promise!AnswerAtOnce, Inv
<1> QED  BY <1>1, <1>4 DEF Promise!Next

LEMMA PublishStepRefines ==
  ASSUME Inv, NEW c \in Connections, PublishStep(c)
  PROVE  Promise!Next
<1> DEFINE r == received[c] + 1
<1>1. r \in 1 .. MaxMessages
  BY OpcTcpAssumption DEF PublishStep, Inv, TypeOK, ConnectionTypes
<1>2. PublishRequestQueue \in [Connections -> Seq(1 .. MaxMessages)]
  BY DEF Inv, TypeOK, ProcessorTypes
<1>3. /\ PublishRequestQueue'[c] = Append(PublishRequestQueue[c], r)
      /\ \A d \in Connections : d # c => PublishRequestQueue'[d] = PublishRequestQueue[d]
      /\ sent' = sent
  BY <1>2 DEF PublishStep
<1>4. QueuedRequests(c)' = QueuedRequests(c) \cup {r}
  BY <1>1, <1>2, <1>3, QueueAppend DEF QueuedRequests
<1>5. \A d \in Connections : d # c => QueuedRequests(d)' = QueuedRequests(d)
  BY <1>3 DEF QueuedRequests
<1>6. ~Promise!Asked(c, r)
  BY NextIsNew DEF Inv
<1> HIDE DEF r
<1>7. Promise!Take(c, r)
  BY <1>3, <1>4, <1>5, <1>6 DEF Promise!Take
<1> QED  BY <1>1, <1>7 DEF Promise!Next

LEMMA ForwardStepRefines ==
  ASSUME Inv, NEW c \in Connections, ForwardStep(c)
  PROVE  Promise!Next \/ UNCHANGED <<PublishRequestQueue, sent>>
<1>1. CASE ~(c \in Clients /\ PublishRequestQueue[c] # << >>)
  BY <1>1 DEF ForwardStep, ForwardPublishResponse
<1>2. CASE c \in Clients /\ PublishRequestQueue[c] # << >>
  <2> DEFINE q == PublishRequestQueue[c]
  <2>1. PublishRequestQueue \in [Connections -> Seq(1 .. MaxMessages)]
    BY DEF Inv, TypeOK, ProcessorTypes
  <2>2. q \in Seq(1 .. MaxMessages) /\ q # << >> /\ \A i, j \in DOMAIN q : q[i] = q[j] => i = j
    BY <1>2, <2>1 DEF Inv, Fresh, FreshOf
  <2>3. /\ Respond(c, Head(q))
        /\ PublishRequestQueue' = [PublishRequestQueue EXCEPT ![c] = Tail(q)]
    BY <1>2 DEF ForwardStep, ForwardPublishResponse
  <2>4. PublishRequestQueue'[c] = Tail(q)
    BY <2>1, <2>3
  <2>5. \A d \in Connections : d # c => PublishRequestQueue'[d] = PublishRequestQueue[d]
    BY <2>1, <2>3
  <2>6. Promise!Numbered(c, Head(q))
    BY <2>3, RespondIsNumbered DEF Inv
  <2>7. QueuedRequests(c) = {q[i] : i \in DOMAIN q}
    BY DEF QueuedRequests
  <2>8. QueuedRequests(c)' = {Tail(q)[i] : i \in DOMAIN Tail(q)}
    BY <2>4 DEF QueuedRequests
  <2>9. \A d \in Connections : d # c => QueuedRequests(d)' = QueuedRequests(d)
    BY <2>5 DEF QueuedRequests
  <2>10. Head(q) \in 1 .. MaxMessages
    BY <2>2, HeadTailProperties
  <2> HIDE DEF q
  <2>11. /\ Head(q) \in QueuedRequests(c)
         /\ QueuedRequests(c)' = QueuedRequests(c) \ {Head(q)}
    BY <2>2, <2>7, <2>8, QueueTail
  <2>12. Promise!Answer(c, Head(q))
    BY <2>6, <2>9, <2>11 DEF Promise!Answer
  <2> QED  BY <2>10, <2>12 DEF Promise!Next
<1> QED  BY <1>1, <1>2

(* The connections implement Exchange: for any number of connections, messages and     *)
(* subscriptions and any tokens, a request is answered at most once and only on its    *)
(* own connection, and the sequence numbers of answers are consecutive.                *)
THEOREM ImplementsExchange == Spec => ExchangeKept
<1>1. Init => Promise!Init
  BY DEF Init, Promise!Init, QueuedRequests
<1>2. Inv /\ [Next]_vars =>
        [Promise!Next]_<<[c \in Connections |-> QueuedRequests(c)], sent>>
  <2> SUFFICES ASSUME Inv, [Next]_vars
               PROVE  Promise!Next \/ UNCHANGED <<[c \in Connections |-> QueuedRequests(c)], sent>>
    OBVIOUS
  <2>1. CASE UNCHANGED <<PublishRequestQueue, sent>>
    BY <2>1 DEF QueuedRequests
  <2>2. CASE KindOfStep
    <3>1. PICK c \in Connections :
            QuietStep(c) \/ AnswerStep(c) \/ PublishStep(c) \/ ForwardStep(c)
      BY <2>2 DEF KindOfStep
    <3>2. CASE QuietStep(c)
      BY <2>1, <3>2 DEF QuietStep
    <3> QED
      BY <2>1, <3>1, <3>2, AnswerStepRefines, PublishStepRefines, ForwardStepRefines
  <2> QED  BY <2>1, <2>2, StepsHaveKinds DEF Inv
<1> QED  BY <1>1, <1>2, Invariance, PTL DEF Spec, ExchangeKept, Promise!Spec

--------------------------------------------------------------------------------
(* What Exchange promises, from its own steps alone. *)

Answers == [number : Nat, request : 1 .. MaxMessages]

\* What is outstanding and what was sent on one connection.
AnsweredOnceOf(open, list) ==
  /\ \A i \in DOMAIN list : list[i].number = i /\ list[i].request \in (1 .. MaxMessages) \ open
  /\ \A i, j \in DOMAIN list : list[i].request = list[j].request => i = j

ExchangeInv ==
  /\ sent \in [Connections -> Seq(Answers)]
  /\ \A c \in Connections : AnsweredOnceOf(QueuedRequests(c), sent[c])

LEMMA AnsweredNext ==
  ASSUME NEW list \in Seq(Answers), NEW open, NEW r \in 1 .. MaxMessages,
         AnsweredOnceOf(open, list), \A i \in DOMAIN list : list[i].request # r
  PROVE  LET next == Append(list, [number |-> Len(list) + 1, request |-> r])
         IN  next \in Seq(Answers) /\ AnsweredOnceOf(open \ {r}, next)
<1> DEFINE answer == [number |-> Len(list) + 1, request |-> r]
           next == Append(list, answer)
<1>1. answer \in Answers /\ Len(list) \in Nat
  BY DEF Answers
<1>2. answer.number = Len(list) + 1 /\ answer.request = r
  OBVIOUS
<1> HIDE DEF answer
<1>3. /\ next \in Seq(Answers) /\ DOMAIN list = 1 .. Len(list) /\ DOMAIN next = 1 .. Len(list) + 1
      /\ next[Len(list) + 1] = answer
      /\ \A i \in DOMAIN list : next[i] = list[i]
  BY <1>1
<1> HIDE DEF next
<1>4. \A i \in DOMAIN next : i \in DOMAIN list \/ i = Len(list) + 1
  BY <1>1, <1>3
<1>5. \A i \in DOMAIN next :
        next[i].number = i /\ next[i].request \in (1 .. MaxMessages) \ (open \ {r})
  BY <1>2, <1>3, <1>4 DEF AnsweredOnceOf
<1>6. \A i, j \in DOMAIN next : next[i].request = next[j].request => i = j
  BY <1>2, <1>3, <1>4 DEF AnsweredOnceOf
<1> QED  BY <1>3, <1>5, <1>6 DEF AnsweredOnceOf, next, answer

LEMMA ExchangeNext ==
  ASSUME ExchangeInv, Promise!Next
  PROVE  ExchangeInv'
<1>1. PICK c \in Connections, r \in 1 .. MaxMessages :
        Promise!Take(c, r) \/ Promise!AnswerAtOnce(c, r) \/ Promise!Answer(c, r)
  BY DEF Promise!Next
<1>2. sent[c] \in Seq(Answers) /\ AnsweredOnceOf(QueuedRequests(c), sent[c])
  BY DEF ExchangeInv
<1>3. CASE Promise!Take(c, r)
  <2>1. /\ \A i \in DOMAIN sent[c] : sent[c][i].request # r
        /\ \A d \in Connections : d # c => QueuedRequests(d)' = QueuedRequests(d)
        /\ QueuedRequests(c)' = QueuedRequests(c) \cup {r} /\ sent' = sent
    BY <1>3 DEF Promise!Take, Promise!Asked
  <2>2. AnsweredOnceOf(QueuedRequests(c)', sent[c])
    BY <1>2, <2>1 DEF AnsweredOnceOf
  <2> QED  BY <2>1, <2>2 DEF ExchangeInv, AnsweredOnceOf
<1>4. CASE Promise!AnswerAtOnce(c, r) \/ Promise!Answer(c, r)
  <2> DEFINE next == Append(sent[c], [number |-> Len(sent[c]) + 1, request |-> r])
  <2>1. /\ \A i \in DOMAIN sent[c] : sent[c][i].request # r
        /\ \A d \in Connections : d # c => QueuedRequests(d)' = QueuedRequests(d)
        /\ QueuedRequests(c)' = QueuedRequests(c) \ {r}
        /\ sent' = [sent EXCEPT ![c] = next]
    <3>1. CASE Promise!AnswerAtOnce(c, r)
      BY <3>1 DEF Promise!AnswerAtOnce, Promise!Asked, Promise!Numbered
    <3>2. CASE Promise!Answer(c, r)
      <4>1. /\ r \in QueuedRequests(c) /\ sent' = [sent EXCEPT ![c] = next]
            /\ [d \in Connections |-> QueuedRequests(d)'] =
                 [[d \in Connections |-> QueuedRequests(d)] EXCEPT ![c] = @ \ {r}]
        BY <3>2 DEF Promise!Answer, Promise!Numbered
      <4>2. \A i \in DOMAIN sent[c] : sent[c][i].request # r
        BY <1>2, <4>1 DEF AnsweredOnceOf
      <4> HIDE DEF next
      <4>3. /\ \A d \in Connections : d # c => QueuedRequests(d)' = QueuedRequests(d)
            /\ QueuedRequests(c)' = QueuedRequests(c) \ {r}
        BY <4>1
      <4> QED  BY <4>1, <4>2, <4>3
    <3> QED  BY <1>4, <3>1, <3>2
  <2>2. next \in Seq(Answers) /\ AnsweredOnceOf(QueuedRequests(c) \ {r}, next)
    BY <1>2, <2>1, AnsweredNext
  <2> HIDE DEF next
  <2>3. /\ sent' \in [Connections -> Seq(Answers)] /\ sent'[c] = next
        /\ \A d \in Connections : d # c => sent'[d] = sent[d]
    BY <2>1, <2>2 DEF ExchangeInv
  <2>4. ASSUME NEW d \in Connections
        PROVE  AnsweredOnceOf(QueuedRequests(d)', sent'[d])
    BY <2>1, <2>2, <2>3 DEF ExchangeInv
  <2> QED  BY <2>3, <2>4 DEF ExchangeInv, AnsweredOnceOf
<1> QED  BY <1>1, <1>3, <1>4

(* Of Exchange alone, whatever implements it: an answer's number is its place, no       *)
(* request is answered twice and none that was answered is outstanding.                 *)
LEMMA ExchangeAnswersOnce == ExchangeKept => []Promise!AnsweredOnce
<1>1. Promise!Init => ExchangeInv
  BY DEF Promise!Init, ExchangeInv, AnsweredOnceOf
<1>2. ExchangeInv /\ [Promise!Next]_<<[c \in Connections |-> QueuedRequests(c)], sent>>
        => ExchangeInv'
  <2> SUFFICES ASSUME ExchangeInv, UNCHANGED <<[c \in Connections |-> QueuedRequests(c)], sent>>
               PROVE  ExchangeInv'
    BY ExchangeNext
  <2>1. sent' = sent /\ \A c \in Connections : QueuedRequests(c)' = QueuedRequests(c)
    OBVIOUS
  <2> QED  BY <2>1 DEF ExchangeInv, AnsweredOnceOf
<1>3. ExchangeInv => Promise!AnsweredOnce
  BY DEF ExchangeInv, AnsweredOnceOf, Promise!AnsweredOnce
<1> QED  BY <1>1, <1>2, <1>3, PTL DEF ExchangeKept, Promise!Spec

(* Hence the connections: no client of the server is answered twice for a request, or   *)
(* given a number that is not the next (OpcTcpMessages, ForwardPublishResponse).        *)
COROLLARY EveryRequestAnsweredOnce == Spec => []Promise!AnsweredOnce
  BY ImplementsExchange, ExchangeAnswersOnce, PTL

================================================================================
