------------------------------ MODULE OpcTcpServer ------------------------------
(* The server's side of a connection: OpcTcpServer accepts connections and owns them,  *)
(* OpcTcpConnection reads messages and OpcTcpMessages answers them, at once or, for    *)
(* publish requests, when a subscription has something to tell. The io_service has     *)
(* one thread, the default of AsioAddon: an action is a handler that it runs, and the  *)
(* interleavings are the orders in which handlers become ready, and those with the     *)
(* steps of the application's thread that shuts the server down. Of the subscription   *)
(* service there is what a connection meets: who is told, the count of publish         *)
(* requests, and timers. SubscriptionService has the rest, with more threads.          *)
EXTENDS Naturals, Sequences, FiniteSets

CONSTANTS
  Connections,        \* every connection that is ever accepted
  Tokens,             \* authentication tokens of sessions
  Token,              \* the token that the client of a connection sends
  PublishLimit,       \* most publish requests counted for a token: 100 in the code
  MaxMessages,        \* bound on the messages of a connection
  MaxSubscriptions    \* bound on the subscriptions ever created

ASSUME OpcTcpAssumption ==
  /\ Token \in [Connections -> Tokens]
  /\ PublishLimit \in Nat /\ MaxMessages \in Nat /\ MaxSubscriptions \in Nat

VARIABLES
  stopping,              \* how far the application's thread has shut the server down
  Clients,               \* OpcTcpServer::Clients, the connections that exist
  reading,               \* what the read is for whose handler has not run yet
  SequenceNb, PublishRequestQueue, Subscriptions,   \* OpcTcpMessages
  SubscriptionsMap, Callback, Timer, LastSubscriptionId,     \* the service
  PublishRequestQueues,  \* the service's count of requests of a token
  received,              \* history: messages a connection has received
  sent,                  \* history: numbered messages a connection has sent
  unanswerable,          \* history: notifications that found no publish request
  stale,                 \* history: callbacks to connections that no longer exist
  orphans                \* history: reads pending when others ended their connection

connectionVars == <<SequenceNb, PublishRequestQueue, Subscriptions, sent>>
serviceVars    == <<SubscriptionsMap, Callback, Timer, LastSubscriptionId, PublishRequestQueues>>
failureVars    == <<unanswerable, stale, orphans>>
vars == <<stopping, Clients, reading, connectionVars, serviceVars, received, failureVars>>

(* LastSubscriptionId starts at 2. *)
SubIds == 3 .. 2 + MaxSubscriptions

TimerStates == {"none", "armed", "expired"}

Init ==
  /\ stopping = "no"
  /\ Clients = {}
  /\ reading = [c \in Connections |-> "nothing"]
  /\ SequenceNb = [c \in Connections |-> 0]
  /\ PublishRequestQueue = [c \in Connections |-> << >>]
  /\ Subscriptions = [c \in Connections |-> {}]
  /\ sent = [c \in Connections |-> << >>]
  /\ SubscriptionsMap = {}
  /\ Callback = [s \in SubIds |-> {}]
  /\ Timer = [s \in SubIds |-> "none"]
  /\ LastSubscriptionId = 2
  /\ PublishRequestQueues = [t \in Tokens |-> 0]
  /\ received = [c \in Connections |-> 0]
  /\ unanswerable = 0
  /\ stale = {}
  /\ orphans = {}

--------------------------------------------------------------------------------
(* Connections.                                                                      *)

(* The service stops a subscription: its timer is cancelled, but a handler that is     *)
(* already in the io_service's queue stays there.                                      *)
Cancelled(subs) ==
  [s \in SubIds |-> IF s \in subs /\ Timer[s] = "armed" THEN "none" ELSE Timer[s]]

DeleteFromService(subs) ==
  /\ Timer' = Cancelled(subs \cap SubscriptionsMap)
  /\ SubscriptionsMap' = SubscriptionsMap \ subs

SubscriptionsOf(cs) == UNION {Subscriptions[c] : c \in cs}

\* Faulty: the subscriptions are left to the service.
FaultyDestroy(cs) ==
  /\ Clients' = Clients \ cs
  /\ Subscriptions' = [c \in Connections |-> IF c \in cs THEN {} ELSE Subscriptions[c]]
  /\ UNCHANGED <<Timer, SubscriptionsMap>>

(* The end of connections: the set held their only owner, so that the destructor       *)
(* of OpcTcpMessages deletes their subscriptions. Handlers of reads and writes hold a  *)
(* bare pointer and are still to run, with the error of an aborted operation or with   *)
(* the result that they were queued with.                                              *)
Destroy(cs) ==
  /\ Clients' = Clients \ cs
  /\ Subscriptions' = [c \in Connections |-> IF c \in cs THEN {} ELSE Subscriptions[c]]
  /\ DeleteFromService(SubscriptionsOf(cs))

GoodBye(c) ==
  /\ Destroy({c})
  /\ UNCHANGED <<stopping, SequenceNb, PublishRequestQueue, sent, Callback,
                 LastSubscriptionId, PublishRequestQueues, unanswerable, stale>>

(* The handler of the pending read runs and starts no other. *)
ReadIsOver(c) == reading' = [reading EXCEPT ![c] = "nothing"]

Accept(c) ==
  /\ stopping # "stopped"
  /\ c \notin Clients /\ received[c] = 0 /\ reading[c] = "nothing"
  /\ Clients' = Clients \cup {c}
  /\ reading' = [reading EXCEPT ![c] = "header"]
  /\ UNCHANGED <<stopping, connectionVars, serviceVars, received, failureVars>>

ProcessHeader(c) ==
  /\ c \in Clients /\ reading[c] = "header"
  /\ received[c] < MaxMessages
  /\ reading' = [reading EXCEPT ![c] = "body"]
  /\ UNCHANGED <<stopping, Clients, connectionVars, serviceVars, received, failureVars>>

ProcessHeaderFails(c) ==
  /\ c \in Clients /\ reading[c] = "header"
  /\ ReadIsOver(c)
  /\ GoodBye(c)
  /\ UNCHANGED <<received, orphans>>

(* An error while the body is read, or a header that cannot be decoded: nothing is     *)
(* read any more, and nobody says good bye.                                            *)
ReadingEnds(c) ==
  /\ c \in Clients /\ reading[c] # "nothing"
  /\ ReadIsOver(c)
  /\ UNCHANGED <<stopping, Clients, connectionVars, serviceVars, received, failureVars>>

Orphan(cs) == orphans' = orphans \cup {c \in cs : reading[c] # "nothing"}

(* The completion of a write that has failed; which writes are pending is left open.   *)
SendFails(c) ==
  /\ c \in Clients /\ received[c] > 0
  /\ GoodBye(c)
  /\ Orphan({c})
  /\ UNCHANGED <<reading, received>>

(* The handler of a read runs although its connection is gone. What it does with the   *)
(* freed memory, where it looks for a connection to say good bye to, is undefined and  *)
(* left out, as are the handlers of writes, which do the same.                         *)
ReadAfterEnd(c) ==
  /\ c \notin Clients /\ reading[c] # "nothing"
  /\ ReadIsOver(c)
  /\ orphans' = orphans \ {c}
  /\ UNCHANGED <<stopping, Clients, connectionVars, serviceVars, received, unanswerable, stale>>

--------------------------------------------------------------------------------
(* Stopping, on the application's thread while handlers run.                         *)

StoppingOnly == UNCHANGED <<reading, SequenceNb, PublishRequestQueue, sent,
                            Callback, LastSubscriptionId, PublishRequestQueues, received,
                            unanswerable, stale>>

(* Shutdown clears the set, and with it ends one connection after the other. That it   *)
(* has begun makes no difference to the handlers.                                      *)
ShutdownClears(c) ==
  /\ stopping = "no" /\ c \in Clients
  /\ Destroy({c})
  /\ Orphan({c})
  /\ UNCHANGED stopping
  /\ StoppingOnly

ShutdownCleared ==
  /\ stopping = "no" /\ Clients = {}
  /\ stopping' = "cleared"
  /\ UNCHANGED <<Clients, Subscriptions, SubscriptionsMap, Timer, orphans>>
  /\ StoppingOnly

(* ... and closes the acceptor, so that the pending accept gets an error and the next   *)
(* one throws. The addon then drops the server, and with it the connections that were  *)
(* accepted after the set was cleared. What runs between the two could as well run     *)
(* before.                                                                             *)
Stop ==
  /\ stopping = "cleared"
  /\ stopping' = "stopped"
  /\ Destroy(Clients)
  /\ Orphan(Clients)
  /\ StoppingOnly

--------------------------------------------------------------------------------
(* Messages. The n-th message of a connection is its request n.                      *)

ProcessMessage(c) ==
  /\ c \in Clients /\ reading[c] = "body"
  /\ received' = [received EXCEPT ![c] = @ + 1]

ReadNextData(c) ==
  /\ reading' = [reading EXCEPT ![c] = "header"]
  /\ UNCHANGED <<stopping, Clients, failureVars>>

(* A numbered message: the number is the next one of the connection. *)
Respond(c, request) ==
  /\ SequenceNb' = [SequenceNb EXCEPT ![c] = @ + 1]
  /\ sent' = [sent EXCEPT ![c] = Append(@, [number |-> SequenceNb[c] + 1, request |-> request])]

HelloClient(c) ==
  /\ ProcessMessage(c)
  /\ ReadNextData(c)
  /\ UNCHANGED <<connectionVars, serviceVars>>

OpenChannel(c) ==
  /\ ProcessMessage(c)
  /\ ReadNextData(c)
  /\ Respond(c, received[c] + 1)
  /\ UNCHANGED <<PublishRequestQueue, Subscriptions, serviceVars>>

\* Faulty: the next message is waited for all the same.
FaultyCloseChannel(c) ==
  /\ ProcessMessage(c)
  /\ reading' = [reading EXCEPT ![c] = "header"]
  /\ GoodBye(c)
  /\ UNCHANGED orphans

(* The message that closes the channel. One that cannot be decoded, has another type   *)
(* or asks for security, or whose service throws, ends the same way: nothing is sent.  *)
CloseChannel(c) ==
  /\ ProcessMessage(c)
  /\ ReadIsOver(c)
  /\ GoodBye(c)
  /\ UNCHANGED orphans

(* The requests that read or change the address space, or change nothing, and those    *)
(* that the server does not know: all are answered at once.                            *)
ProcessRequest(c) ==
  /\ ProcessMessage(c)
  /\ ReadNextData(c)
  /\ Respond(c, received[c] + 1)
  /\ UNCHANGED <<PublishRequestQueue, Subscriptions, serviceVars>>

CreateSubscription(c) ==
  LET s == LastSubscriptionId + 1 IN
  /\ ProcessMessage(c)
  /\ ReadNextData(c)
  /\ s \in SubIds
  /\ LastSubscriptionId' = s
  /\ SubscriptionsMap' = SubscriptionsMap \cup {s}
  /\ Callback' = [Callback EXCEPT ![s] = {c}]
  /\ Timer' = [Timer EXCEPT ![s] = "armed"]
  /\ Subscriptions' = [Subscriptions EXCEPT ![c] = @ \cup {s}]
  /\ Respond(c, received[c] + 1)
  /\ UNCHANGED <<PublishRequestQueue, PublishRequestQueues>>

(* Any ids: those of other connections are deleted as well, but only from the service. *)
DeleteSubscriptions(c, ids) ==
  /\ ProcessMessage(c)
  /\ ReadNextData(c)
  /\ Subscriptions' = [Subscriptions EXCEPT ![c] = @ \ ids]
  /\ DeleteFromService(ids)
  /\ Respond(c, received[c] + 1)
  /\ UNCHANGED <<PublishRequestQueue, Callback, LastSubscriptionId,
                 PublishRequestQueues>>

(* CloseSession with the flag that deletes the subscriptions; without it, it is one of *)
(* the requests that change nothing.                                                   *)
CloseSession(c) ==
  /\ ProcessMessage(c)
  /\ ReadNextData(c)
  /\ DeleteFromService(Subscriptions[c])
  /\ Subscriptions' = [Subscriptions EXCEPT ![c] = {}]
  /\ Respond(c, received[c] + 1)
  /\ UNCHANGED <<PublishRequestQueue, Callback, LastSubscriptionId,
                 PublishRequestQueues>>

\* Faulty: a request is counted twice.
FaultyCounted(count) == IF count < PublishLimit THEN count + 2 ELSE count

(* The service counts at most PublishLimit requests, the connection keeps them all. *)
Counted(count) == IF count < PublishLimit THEN count + 1 ELSE count

\* Faulty: SequenceNb stays incremented although nothing is sent.
FaultyPublish(c) ==
  /\ ProcessMessage(c)
  /\ ReadNextData(c)
  /\ SequenceNb' = [SequenceNb EXCEPT ![c] = @ + 1]
  /\ PublishRequestQueue' = [PublishRequestQueue EXCEPT ![c] = Append(@, received[c] + 1)]
  /\ PublishRequestQueues' = [PublishRequestQueues EXCEPT ![Token[c]] = Counted(@)]
  /\ UNCHANGED <<Subscriptions, sent, SubscriptionsMap, Callback, Timer,
                 LastSubscriptionId>>

(* SequenceNb is incremented and decremented again: no answer is sent. *)
Publish(c) ==
  /\ ProcessMessage(c)
  /\ ReadNextData(c)
  /\ PublishRequestQueue' = [PublishRequestQueue EXCEPT ![c] = Append(@, received[c] + 1)]
  /\ PublishRequestQueues' = [PublishRequestQueues EXCEPT ![Token[c]] = Counted(@)]
  /\ UNCHANGED <<SequenceNb, Subscriptions, sent, SubscriptionsMap, Callback, Timer,
                 LastSubscriptionId>>

--------------------------------------------------------------------------------
(* The publishing handler of a subscription.                                         *)

TimerExpires(s) ==
  /\ Timer[s] = "armed"
  /\ Timer' = [Timer EXCEPT ![s] = "expired"]
  /\ UNCHANGED <<stopping, Clients, reading, connectionVars, SubscriptionsMap, Callback,
                 LastSubscriptionId, PublishRequestQueues, received, failureVars>>

(* The subscription has expired: the timer is not started again. *)
PublishResultsStops(s) ==
  /\ Timer[s] = "expired"
  /\ Timer' = [Timer EXCEPT ![s] = "none"]
  /\ UNCHANGED <<stopping, Clients, reading, connectionVars, SubscriptionsMap, Callback,
                 LastSubscriptionId, PublishRequestQueues, received, failureVars>>

Rearm(s) == Timer' = [Timer EXCEPT ![s] = "armed"]

(* The response goes to the oldest publish request of the connection. A callback to a  *)
(* connection that is gone uses freed memory: only that it happens is recorded.        *)
ForwardPublishResponse(c) ==
  \/ /\ c \in Clients /\ PublishRequestQueue[c] # << >>
     /\ PublishRequestQueue' = [PublishRequestQueue EXCEPT ![c] = Tail(@)]
     /\ Respond(c, Head(PublishRequestQueue[c]))
     /\ UNCHANGED failureVars
  \/ /\ c \in Clients /\ PublishRequestQueue[c] = << >>
     /\ unanswerable' = unanswerable + 1
     /\ UNCHANGED <<PublishRequestQueue, SequenceNb, sent, stale, orphans>>
  \/ /\ c \notin Clients
     /\ stale' = stale \cup {c}
     /\ UNCHANGED <<PublishRequestQueue, SequenceNb, sent, unanswerable, orphans>>

(* There is something to tell, and a publish request of the session to tell it with. *)
PublishResults(s, c) ==
  /\ Timer[s] = "expired" /\ c \in Callback[s]
  /\ PublishRequestQueues[Token[c]] > 0
  /\ PublishRequestQueues' = [PublishRequestQueues EXCEPT ![Token[c]] = @ - 1]
  /\ ForwardPublishResponse(c)
  /\ Rearm(s)
  /\ UNCHANGED <<stopping, Clients, reading, Subscriptions, SubscriptionsMap,
                 Callback, LastSubscriptionId, received>>

(* There is nothing to tell, or no publish request. *)
PublishResultsNothing(s) ==
  /\ Timer[s] = "expired"
  /\ Rearm(s)
  /\ UNCHANGED <<stopping, Clients, reading, connectionVars, SubscriptionsMap, Callback,
                 LastSubscriptionId, PublishRequestQueues, received, failureVars>>

--------------------------------------------------------------------------------
Connection(c) ==
  \/ Accept(c)
  \/ ProcessHeader(c)
  \/ ProcessHeaderFails(c)
  \/ ReadingEnds(c)
  \/ SendFails(c)
  \/ ReadAfterEnd(c)

Processor(c) ==
  \/ HelloClient(c)
  \/ OpenChannel(c)
  \/ CloseChannel(c)
  \/ ProcessRequest(c)
  \/ CreateSubscription(c)
  \/ \E ids \in SUBSET SubIds : DeleteSubscriptions(c, ids)
  \/ CloseSession(c)
  \/ Publish(c)

Publishing(s) ==
  \/ TimerExpires(s)
  \/ PublishResultsStops(s)
  \/ PublishResultsNothing(s)
  \/ \E c \in Connections : PublishResults(s, c)

Stopping ==
  \/ \E c \in Connections : ShutdownClears(c)
  \/ ShutdownCleared
  \/ Stop

Next ==
  \/ \E c \in Connections : Connection(c) \/ Processor(c)
  \/ \E s \in SubIds : Publishing(s)
  \/ Stopping

Spec == Init /\ [][Next]_vars

--------------------------------------------------------------------------------
(* The type invariant. *)
ConnectionTypes ==
  /\ stopping \in {"no", "cleared", "stopped"}
  /\ Clients \subseteq Connections
  /\ reading \in [Connections -> {"nothing", "header", "body"}]
  /\ received \in [Connections -> 0 .. MaxMessages]
  /\ \A c \in Connections : reading[c] = "body" => received[c] < MaxMessages

ProcessorTypes ==
  /\ SequenceNb \in [Connections -> Nat]
  /\ PublishRequestQueue \in [Connections -> Seq(1 .. MaxMessages)]
  /\ Subscriptions \in [Connections -> SUBSET SubIds]
  /\ sent \in [Connections -> Seq([number : Nat, request : 1 .. MaxMessages])]

ServiceTypes ==
  /\ SubscriptionsMap \subseteq SubIds
  /\ Callback \in [SubIds -> SUBSET Connections]
  /\ Timer \in [SubIds -> TimerStates]
  /\ LastSubscriptionId \in 2 .. 2 + MaxSubscriptions
  /\ PublishRequestQueues \in [Tokens -> Nat]

TypeOK ==
  /\ ConnectionTypes /\ ProcessorTypes /\ ServiceTypes
  /\ unanswerable \in Nat /\ stale \subseteq Connections /\ orphans \subseteq Connections

QueuedRequests(c) == {PublishRequestQueue[c][i] : i \in DOMAIN PublishRequestQueue[c]}

Promise ==
  INSTANCE Exchange WITH
    Requests <- 1 .. MaxMessages,
    outstanding <- [c \in Connections |-> QueuedRequests(c)],
    answers <- sent

(* The connections keep what Exchange promises: publish requests and all others get    *)
(* their own answer, once, and the numbers of the answers have no gap, although        *)
(* publish requests are answered out of turn and take a number that they give back.    *)
ExchangeKept == Promise!Spec

(* The service runs no subscription of a connection that is gone or has lost track of  *)
(* it: this is what the destructor of OpcTcpMessages relies on.                        *)
SubscriptionsTracked ==
  \A s \in SubscriptionsMap : \E c \in Clients : Callback[s] = {c} /\ s \in Subscriptions[c]

(* A connection that its own reading has ended, by an error, by the message that closes *)
(* the channel or by one that cannot be processed, has no read left whose handler would *)
(* run without it. Only a failed write and the stop of the server leave one.            *)
NoReadLeftBehind ==
  {c \in Connections \ Clients : reading[c] # "nothing"} = orphans

TokensAreOwn == \A c, d \in Connections : Token[c] = Token[d] => c = d

(* If every client sends its own token, a notification always finds a publish request  *)
(* of its connection: the service's count is never ahead of the connection's queue,    *)
(* although the former has a limit and the latter has none.                            *)
NotificationsFindRequests == TokensAreOwn => unanswerable = 0

(* No subscription calls a connection that is gone: the subscriptions are deleted in   *)
(* the destructor for that.                                                            *)
NoCallbackAfterEnd == stale = {}

================================================================================
