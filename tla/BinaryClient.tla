------------------------------ MODULE BinaryClient ------------------------------
(***************************************************************************)
(* The client's connection to a server: application threads that send a    *)
(* request and wait for its response, the receive thread that reassembles  *)
(* responses and finds their callbacks, and the callback thread that hands *)
(* publish responses to the application.                                   *)
(*                                                                         *)
(* A step is what a thread does between two points where another thread    *)
(* can affect it.  RequestCallback::OnData takes no lock, so the gap        *)
(* between sending a request and blocking in wait_for is a step of its     *)
(* own; CallbackThread::Stop takes no lock, so the gap between evaluating   *)
(* the wait's predicate and blocking is one too.                           *)
(***************************************************************************)
EXTENDS Integers, Sequences, FiniteSets

CONSTANTS
  Callers,            \* application threads
  NoCaller,           \* the owner of a publish request
  CallKinds,          \* which of "call", "create" and "close" the application uses
  MaxRequests,        \* bound: requests ever sent
  MaxSubscriptions,   \* bound: subscriptions ever created
  SpuriousWakeups,    \* whether condition variables may wake up by themselves
  ServerFaults        \* whether the server may answer with a bad service result

Handles == 1 .. MaxRequests
Subs    == 1 .. MaxSubscriptions
NoSub   == 0
NoHandle == 0

ASSUME ClientAssumption ==
  /\ NoCaller \notin Callers
  /\ CallKinds \subseteq {"call", "create", "close"}
  /\ MaxRequests \in Nat
  /\ MaxSubscriptions \in Nat
  /\ SpuriousWakeups \in BOOLEAN
  /\ ServerFaults \in BOOLEAN

VARIABLES
  \* BinaryClient
  RequestHandle,      \* the last handle given out
  Callbacks,          \* handles with a registered response callback
  PublishCallbacks,   \* subscriptions with an application callback
  messageBuffer,      \* what Receive has collected, one entry per chunk
  header,             \* the header parsed last
  firstMsgParsed,     \* the next chunk continues a message
  receiveThread,      \* "running" or "ended"
  \* CallbackThread
  Queue, StopRequest, callbackThread, current,
  \* every caller's place in Send, and the destructor's progress
  call, life,
  \* what was sent under every handle (the server's knowledge too)
  request,
  \* external: the server and the stream from it
  srvCalls, srvPublish, srvSubs, wire,
  \* histories: handles whose response found no callback, the answers
  \* returned to callers, notifications sent, handed over and dropped
  \* and whether the session was closed
  late, answers, notified, handled, unknown, closed

clientVars == <<Callbacks, PublishCallbacks>>
bufferVars == <<messageBuffer, header, firstMsgParsed>>
threadVars == <<Queue, StopRequest, callbackThread, current>>
serverVars == <<srvCalls, srvPublish, srvSubs, wire, notified>>
sendVars   == <<RequestHandle, request>>

vars == <<clientVars, bufferVars, threadVars, serverVars, sendVars, receiveThread,
          call, life, late, answers, handled, unknown, closed>>

--------------------------------------------------------------------------------
(* Types *)

Kinds   == {"none", "call", "create", "close", "publish"}
Request == [kind : Kinds, caller : Callers \cup {NoCaller}, sub : Subs \cup {NoSub}]
NoRequest == [kind |-> "none", caller |-> NoCaller, sub |-> NoSub]

\* A response (its handle and whether its service result is good are its header), and
\* the part of it that one chunk carries.
Message == [handle : Handles, sub : Subs \cup {NoSub}, good : BOOLEAN]
Chunk   == [msg : Message, last : BOOLEAN]
NoMessage == [handle |-> NoHandle, sub |-> NoSub, good |-> TRUE]
Refusal(h) == [handle |-> h, sub |-> NoSub, good |-> FALSE]

Call == [pc : {"idle", "sent", "waiting", "notified", "failed", "publishing"},
         handle : Handles \cup {NoHandle}, data : Seq(Message), left : 0 .. 2]
IdleCall == [pc |-> "idle", handle |-> NoHandle, data |-> <<>>, left |-> 0]
SentCall(h) == [pc |-> "sent", handle |-> h, data |-> <<>>, left |-> 0]
PublishingCall(n) == [pc |-> "publishing", handle |-> NoHandle, data |-> <<>>, left |-> n]

SendTypes ==
  /\ RequestHandle \in 0 .. MaxRequests
  /\ Callbacks \in SUBSET Handles
  /\ request \in [Handles -> Request]
  /\ call \in [Callers -> Call]
  /\ PublishCallbacks \in SUBSET (Subs \cup {NoSub})
ReceiveTypes ==
  /\ messageBuffer \in Seq(Message)
  /\ header \in Message \cup {NoMessage}
  /\ receiveThread \in {"running", "ended"}
ThreadTypes ==
  /\ Queue \in Seq(Message)
  /\ callbackThread \in {"checking", "evaluated", "blocked", "calling", "exited"}
  /\ current \in Seq(Message)
  /\ callbackThread = "calling" <=> current # <<>>
  /\ life \in {"alive", "joining", "closing", "destroyed"}
ServerTypes ==
  /\ srvCalls \in SUBSET Handles
  /\ srvPublish \in Seq(Handles)
  /\ srvSubs \in SUBSET Subs
  /\ wire \in Seq(Chunk)
  /\ notified \in Seq(Handles)
HistoryTypes ==
  /\ late \in SUBSET Handles
  /\ answers \in [Handles -> SUBSET Handles]
  /\ handled \in Seq(Handles) /\ unknown \in Seq(Handles)
FlagTypes ==
  /\ firstMsgParsed \in BOOLEAN /\ StopRequest \in BOOLEAN /\ closed \in BOOLEAN

\* Every variable has its type.
TypeOK ==
  SendTypes /\ ReceiveTypes /\ ThreadTypes /\ ServerTypes /\ HistoryTypes /\ FlagTypes

Init ==
  /\ RequestHandle = 0
  /\ Callbacks = {} /\ PublishCallbacks = {}
  /\ messageBuffer = <<>> /\ header = NoMessage /\ firstMsgParsed = FALSE
  /\ receiveThread = "running"
  /\ Queue = <<>> /\ StopRequest = FALSE
  /\ callbackThread = "checking" /\ current = <<>>
  /\ call = [c \in Callers |-> IdleCall]
  /\ life = "alive"
  /\ request = [h \in Handles |-> NoRequest]
  /\ srvCalls = {} /\ srvPublish = <<>> /\ srvSubs = {} /\ wire = <<>>
  /\ late = {} /\ closed = FALSE
  /\ answers = [h \in Handles |-> {}]
  /\ notified = <<>> /\ handled = <<>> /\ unknown = <<>>

--------------------------------------------------------------------------------
(* Sending.  The callback is registered before the request is written, and *)
(* the response cannot come before it is: one step.                        *)

Register(kind, caller) ==
  /\ RequestHandle + 1 \in Handles
  /\ RequestHandle' = RequestHandle + 1
  /\ Callbacks' = Callbacks \cup {RequestHandle + 1}
  /\ request' = [request EXCEPT ![RequestHandle + 1] =
                   [kind |-> kind, caller |-> caller, sub |-> NoSub]]

\* Publish: nobody waits for the response.
PublishTransmits ==
  /\ Register("publish", NoCaller)
  /\ srvPublish' = Append(srvPublish, RequestHandle + 1)

\* Writing the publish request to the channel throws: its callback stays registered.
PublishThrows ==
  /\ Register("publish", NoCaller)
  /\ UNCHANGED srvPublish

\* Send<Response>: the request is on its way, the caller about to wait.
Send(c, kind) ==
  /\ life = "alive"
  /\ call[c].pc = "idle"
  /\ Register(kind, c)
  /\ srvCalls' = srvCalls \cup {RequestHandle + 1}
  /\ call' = [call EXCEPT ![c] = SentCall(RequestHandle + 1)]
  /\ UNCHANGED <<PublishCallbacks, bufferVars, threadVars, srvPublish, srvSubs, wire, notified,
                 receiveThread, life, closed, late, answers, handled, unknown>>

\* Writing to the channel throws, outside Send's try block: the callback stays
\* registered.
SendThrows(c, kind) ==
  /\ life = "alive"
  /\ call[c].pc = "idle"
  /\ Register(kind, c)
  /\ UNCHANGED <<PublishCallbacks, bufferVars, threadVars, serverVars, receiveThread,
                 call, life, closed, late, answers, handled, unknown>>

\* The caller blocks in WaitForData: a notification from before is lost.
WaitForData(c) ==
  /\ call[c].pc = "sent"
  /\ call' = [call EXCEPT ![c].pc = "waiting"]
  /\ UNCHANGED <<clientVars, bufferVars, threadVars, serverVars, sendVars, receiveThread,
                 life, closed, late, answers, handled, unknown>>

\* A wait without a predicate may also end by itself.
SpuriousWakeup(c) ==
  /\ SpuriousWakeups
  /\ call[c].pc = "waiting"
  /\ call' = [call EXCEPT ![c].pc = "notified"]
  /\ UNCHANGED <<clientVars, bufferVars, threadVars, serverVars, sendVars, receiveThread,
                 life, closed, late, answers, handled, unknown>>

\* Faulty: the wait has no timeout.
FaultyWaitsForever(c) == FALSE /\ UNCHANGED vars

\* wait_for times out, and WaitForData throws ...
TimesOut(c) ==
  /\ call[c].pc = "waiting"
  /\ call' = [call EXCEPT ![c].pc = "failed"]
  /\ UNCHANGED <<clientVars, bufferVars, threadVars, serverVars, sendVars, receiveThread,
                 life, closed, late, answers, handled, unknown>>

\* Another response's data, or a fault's, does not have to read as the one expected:
\* WaitForData throws too.
ReadThrows(c) ==
  /\ call[c].pc = "notified"
  /\ call[c].data # <<>>
  /\ call[c].data[1].handle # call[c].handle \/ ~ call[c].data[1].good
  /\ call' = [call EXCEPT ![c].pc = "failed"]
  /\ UNCHANGED <<clientVars, bufferVars, threadVars, serverVars, sendVars, receiveThread,
                 life, closed, late, answers, handled, unknown>>

\* Faulty: the callback stays registered.
FaultyForgetsErase(handle) == Callbacks

\* What the handler of the exception leaves registered.
CallbacksWithout(handle) == Callbacks \ {handle}

\* ... and Send removes the callback and throws to its caller.
RemoveCallback(c) ==
  /\ call[c].pc = "failed"
  /\ Callbacks' = CallbacksWithout(call[c].handle)
  /\ call' = [call EXCEPT ![c] = IdleCall]
  /\ UNCHANGED <<PublishCallbacks, bufferVars, threadVars, serverVars, sendVars, receiveThread,
                 life, closed, late, answers, handled, unknown>>

\* Faulty: the application's callback is not stored.
FaultyNotStored(kind, answer) == IF kind = "close" THEN {} ELSE PublishCallbacks

\* The application's callbacks after a response: CreateSubscription stores one under
\* the new subscription's number, CloseSession removes all.
StoredCallbacks(kind, answer) ==
  CASE kind = "create" ->
         PublishCallbacks \cup (IF answer = {} THEN {NoSub} ELSE {m.sub : m \in answer})
    [] kind = "close"  -> {}
    [] OTHER           -> PublishCallbacks

\* The response is read from the front of the data; without data a default one is
\* returned.  (A response of another type reads as garbage, here one without a
\* subscription; the service result is not looked at.)  A new Subscription then sends two publish requests.
Returns(c) ==
  LET h == call[c].handle
      answer == IF call[c].data = <<>> THEN {} ELSE {call[c].data[1]}
      kind == request[h].kind
  IN
  /\ call[c].pc = "notified"
  /\ answers' = [answers EXCEPT ![h] = {m.handle : m \in answer}]
  /\ PublishCallbacks' = StoredCallbacks(kind, answer)
  /\ closed' = (closed \/ kind = "close")
  /\ call' = [call EXCEPT ![c] =
       IF kind = "create" THEN PublishingCall(2) ELSE IdleCall]
  /\ UNCHANGED <<Callbacks, bufferVars, threadVars, serverVars, sendVars, receiveThread,
                 life, late, handled, unknown>>

\* One of the publish requests that a new Subscription sends.
InitialPublish(c) ==
  /\ call[c].pc = "publishing"
  /\ PublishTransmits
  /\ call' = [call EXCEPT ![c] =
       IF call[c].left > 1 THEN PublishingCall(call[c].left - 1) ELSE IdleCall]
  /\ UNCHANGED <<PublishCallbacks, bufferVars, threadVars, srvCalls, srvSubs, wire, notified,
                 receiveThread, life, closed, late, answers, handled, unknown>>

\* One of them cannot be sent: the Subscription's constructor throws.
InitialPublishThrows(c) ==
  /\ call[c].pc = "publishing"
  /\ PublishThrows
  /\ call' = [call EXCEPT ![c] = IdleCall]
  /\ UNCHANGED <<PublishCallbacks, bufferVars, threadVars, srvCalls, srvSubs, wire, notified,
                 receiveThread, life, closed, late, answers, handled, unknown>>

\* AbortSession drops the application's callbacks without a request.
AbortSession ==
  /\ life = "alive"
  /\ PublishCallbacks # {}
  /\ PublishCallbacks' = {}
  /\ closed' = TRUE
  /\ UNCHANGED <<Callbacks, bufferVars, threadVars, serverVars, sendVars, receiveThread,
                 call, life, late, answers, handled, unknown>>

--------------------------------------------------------------------------------
(* The receive thread *)

\* Faulty: the newest callback is put first.
FaultyPostsFirst(msg) ==
  /\ callbackThread # "evaluated"
  /\ Queue' = <<msg>> \o Queue
  /\ callbackThread' = IF callbackThread = "blocked" THEN "checking" ELSE callbackThread

\* CallbackThread::post, whose lock the callback thread holds while "evaluated".
Post(msg) ==
  /\ callbackThread # "evaluated"
  /\ Queue' = Append(Queue, msg)
  /\ callbackThread' = IF callbackThread = "blocked" THEN "checking" ELSE callbackThread

\* A call whose response has arrived: its caller wakes up only if it is waiting
\* already.
Delivered(old, data) ==
  [pc |-> IF old.pc = "waiting" THEN "notified" ELSE old.pc,
   handle |-> old.handle, data |-> data, left |-> old.left]

\* RequestCallback::OnData.  A callback that has outlived its call (see
\* NoDanglingCallback) writes to memory that is no longer the call's.
OnData(h, data) ==
  LET c == request[h].caller IN
  call' = IF call[c].handle = h
          THEN [call EXCEPT ![c] = Delivered(call[c], data)]
          ELSE call

\* The receive thread looks at Finished after every message.
AfterReceive == receiveThread' = IF life = "alive" THEN receiveThread ELSE "ended"

\* Faulty: the header that was parsed before is used.
FaultyStaleHeader(chunk) == header

\* parseMessage reads the header of a message's first chunk only.
ParsedHeader(chunk) == IF firstMsgParsed THEN header ELSE chunk.msg

ReceiveIntermediate ==
  /\ receiveThread = "running"
  /\ wire # <<>> /\ ~ Head(wire).last
  /\ messageBuffer' = Append(messageBuffer, Head(wire).msg)
  /\ header' = ParsedHeader(Head(wire))
  /\ firstMsgParsed' = TRUE
  /\ wire' = Tail(wire)
  /\ AfterReceive
  /\ UNCHANGED <<clientVars, threadVars, srvCalls, srvPublish, srvSubs, notified, sendVars,
                 call, life, closed, late, answers, handled, unknown>>

\* The last chunk of a response without a callback: Receive returns, and what it has
\* collected stays in messageBuffer.
ReceiveUnexpected ==
  LET h == ParsedHeader(Head(wire)).handle IN
  /\ receiveThread = "running"
  /\ wire # <<>> /\ Head(wire).last
  /\ h \notin Callbacks
  /\ messageBuffer' = Append(messageBuffer, Head(wire).msg)
  /\ header' = ParsedHeader(Head(wire))
  /\ firstMsgParsed' = FALSE
  /\ wire' = Tail(wire)
  /\ late' = late \cup {h}
  /\ AfterReceive
  /\ UNCHANGED <<clientVars, threadVars, srvCalls, srvPublish, srvSubs, notified, sendVars,
                 call, life, closed, answers, handled, unknown>>

\* Faulty: the buffer is not emptied after a response.
FaultyKeepsBuffer(data) == data

\* What is left in messageBuffer once its data has gone to a callback.
Consumed(data) == <<>>

\* The last chunk of an expected response: its callback gets all that was collected
\* and is removed, under the lock.  The callback of a publish request posts what it
\* reads from the data, or the header alone if its service result is bad.
ReceiveResponse ==
  LET hdr == ParsedHeader(Head(wire))
      h == hdr.handle
      data == Append(messageBuffer, Head(wire).msg)
  IN
  /\ receiveThread = "running"
  /\ wire # <<>> /\ Head(wire).last
  /\ h \in Callbacks
  /\ IF request[h].kind = "publish"
     THEN Post(IF hdr.good THEN data[1] ELSE hdr) /\ UNCHANGED call
     ELSE OnData(h, data) /\ UNCHANGED <<Queue, callbackThread>>
  /\ Callbacks' = Callbacks \ {h}
  /\ messageBuffer' = Consumed(data)
  /\ header' = ParsedHeader(Head(wire))
  /\ firstMsgParsed' = FALSE
  /\ wire' = Tail(wire)
  /\ AfterReceive
  /\ UNCHANGED <<PublishCallbacks, StopRequest, current, srvCalls, srvPublish, srvSubs, notified,
                 sendVars, life, closed, late, answers, handled, unknown>>

\* A broken or stopped channel, an error message or an invalid size: an exception
\* ends the receive thread.
ReceiveThrows ==
  /\ receiveThread = "running"
  /\ receiveThread' = "ended"
  /\ UNCHANGED <<clientVars, bufferVars, threadVars, serverVars, sendVars,
                 call, life, closed, late, answers, handled, unknown>>

--------------------------------------------------------------------------------
(* The callback thread *)

\* Condition.wait evaluates its predicate: stop, take the first callback, or ...
CallbackThreadChecks ==
  /\ callbackThread = "checking"
  /\ IF StopRequest THEN callbackThread' = "exited" /\ UNCHANGED <<Queue, current>>
     ELSE IF Queue = <<>> THEN callbackThread' = "evaluated" /\ UNCHANGED <<Queue, current>>
     ELSE callbackThread' = "calling" /\ current' = <<Head(Queue)>> /\ Queue' = Tail(Queue)
  /\ UNCHANGED <<clientVars, bufferVars, StopRequest, serverVars, sendVars, receiveThread,
                 call, life, closed, late, answers, handled, unknown>>

\* ... block.
CallbackThreadBlocks ==
  /\ callbackThread = "evaluated"
  /\ callbackThread' = "blocked"
  /\ UNCHANGED <<clientVars, bufferVars, Queue, StopRequest, current, serverVars, sendVars,
                 receiveThread, call, life, closed, late, answers, handled, unknown>>

\* After a callback the next one is taken, without a look at StopRequest.
NextCallback ==
  IF Queue = <<>> THEN callbackThread' = "checking" /\ current' = <<>> /\ UNCHANGED Queue
  ELSE current' = <<Head(Queue)>> /\ Queue' = Tail(Queue) /\ UNCHANGED callbackThread

\* The application handles a notification; PublishCallback then acknowledges it in a
\* new publish request.
CallbackHandles ==
  /\ callbackThread = "calling"
  /\ current[1].good /\ current[1].sub \in PublishCallbacks
  /\ handled' = Append(handled, current[1].handle)
  /\ PublishTransmits
  /\ NextCallback
  /\ UNCHANGED <<PublishCallbacks, bufferVars, StopRequest, srvCalls, srvSubs, wire, notified,
                 receiveThread, call, life, closed, late, answers, unknown>>

\* The same, but the publish request cannot be sent.
CallbackCannotAcknowledge ==
  /\ callbackThread = "calling"
  /\ current[1].good /\ current[1].sub \in PublishCallbacks
  /\ handled' = Append(handled, current[1].handle)
  /\ PublishThrows
  /\ NextCallback
  /\ UNCHANGED <<PublishCallbacks, bufferVars, StopRequest, srvCalls, srvSubs, wire, notified,
                 receiveThread, call, life, closed, late, answers, unknown>>

\* The application's handler throws: nothing is acknowledged.
CallbackThrows ==
  /\ callbackThread = "calling"
  /\ current[1].good /\ current[1].sub \in PublishCallbacks
  /\ handled' = Append(handled, current[1].handle)
  /\ NextCallback
  /\ UNCHANGED <<clientVars, bufferVars, StopRequest, serverVars, sendVars, receiveThread,
                 call, life, closed, late, answers, unknown>>

\* No callback is stored for the subscription.
CallbackUnknown ==
  /\ callbackThread = "calling"
  /\ current[1].good /\ current[1].sub \notin PublishCallbacks
  /\ unknown' = Append(unknown, current[1].handle)
  /\ NextCallback
  /\ UNCHANGED <<clientVars, bufferVars, StopRequest, serverVars, sendVars, receiveThread,
                 call, life, closed, late, answers, handled>>

\* The session was closed, or publishing failed.
CallbackRefused ==
  /\ callbackThread = "calling"
  /\ ~ current[1].good
  /\ NextCallback
  /\ UNCHANGED <<clientVars, bufferVars, StopRequest, serverVars, sendVars, receiveThread,
                 call, life, closed, late, answers, handled, unknown>>

--------------------------------------------------------------------------------
(* The destructor, which runs once nothing refers to the client any more:  *)
(* no call in progress, no application callback stored.                    *)

\* Finished is set and CallbackThread::Stop called, which wakes the callback thread
\* only if it is blocked already.
DestructorStops ==
  /\ life = "alive"
  /\ \A c \in Callers : call[c].pc = "idle"
  /\ PublishCallbacks = {}
  /\ StopRequest' = TRUE
  /\ callbackThread' = IF callbackThread = "blocked" THEN "checking" ELSE callbackThread
  /\ life' = "joining"
  /\ UNCHANGED <<clientVars, bufferVars, Queue, current, serverVars, sendVars, receiveThread,
                 call, closed, late, answers, handled, unknown>>

DestructorJoinsCallbackThread ==
  /\ life = "joining"
  /\ callbackThread = "exited"
  /\ life' = "closing"
  /\ UNCHANGED <<clientVars, bufferVars, threadVars, serverVars, sendVars, receiveThread,
                 call, closed, late, answers, handled, unknown>>

DestructorJoinsReceiveThread ==
  /\ life = "closing"
  /\ receiveThread = "ended"
  /\ life' = "destroyed"
  /\ UNCHANGED <<clientVars, bufferVars, threadVars, serverVars, sendVars, receiveThread,
                 call, closed, late, answers, handled, unknown>>

--------------------------------------------------------------------------------
(* The server, external: it answers requests in any order, or never, in    *)
(* one chunk or two, and publishes for any of its subscriptions while it    *)
(* has a publish request.                                                  *)

Chunks(msg) == {<<[msg |-> msg, last |-> TRUE]>>,
                <<[msg |-> msg, last |-> FALSE], [msg |-> msg, last |-> TRUE]>>}

\* The subscription exists on the server before its creation is answered.
ServerCreates(h) ==
  LET s == Cardinality(srvSubs) + 1 IN
  /\ h \in srvCalls
  /\ request[h].kind = "create" /\ request[h].sub = NoSub
  /\ s \in Subs
  /\ srvSubs' = srvSubs \cup {s}
  /\ request' = [request EXCEPT ![h].sub = s]
  /\ UNCHANGED <<RequestHandle, clientVars, bufferVars, threadVars, srvCalls, srvPublish, wire,
                 notified, receiveThread, call, life, closed, late, answers, handled, unknown>>

ServerAnswers(h) ==
  /\ h \in srvCalls
  /\ request[h].kind = "create" => request[h].sub # NoSub
  /\ srvCalls' = srvCalls \ {h}
  /\ \E chunks \in Chunks([handle |-> h, sub |-> request[h].sub, good |-> TRUE]) :
       wire' = wire \o chunks
  /\ UNCHANGED <<clientVars, bufferVars, threadVars, srvPublish, srvSubs, notified, sendVars,
                 receiveThread, call, life, closed, late, answers, handled, unknown>>

ServerRefuses(h) ==
  /\ ServerFaults
  /\ h \in srvCalls
  /\ request[h].sub = NoSub
  /\ srvCalls' = srvCalls \ {h}
  /\ \E chunks \in Chunks(Refusal(h)) : wire' = wire \o chunks
  /\ UNCHANGED <<clientVars, bufferVars, threadVars, srvPublish, srvSubs, notified, sendVars,
                 receiveThread, call, life, closed, late, answers, handled, unknown>>

ServerPublishes(s) ==
  /\ s \in srvSubs
  /\ srvPublish # <<>>
  /\ srvPublish' = Tail(srvPublish)
  /\ \E chunks \in Chunks([handle |-> Head(srvPublish), sub |-> s, good |-> TRUE]) : wire' = wire \o chunks
  /\ notified' = Append(notified, Head(srvPublish))
  /\ UNCHANGED <<clientVars, bufferVars, threadVars, srvCalls, srvSubs, sendVars,
                 receiveThread, call, life, closed, late, answers, handled, unknown>>

ServerRefusesPublish ==
  /\ ServerFaults
  /\ srvPublish # <<>>
  /\ srvPublish' = Tail(srvPublish)
  /\ \E chunks \in Chunks(Refusal(Head(srvPublish))) : wire' = wire \o chunks
  /\ UNCHANGED <<clientVars, bufferVars, threadVars, srvCalls, srvSubs, notified, sendVars,
                 receiveThread, call, life, closed, late, answers, handled, unknown>>

--------------------------------------------------------------------------------

\* What a thread does inside Send or WaitForData once it has begun.
CallStep(c) ==
  \/ WaitForData(c) \/ TimesOut(c) \/ ReadThrows(c) \/ RemoveCallback(c) \/ Returns(c)
  \/ InitialPublish(c) \/ InitialPublishThrows(c)

ReceiveStep == ReceiveIntermediate \/ ReceiveUnexpected \/ ReceiveResponse

CallbackThreadStep ==
  \/ CallbackThreadChecks \/ CallbackThreadBlocks
  \/ CallbackHandles \/ CallbackCannotAcknowledge \/ CallbackThrows
  \/ CallbackUnknown \/ CallbackRefused

DestructorStep ==
  DestructorStops \/ DestructorJoinsCallbackThread \/ DestructorJoinsReceiveThread

ServerStep ==
  \/ \E h \in Handles : ServerCreates(h) \/ ServerAnswers(h) \/ ServerRefuses(h)
  \/ \E s \in Subs : ServerPublishes(s)
  \/ ServerRefusesPublish

Next ==
  \/ \E c \in Callers :
       \/ \E kind \in CallKinds : Send(c, kind) \/ SendThrows(c, kind)
       \/ CallStep(c)
       \/ SpuriousWakeup(c)
  \/ AbortSession
  \/ ReceiveStep \/ ReceiveThrows
  \/ CallbackThreadStep
  \/ DestructorStep
  \/ ServerStep

Spec == Init /\ [][Next]_vars

\* The client's own threads go on; Channel::Stop() ends a blocked read.  The server
\* and the application owe nothing.
Fairness ==
  /\ \A c \in Callers : WF_vars(CallStep(c))
  /\ WF_vars(CallbackThreadStep)
  /\ WF_vars(ReceiveStep)
  /\ WF_vars(life = "closing" /\ ReceiveThrows)
  /\ WF_vars(DestructorJoinsCallbackThread \/ DestructorJoinsReceiveThread)

FairSpec == Spec /\ Fairness

--------------------------------------------------------------------------------
(* Properties *)

\* A call returns its own response, unless a response that found no callback has been
\* left in messageBuffer before (Receive, parseMessage, WaitForData).
OwnAnswer ==
  late = {} => \A h \in Handles : answers[h] \subseteq {h}

\* A call returns its own response whatever has timed out before: "Remove the
\* callback on timeout" (Send).
OwnAnswerAlways ==
  \A h \in Handles : answers[h] \subseteq {h}

\* The callback of a request the server can still answer belongs to a call that has
\* not left Send: it refers to a local variable of Send (Send, Receive).
NoDanglingCallback ==
  \A h \in Callbacks :
     /\ request[h].kind # "publish"
     /\ h \in srvCalls \/ \E k \in 1 .. Len(wire) : wire[k].msg.handle = h
     => call[request[h].caller].handle = h

\* Publish responses reach the application at most once and in the order the server
\* sent them (Receive, CallbackThread), unless a response that found no callback has been
\* left in messageBuffer before: it can be read in place of a notification.
NotificationsInOrder ==
  late = {} => \A j, k \in 1 .. Len(handled) : j < k =>
     /\ handled[j] # handled[k]
     /\ \E a, b \in 1 .. Len(notified) :
           a < b /\ notified[a] = handled[j] /\ notified[b] = handled[k]

\* As long as the session is open, the notifications of the first subscription that a
\* client creates find its callback: the callback is stored before the first publish request is sent
\* (CreateSubscription, Subscription::Subscription).  A late response left in
\* messageBuffer can still be read in place of a notification.
SoleSubscriptionHeard ==
  /\ Cardinality({h \in Handles : request[h].kind = "create"}) <= 1
  /\ ~ closed /\ late = {}
  => unknown = <<>>

\* Every call ends, by an answer or by its timeout, whatever the server does (Send).
CallsEnd ==
  \A c \in Callers : call[c].pc \in {"sent", "waiting", "notified", "failed"}
     ~> call[c].pc \notin {"sent", "waiting", "notified", "failed"}
=================================================================================
