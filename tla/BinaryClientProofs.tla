--------------------------- MODULE BinaryClientProofs ---------------------------
(***************************************************************************)
(* Proofs about BinaryClient: type correctness, and that the receive       *)
(* thread never runs the callback of a call that has left Send, as long as *)
(* condition variables do not wake up by themselves.                       *)
(***************************************************************************)
EXTENDS BinaryClient, FiniteSetTheorems, SequenceTheorems, TLAPS

\* Cutting the first entry off a sequence keeps its type and its other entries.
LEMMA TailFacts ==
  ASSUME NEW S, NEW q \in Seq(S), q # <<>>
  PROVE  /\ Tail(q) \in Seq(S) /\ Head(q) \in S /\ Head(q) = q[1]
         /\ \A k \in 1 .. Len(Tail(q)) : k + 1 \in 1 .. Len(q) /\ Tail(q)[k] = q[k + 1]
  OBVIOUS

LEMMA CallTypes ==
  /\ IdleCall \in Call
  /\ \A h \in Handles : SentCall(h) \in Call
  /\ \A n \in 0 .. 2 : PublishingCall(n) \in Call
  BY DEF IdleCall, SentCall, PublishingCall, Call

\* The calls in progress are those with a handle.
HandleInCall ==
  \A c \in Callers : call[c].pc \in {"idle", "publishing"} <=> call[c].handle = NoHandle

LEMMA InitType == Init => TypeOK /\ HandleInCall
<1> SUFFICES ASSUME Init PROVE TypeOK /\ HandleInCall
  OBVIOUS
<1>1. SendTypes
  <2>1. NoRequest \in Request
    BY DEF NoRequest, Request, Kinds
  <2>2. QED
    BY <2>1, CallTypes, ClientAssumption DEF Init, SendTypes
<1>2. ReceiveTypes /\ ThreadTypes /\ ServerTypes /\ HistoryTypes
  BY DEF Init, ReceiveTypes, ThreadTypes, ServerTypes, HistoryTypes
<1>3. FlagTypes
  BY DEF Init, FlagTypes
<1>4. HandleInCall
  BY DEF Init, HandleInCall, IdleCall
<1>5. QED
  BY <1>1, <1>2, <1>3, <1>4 DEF TypeOK

\* Registering a request keeps its three variables typed.
LEMMA RegisterType ==
  ASSUME TypeOK, NEW kind \in Kinds, NEW c \in Callers \cup {NoCaller}, Register(kind, c)
  PROVE  /\ RequestHandle' \in 0 .. MaxRequests
         /\ RequestHandle + 1 \in Handles
         /\ Callbacks' \in SUBSET Handles
         /\ request' \in [Handles -> Request]
<1>1. [kind |-> kind, caller |-> c, sub |-> NoSub] \in Request
  BY DEF Request
<1>2. RequestHandle' \in 0 .. MaxRequests /\ RequestHandle + 1 \in Handles
  BY ClientAssumption DEF Register, TypeOK, SendTypes, Handles
<1>3. QED
  BY <1>1, <1>2 DEF Register, TypeOK, SendTypes

LEMMA SendType ==
  ASSUME TypeOK, HandleInCall, NEW c \in Callers, NEW kind \in CallKinds,
         Send(c, kind) \/ SendThrows(c, kind)
  PROVE  TypeOK' /\ HandleInCall'
<1>1. kind \in Kinds /\ Register(kind, c)
  BY ClientAssumption DEF Kinds, Send, SendThrows
<1>2. /\ RequestHandle' \in 0 .. MaxRequests
      /\ RequestHandle + 1 \in Handles
      /\ Callbacks' \in SUBSET Handles
      /\ request' \in [Handles -> Request]
  BY <1>1, RegisterType
<1>3. call' \in [Callers -> Call] /\ srvCalls' \in SUBSET Handles
  BY <1>2, CallTypes DEF Send, SendThrows, TypeOK, SendTypes, ServerTypes, serverVars
<1>4. SendTypes' /\ ReceiveTypes' /\ ThreadTypes' /\ ServerTypes' /\ HistoryTypes'
  BY <1>2, <1>3 DEF Send, SendThrows, TypeOK, SendTypes, ReceiveTypes, ThreadTypes, ServerTypes,
     HistoryTypes, bufferVars, threadVars, serverVars
<1>5. FlagTypes'
  BY DEF Send, SendThrows, TypeOK, FlagTypes, bufferVars, threadVars
<1>6. HandleInCall'
  <2>1. RequestHandle + 1 # NoHandle
    BY <1>2 DEF Handles, NoHandle
  <2>2. QED
    BY <2>1 DEF Send, SendThrows, HandleInCall, TypeOK, SendTypes, SentCall
<1>7. QED
  BY <1>4, <1>5, <1>6 DEF TypeOK

\* A caller's step that only moves its program counter.
LEMMA MoveType ==
  ASSUME TypeOK, HandleInCall, NEW c \in Callers,
         WaitForData(c) \/ SpuriousWakeup(c) \/ TimesOut(c) \/ ReadThrows(c)
  PROVE  TypeOK' /\ HandleInCall'
<1>1. call[c] \in Call /\ call \in [Callers -> Call] /\ call[c].pc \in {"sent", "waiting", "notified"}
  BY DEF TypeOK, SendTypes, WaitForData, SpuriousWakeup, TimesOut, ReadThrows
<1>2. PICK p \in {"waiting", "notified", "failed"} : call' = [call EXCEPT ![c].pc = p]
  BY DEF WaitForData, SpuriousWakeup, TimesOut, ReadThrows
<1>3. call' \in [Callers -> Call]
  BY <1>1, <1>2 DEF Call
<1>4. HandleInCall'
  BY <1>1, <1>2 DEF HandleInCall, Call
<1>5. UNCHANGED <<clientVars, bufferVars, threadVars, serverVars, sendVars, receiveThread,
                  life, closed, late, answers, handled, unknown>>
  BY DEF WaitForData, SpuriousWakeup, TimesOut, ReadThrows
<1>6. SendTypes' /\ ReceiveTypes' /\ ThreadTypes' /\ ServerTypes' /\ HistoryTypes'
  BY <1>3, <1>5 DEF TypeOK, SendTypes, ReceiveTypes, ThreadTypes, ServerTypes, HistoryTypes,
     clientVars, bufferVars, threadVars, serverVars, sendVars
<1>7. FlagTypes'
  BY <1>5 DEF TypeOK, FlagTypes, bufferVars, threadVars
<1>8. QED
  BY <1>4, <1>6, <1>7 DEF TypeOK

LEMMA RemoveCallbackType ==
  ASSUME TypeOK, HandleInCall, NEW c \in Callers, RemoveCallback(c)
  PROVE  TypeOK' /\ HandleInCall'
<1>1. SendTypes' /\ ReceiveTypes' /\ ThreadTypes' /\ ServerTypes' /\ HistoryTypes'
  BY CallTypes DEF RemoveCallback, CallbacksWithout, TypeOK, SendTypes, ReceiveTypes, ThreadTypes,
     ServerTypes, HistoryTypes, bufferVars, threadVars, serverVars, sendVars
<1>2. FlagTypes'
  BY DEF RemoveCallback, TypeOK, FlagTypes, bufferVars, threadVars
<1>3. HandleInCall'
  BY DEF RemoveCallback, HandleInCall, TypeOK, SendTypes, IdleCall
<1>4. QED
  BY <1>1, <1>2, <1>3 DEF TypeOK

LEMMA ReturnsType ==
  ASSUME TypeOK, HandleInCall, NEW c \in Callers, Returns(c)
  PROVE  TypeOK' /\ HandleInCall'
<1> DEFINE h == call[c].handle
           answer == IF call[c].data = <<>> THEN {} ELSE {call[c].data[1]}
           kind == request[h].kind
<1>1. call[c].data \in Seq(Message)
  BY DEF TypeOK, SendTypes, Call
<1>2. answer \in SUBSET Message
  BY <1>1
<1>3. {m.handle : m \in answer} \in SUBSET Handles /\ {m.sub : m \in answer} \in SUBSET (Subs \cup {NoSub})
  BY <1>2 DEF Message
<1>4. answers' \in [Handles -> SUBSET Handles]
  BY <1>3 DEF Returns, TypeOK, HistoryTypes
<1>5. StoredCallbacks(kind, answer) \in SUBSET (Subs \cup {NoSub})
  <2>1. PublishCallbacks \in SUBSET (Subs \cup {NoSub})
    BY DEF TypeOK, SendTypes
  <2> HIDE DEF answer, kind
  <2> QED
    BY <1>3, <2>1 DEF StoredCallbacks
<1>6. PublishCallbacks' \in SUBSET (Subs \cup {NoSub})
  BY <1>5 DEF Returns
<1>7. call' \in [Callers -> Call]
  BY CallTypes DEF Returns, TypeOK, SendTypes
<1>8. SendTypes' /\ ReceiveTypes' /\ ThreadTypes' /\ ServerTypes' /\ HistoryTypes'
  BY <1>4, <1>6, <1>7 DEF Returns, TypeOK, SendTypes, ReceiveTypes, ThreadTypes, ServerTypes,
     HistoryTypes, bufferVars, threadVars, serverVars, sendVars
<1>9. FlagTypes'
  BY DEF Returns, TypeOK, FlagTypes, bufferVars, threadVars
<1>10. HandleInCall'
  BY DEF Returns, HandleInCall, TypeOK, SendTypes, IdleCall, PublishingCall
<1>11. QED
  BY <1>8, <1>9, <1>10 DEF TypeOK

\* A publish request, sent by a new subscription or by the callback thread.
LEMMA PublishTransmitsType ==
  ASSUME TypeOK, PublishTransmits \/ PublishThrows
  PROVE  /\ RequestHandle' \in 0 .. MaxRequests
         /\ Callbacks' \in SUBSET Handles
         /\ request' \in [Handles -> Request]
         /\ srvPublish' \in Seq(Handles)
<1>1. /\ RequestHandle' \in 0 .. MaxRequests /\ RequestHandle + 1 \in Handles
      /\ Callbacks' \in SUBSET Handles /\ request' \in [Handles -> Request]
  BY RegisterType DEF PublishTransmits, PublishThrows, Kinds
<1>2. QED
  <2>1. srvPublish \in Seq(Handles)
    BY DEF TypeOK, ServerTypes
  <2>2. srvPublish' = srvPublish \/ srvPublish' = Append(srvPublish, RequestHandle + 1)
    BY DEF PublishTransmits, PublishThrows
  <2>3. QED
    BY <1>1, <2>1, <2>2

LEMMA InitialPublishType ==
  ASSUME TypeOK, HandleInCall, NEW c \in Callers, InitialPublish(c) \/ InitialPublishThrows(c)
  PROVE  TypeOK' /\ HandleInCall'
<1>1. /\ RequestHandle' \in 0 .. MaxRequests /\ Callbacks' \in SUBSET Handles
      /\ request' \in [Handles -> Request] /\ srvPublish' \in Seq(Handles)
  BY PublishTransmitsType DEF InitialPublish, InitialPublishThrows
<1>2. call[c].left \in 0 .. 2 /\ call \in [Callers -> Call]
  BY DEF TypeOK, SendTypes, Call
<1>3. PICK next \in Call : /\ call' = [call EXCEPT ![c] = next]
                           /\ next.pc \in {"idle", "publishing"} /\ next.handle = NoHandle
  <2>1. CASE InitialPublish(c) /\ call[c].left > 1
    <3>1. call[c].left - 1 \in 0 .. 2
      BY <1>2, <2>1
    <3>2. QED
      BY <2>1, <3>1, CallTypes DEF InitialPublish, PublishingCall
  <2>2. CASE InitialPublishThrows(c) \/ ~ (call[c].left > 1)
    BY <2>2, CallTypes DEF InitialPublish, InitialPublishThrows, IdleCall
  <2>3. QED
    BY <2>1, <2>2
<1>4. UNCHANGED <<PublishCallbacks, bufferVars, threadVars, srvCalls, srvSubs, wire, notified,
                  receiveThread, life, closed, late, answers, handled, unknown>>
  BY DEF InitialPublish, InitialPublishThrows
<1>5. SendTypes' /\ ReceiveTypes' /\ ThreadTypes' /\ ServerTypes' /\ HistoryTypes'
  BY <1>1, <1>2, <1>3, <1>4 DEF TypeOK, SendTypes, ReceiveTypes, ThreadTypes, ServerTypes,
     HistoryTypes, bufferVars, threadVars
<1>6. FlagTypes'
  BY <1>4 DEF TypeOK, FlagTypes, bufferVars, threadVars
<1>7. HandleInCall'
  BY <1>2, <1>3 DEF HandleInCall
<1>8. QED
  BY <1>5, <1>6, <1>7 DEF TypeOK

LEMMA AbortSessionType ==
  ASSUME TypeOK, AbortSession
  PROVE  TypeOK'
<1>1. SendTypes' /\ ReceiveTypes' /\ ThreadTypes' /\ ServerTypes' /\ HistoryTypes'
  BY DEF AbortSession, TypeOK, SendTypes, ReceiveTypes, ThreadTypes, ServerTypes, HistoryTypes,
     bufferVars, threadVars, serverVars, sendVars
<1>2. FlagTypes'
  BY DEF AbortSession, TypeOK, FlagTypes, bufferVars, threadVars
<1>3. QED
  BY <1>1, <1>2 DEF TypeOK

\* The header of an incomplete message is known.
HeaderKnown == firstMsgParsed => header \in Message

LEMMA HeaderType ==
  ASSUME TypeOK, HeaderKnown, wire # <<>>
  PROVE  /\ Head(wire).msg \in Message
         /\ ParsedHeader(Head(wire)) \in Message
         /\ ParsedHeader(Head(wire)).handle \in Handles
         /\ wire \in Seq(Chunk) /\ Tail(wire) \in Seq(Chunk)
         /\ Append(messageBuffer, Head(wire).msg) \in Seq(Message)
<1>1. Head(wire) \in Chunk /\ wire \in Seq(Chunk) /\ Tail(wire) \in Seq(Chunk)
  BY TailFacts DEF TypeOK, ServerTypes
<1>2. Head(wire).msg \in Message /\ Head(wire).msg.handle \in Handles
  BY <1>1 DEF Chunk, Message
<1>3. ParsedHeader(Head(wire)) \in Message
  BY <1>2 DEF ParsedHeader, HeaderKnown
<1>4. ParsedHeader(Head(wire)).handle \in Handles
  BY <1>3 DEF Message
<1>5. messageBuffer \in Seq(Message)
  BY DEF TypeOK, ReceiveTypes
<1>6. QED
  BY <1>1, <1>2, <1>3, <1>4, <1>5

LEMMA ReceiveIntermediateType ==
  ASSUME TypeOK, HeaderKnown, ReceiveIntermediate
  PROVE  TypeOK' /\ HeaderKnown'
<1>1. /\ ParsedHeader(Head(wire)) \in Message /\ Tail(wire) \in Seq(Chunk)
      /\ Append(messageBuffer, Head(wire).msg) \in Seq(Message)
  BY HeaderType DEF ReceiveIntermediate
<1>2. header' \in Message /\ wire' \in Seq(Chunk) /\ messageBuffer' \in Seq(Message)
  BY <1>1 DEF ReceiveIntermediate
<1>3. receiveThread' \in {"running", "ended"}
  BY DEF ReceiveIntermediate, AfterReceive, TypeOK, ReceiveTypes
<1>4. SendTypes' /\ ReceiveTypes' /\ ThreadTypes' /\ ServerTypes' /\ HistoryTypes'
  BY <1>2, <1>3 DEF ReceiveIntermediate, TypeOK, SendTypes, ReceiveTypes, ThreadTypes, ServerTypes,
     HistoryTypes, clientVars, threadVars, sendVars
<1>5. FlagTypes'
  BY DEF ReceiveIntermediate, TypeOK, FlagTypes, threadVars
<1>6. QED
  BY <1>2, <1>4, <1>5 DEF TypeOK, HeaderKnown

LEMMA ReceiveUnexpectedType ==
  ASSUME TypeOK, HeaderKnown, ReceiveUnexpected
  PROVE  TypeOK' /\ HeaderKnown'
<1>1. /\ ParsedHeader(Head(wire)) \in Message /\ ParsedHeader(Head(wire)).handle \in Handles
      /\ Tail(wire) \in Seq(Chunk)
      /\ Append(messageBuffer, Head(wire).msg) \in Seq(Message)
  BY HeaderType DEF ReceiveUnexpected
<1>2. header' \in Message /\ late' \in SUBSET Handles /\ wire' \in Seq(Chunk) /\ messageBuffer' \in Seq(Message)
  BY <1>1 DEF ReceiveUnexpected, TypeOK, HistoryTypes
<1>3. receiveThread' \in {"running", "ended"}
  BY DEF ReceiveUnexpected, AfterReceive, TypeOK, ReceiveTypes
<1>4. SendTypes' /\ ReceiveTypes' /\ ThreadTypes' /\ ServerTypes' /\ HistoryTypes'
  BY <1>2, <1>3 DEF ReceiveUnexpected, TypeOK, SendTypes, ReceiveTypes, ThreadTypes, ServerTypes,
     HistoryTypes, clientVars, threadVars, sendVars
<1>5. FlagTypes' /\ ~ firstMsgParsed'
  BY DEF ReceiveUnexpected, TypeOK, FlagTypes, threadVars
<1>6. QED
  BY <1>4, <1>5 DEF TypeOK, HeaderKnown

\* What the callback of a response does to the calls.
LEMMA OnDataType ==
  ASSUME TypeOK, HandleInCall, NEW h \in Handles, NEW data \in Seq(Message),
         request[h].caller \in Callers, OnData(h, data)
  PROVE  /\ call' \in [Callers -> Call]
         /\ HandleInCall'
         /\ \A c \in Callers : call'[c].handle = call[c].handle
<1> DEFINE c == request[h].caller
<1>1. call[c] \in Call /\ call \in [Callers -> Call]
  BY DEF TypeOK, SendTypes
<1>2. CASE call[c].handle = h
  <2>1. call[c].pc \notin {"idle", "publishing"}
    BY <1>2 DEF HandleInCall, Handles, NoHandle
  <2>2. call' = [call EXCEPT ![c] = Delivered(call[c], data)]
    BY <1>2 DEF OnData
  <2>3. QED
    BY <1>1, <2>1, <2>2 DEF Delivered, Call, HandleInCall
<1>3. CASE call[c].handle # h
  BY <1>1, <1>3 DEF OnData, HandleInCall
<1>4. QED
  BY <1>2, <1>3

\* Only publish requests have no caller.
CallersKnown ==
  \A h \in Handles : request[h].kind \notin {"none", "publish"} => request[h].caller \in Callers
RegisteredKind ==
  \A h \in Callbacks : request[h].kind # "none"

LEMMA ReceiveResponseType ==
  ASSUME TypeOK, HandleInCall, HeaderKnown, CallersKnown, RegisteredKind, ReceiveResponse
  PROVE  TypeOK' /\ HandleInCall' /\ HeaderKnown'
<1> DEFINE hdr == ParsedHeader(Head(wire))
           h == hdr.handle
           data == Append(messageBuffer, Head(wire).msg)
<1>1. hdr \in Message /\ h \in Handles /\ h \in Callbacks /\ Tail(wire) \in Seq(Chunk) /\ data \in Seq(Message)
  BY HeaderType DEF ReceiveResponse
<1>2. data[1] \in Message
  BY <1>1, Head(wire).msg \in Message, HeaderType DEF TypeOK, ReceiveTypes, ReceiveResponse
<1>3. /\ call' \in [Callers -> Call] /\ HandleInCall'
      /\ Queue' \in Seq(Message)
      /\ callbackThread' \in {"checking", "evaluated", "blocked", "calling", "exited"}
      /\ callbackThread' = "calling" <=> callbackThread = "calling"
  <2>1. CASE request[h].kind = "publish"
    <3>1. PICK msg \in Message : Post(msg) /\ UNCHANGED call
      BY <1>1, <1>2, <2>1 DEF ReceiveResponse
    <3>2. Queue' \in Seq(Message)
      BY <3>1 DEF Post, TypeOK, ThreadTypes
    <3> HIDE DEF data, h, hdr
    <3>3. QED
      BY <3>1, <3>2 DEF Post, TypeOK, SendTypes, ThreadTypes, HandleInCall
  <2>2. CASE request[h].kind # "publish"
    <3>1. request[h].caller \in Callers
      BY <1>1, <2>2 DEF CallersKnown, RegisteredKind
    <3>2. OnData(h, data) /\ UNCHANGED <<Queue, callbackThread>>
      BY <2>2 DEF ReceiveResponse
    <3>3. QED
      BY <1>1, <3>1, <3>2, OnDataType DEF TypeOK, ThreadTypes
  <2>3. QED
    BY <2>1, <2>2
<1>4. receiveThread' \in {"running", "ended"}
  BY DEF ReceiveResponse, AfterReceive, TypeOK, ReceiveTypes
<1>5. Callbacks' \in SUBSET Handles /\ messageBuffer' = <<>> /\ header' \in Message /\ wire' \in Seq(Chunk)
  BY <1>1 DEF ReceiveResponse, Consumed, TypeOK, SendTypes
<1>6. SendTypes' /\ ReceiveTypes' /\ ThreadTypes' /\ ServerTypes' /\ HistoryTypes'
  <2>1. UNCHANGED <<PublishCallbacks, StopRequest, current, srvCalls, srvPublish, srvSubs, notified,
                    sendVars, life, closed, late, answers, handled, unknown>>
    BY DEF ReceiveResponse
  <2> QED
    BY <1>3, <1>4, <1>5, <2>1 DEF TypeOK, SendTypes, ReceiveTypes, ThreadTypes, ServerTypes,
       HistoryTypes, sendVars
<1>7. FlagTypes' /\ ~ firstMsgParsed'
  BY DEF ReceiveResponse, TypeOK, FlagTypes
<1>8. QED
  BY <1>3, <1>6, <1>7 DEF TypeOK, HeaderKnown

LEMMA ReceiveThrowsType ==
  ASSUME TypeOK, ReceiveThrows
  PROVE  TypeOK'
<1>1. SendTypes' /\ ReceiveTypes' /\ ThreadTypes' /\ ServerTypes' /\ HistoryTypes'
  BY DEF ReceiveThrows, TypeOK, SendTypes, ReceiveTypes, ThreadTypes, ServerTypes, HistoryTypes,
     clientVars, bufferVars, threadVars, serverVars, sendVars
<1>2. FlagTypes'
  BY DEF ReceiveThrows, TypeOK, FlagTypes, bufferVars, threadVars
<1>3. QED
  BY <1>1, <1>2 DEF TypeOK

\* A sequence of one entry.
LEMMA SingletonFacts ==
  ASSUME NEW S, NEW e \in S
  PROVE  <<e>> \in Seq(S) /\ <<e>> # <<>>
  OBVIOUS

\* Taking the next callback after one has been called.
LEMMA NextCallbackType ==
  ASSUME TypeOK, NextCallback, callbackThread = "calling"
  PROVE  /\ Queue' \in Seq(Message) /\ current' \in Seq(Message)
         /\ callbackThread' \in {"checking", "calling"}
         /\ callbackThread' = "calling" <=> current' # <<>>
<1>1. CASE Queue = <<>>
  BY <1>1 DEF NextCallback, TypeOK, ThreadTypes
<1>2. CASE Queue # <<>>
  <2>1. Tail(Queue) \in Seq(Message) /\ Head(Queue) \in Message
    BY <1>2, TailFacts DEF TypeOK, ThreadTypes
  <2>2. QED
    BY <1>2, <2>1, SingletonFacts DEF NextCallback, TypeOK, ThreadTypes
<1>3. QED
  BY <1>1, <1>2

LEMMA CallbackThreadType ==
  ASSUME TypeOK, CallbackThreadStep
  PROVE  TypeOK'
<1>1. CASE CallbackThreadChecks
  <2>1. ThreadTypes'
    <3>1. CASE StopRequest \/ Queue = <<>>
      BY <1>1, <3>1 DEF CallbackThreadChecks, TypeOK, ThreadTypes
    <3>2. CASE ~ StopRequest /\ Queue # <<>>
      <4>1. Tail(Queue) \in Seq(Message) /\ Head(Queue) \in Message
        BY <3>2, TailFacts DEF TypeOK, ThreadTypes
      <4>2. QED
        BY <1>1, <3>2, <4>1, SingletonFacts DEF CallbackThreadChecks, TypeOK, ThreadTypes
    <3>3. QED
      BY <3>1, <3>2
  <2>2. SendTypes' /\ ReceiveTypes' /\ ServerTypes' /\ HistoryTypes'
    BY <1>1 DEF CallbackThreadChecks, TypeOK, SendTypes, ReceiveTypes, ServerTypes, HistoryTypes,
       clientVars, bufferVars, serverVars, sendVars
  <2>3. FlagTypes'
    BY <1>1 DEF CallbackThreadChecks, TypeOK, FlagTypes, bufferVars
  <2>4. QED
    BY <2>1, <2>2, <2>3 DEF TypeOK
<1>2. CASE CallbackThreadBlocks
  <2>1. SendTypes' /\ ReceiveTypes' /\ ThreadTypes' /\ ServerTypes' /\ HistoryTypes'
    BY <1>2 DEF CallbackThreadBlocks, TypeOK, SendTypes, ReceiveTypes, ThreadTypes, ServerTypes,
       HistoryTypes, clientVars, bufferVars, serverVars, sendVars
  <2>2. FlagTypes'
    BY <1>2 DEF CallbackThreadBlocks, TypeOK, FlagTypes, bufferVars
  <2>3. QED
    BY <2>1, <2>2 DEF TypeOK
<1>3. CASE \/ CallbackHandles \/ CallbackCannotAcknowledge \/ CallbackThrows
           \/ CallbackUnknown \/ CallbackRefused
  <2>1. callbackThread = "calling" /\ NextCallback
    BY <1>3 DEF CallbackHandles, CallbackCannotAcknowledge, CallbackThrows, CallbackUnknown,
         CallbackRefused
  <2>2. current[1].handle \in Handles
    <3>1. current[1] \in Message
      BY <2>1 DEF TypeOK, ThreadTypes
    <3>2. QED
      BY <3>1 DEF Message
  <2>3. handled' \in Seq(Handles) /\ unknown' \in Seq(Handles)
    <3>1. handled \in Seq(Handles) /\ unknown \in Seq(Handles)
      BY DEF TypeOK, HistoryTypes
    <3>2. /\ Append(handled, current[1].handle) \in Seq(Handles)
          /\ Append(unknown, current[1].handle) \in Seq(Handles)
      BY <2>2, <3>1
    <3>3. \/ handled' = Append(handled, current[1].handle) /\ unknown' = unknown
          \/ handled' = handled /\ unknown' = Append(unknown, current[1].handle)
          \/ UNCHANGED <<handled, unknown>>
      BY <1>3 DEF CallbackHandles, CallbackCannotAcknowledge, CallbackThrows, CallbackUnknown,
         CallbackRefused
    <3>4. QED
      BY <3>1, <3>2, <3>3
  <2>4. /\ Queue' \in Seq(Message) /\ current' \in Seq(Message)
        /\ callbackThread' \in {"checking", "calling"}
        /\ callbackThread' = "calling" <=> current' # <<>>
    BY <2>1, NextCallbackType
  <2>5. /\ RequestHandle' \in 0 .. MaxRequests /\ Callbacks' \in SUBSET Handles
        /\ request' \in [Handles -> Request] /\ srvPublish' \in Seq(Handles)
    <3>1. CASE CallbackHandles \/ CallbackCannotAcknowledge
      BY <3>1, PublishTransmitsType DEF CallbackHandles, CallbackCannotAcknowledge
    <3>2. CASE CallbackThrows \/ CallbackUnknown \/ CallbackRefused
      BY <3>2 DEF CallbackThrows, CallbackUnknown, CallbackRefused, TypeOK, SendTypes, ServerTypes, clientVars,
         serverVars, sendVars
    <3>3. QED
      BY <1>3, <3>1, <3>2
  <2>6. UNCHANGED <<PublishCallbacks, bufferVars, StopRequest, srvCalls, srvSubs, wire, notified,
                    receiveThread, call, life, closed, late, answers>>
    BY <1>3 DEF CallbackHandles, CallbackCannotAcknowledge, CallbackThrows, CallbackUnknown,
         CallbackRefused, clientVars, serverVars
  <2>7. SendTypes' /\ ReceiveTypes' /\ ThreadTypes' /\ ServerTypes' /\ HistoryTypes'
    BY <2>3, <2>4, <2>5, <2>6 DEF TypeOK, SendTypes, ReceiveTypes, ThreadTypes, ServerTypes,
       HistoryTypes, bufferVars
  <2>8. FlagTypes'
    BY <2>6 DEF TypeOK, FlagTypes, bufferVars
  <2>9. QED
    BY <2>7, <2>8 DEF TypeOK
<1>4. QED
  BY <1>1, <1>2, <1>3 DEF CallbackThreadStep

LEMMA DestructorType ==
  ASSUME TypeOK, DestructorStep
  PROVE  TypeOK'
<1>1. /\ life' \in {"alive", "joining", "closing", "destroyed"}
      /\ callbackThread' \in {"checking", "evaluated", "blocked", "calling", "exited"}
      /\ callbackThread' = "calling" <=> callbackThread = "calling"
  BY DEF DestructorStep, DestructorStops, DestructorJoinsCallbackThread,
     DestructorJoinsReceiveThread, TypeOK, ThreadTypes, threadVars
<1>2. UNCHANGED <<clientVars, bufferVars, Queue, current, serverVars, sendVars, receiveThread,
                  call, closed, late, answers, handled, unknown>>
  BY DEF DestructorStep, DestructorStops, DestructorJoinsCallbackThread,
     DestructorJoinsReceiveThread, threadVars
<1>3. SendTypes' /\ ReceiveTypes' /\ ThreadTypes' /\ ServerTypes' /\ HistoryTypes'
  BY <1>1, <1>2 DEF TypeOK, SendTypes, ReceiveTypes, ThreadTypes, ServerTypes, HistoryTypes,
     clientVars, bufferVars, serverVars, sendVars
<1>4. FlagTypes'
  BY <1>2 DEF DestructorStep, DestructorStops, DestructorJoinsCallbackThread,
     DestructorJoinsReceiveThread, threadVars, bufferVars, TypeOK, FlagTypes
<1>5. QED
  BY <1>3, <1>4 DEF TypeOK

\* A response's chunks all carry the message.
LEMMA ChunksType ==
  ASSUME NEW msg \in Message, NEW chunks \in Chunks(msg)
  PROVE  chunks \in Seq(Chunk) /\ \A k \in 1 .. Len(chunks) : chunks[k].msg = msg
<1>1. CASE chunks = <<[msg |-> msg, last |-> TRUE]>>
  BY <1>1 DEF Chunk
<1>2. CASE chunks = <<[msg |-> msg, last |-> FALSE], [msg |-> msg, last |-> TRUE]>>
  BY <1>2 DEF Chunk
<1>3. QED
  BY <1>1, <1>2 DEF Chunks

\* Sending a message to the client adds its handle, and no other, to the stream.
LEMMA WireGrows ==
  ASSUME TypeOK, NEW msg \in Message, NEW chunks \in Chunks(msg), wire' = wire \o chunks
  PROVE  /\ wire' \in Seq(Chunk)
         /\ \A k \in 1 .. Len(wire') : wire'[k].msg = msg \/ \E j \in 1 .. Len(wire) : wire'[k] = wire[j]
<1>1. wire \in Seq(Chunk) /\ chunks \in Seq(Chunk) /\ \A k \in 1 .. Len(chunks) : chunks[k].msg = msg
  BY ChunksType DEF TypeOK, ServerTypes
<1>2. QED
  BY <1>1

LEMMA MessageTypes ==
  ASSUME NEW h \in Handles, NEW s \in Subs \cup {NoSub}
  PROVE  [handle |-> h, sub |-> s, good |-> TRUE] \in Message /\ Refusal(h) \in Message
  BY DEF Message, Refusal

LEMMA ServerType ==
  ASSUME TypeOK,
         ServerStep
  PROVE  TypeOK'
<1>1. ASSUME NEW h \in Handles, ServerCreates(h)
      PROVE  TypeOK'
  <2> DEFINE s == Cardinality(srvSubs) + 1
  <2>1. request[h] \in Request /\ s \in Subs
    BY <1>1 DEF ServerCreates, TypeOK, SendTypes
  <2>2. request' \in [Handles -> Request]
    <3> HIDE DEF s
    <3>1. request' = [request EXCEPT ![h].sub = s]
      BY <1>1 DEF ServerCreates, s
    <3>2. QED
      BY <2>1, <3>1 DEF TypeOK, SendTypes, Request
  <2>3. srvSubs' \in SUBSET Subs
    BY <1>1, <2>1 DEF ServerCreates, TypeOK, ServerTypes
  <2>4. UNCHANGED <<RequestHandle, clientVars, bufferVars, threadVars, srvCalls, srvPublish, wire,
                    notified, receiveThread, call, life, closed, late, answers, handled, unknown>>
    BY <1>1 DEF ServerCreates
  <2>5. SendTypes' /\ ReceiveTypes' /\ ThreadTypes' /\ ServerTypes' /\ HistoryTypes'
    BY <2>2, <2>3, <2>4 DEF TypeOK, SendTypes, ReceiveTypes, ThreadTypes, ServerTypes,
       HistoryTypes, clientVars, bufferVars, threadVars
  <2>6. FlagTypes'
    BY <2>4 DEF TypeOK, FlagTypes, bufferVars, threadVars
  <2>7. QED
    BY <2>5, <2>6 DEF TypeOK
<1>2. ASSUME NEW h \in Handles, ServerAnswers(h) \/ ServerRefuses(h)
      PROVE  TypeOK'
  <2>1. request[h].sub \in Subs \cup {NoSub}
    BY DEF TypeOK, SendTypes, Request
  <2>2. wire' \in Seq(Chunk)
    BY <1>2, <2>1, MessageTypes, WireGrows DEF ServerAnswers, ServerRefuses
  <2>3. SendTypes' /\ ReceiveTypes' /\ ThreadTypes' /\ ServerTypes' /\ HistoryTypes'
    BY <1>2, <2>2 DEF ServerAnswers, ServerRefuses, TypeOK, SendTypes, ReceiveTypes, ThreadTypes, ServerTypes,
       HistoryTypes, clientVars, bufferVars, threadVars, sendVars
  <2>4. FlagTypes'
    BY <1>2 DEF ServerAnswers, ServerRefuses, TypeOK, FlagTypes, bufferVars, threadVars
  <2>5. QED
    BY <2>3, <2>4 DEF TypeOK
<1>3. ASSUME NEW s \in Subs, ServerPublishes(s)
      PROVE  TypeOK'
  <2>1. Head(srvPublish) \in Handles /\ Tail(srvPublish) \in Seq(Handles)
    BY <1>3, TailFacts DEF ServerPublishes, TypeOK, ServerTypes
  <2>2. [handle |-> Head(srvPublish), sub |-> s, good |-> TRUE] \in Message
    BY <2>1, MessageTypes
  <2>3. wire' \in Seq(Chunk)
    BY <1>3, <2>2, WireGrows DEF ServerPublishes
  <2>4. notified' \in Seq(Handles)
    BY <1>3, <2>1 DEF ServerPublishes, TypeOK, ServerTypes
  <2>5. SendTypes' /\ ReceiveTypes' /\ ThreadTypes' /\ ServerTypes' /\ HistoryTypes'
    BY <1>3, <2>1, <2>3, <2>4 DEF ServerPublishes, TypeOK, SendTypes, ReceiveTypes, ThreadTypes,
       ServerTypes, HistoryTypes, clientVars, bufferVars, threadVars, sendVars
  <2>6. FlagTypes'
    BY <1>3 DEF ServerPublishes, TypeOK, FlagTypes, bufferVars, threadVars
  <2>7. QED
    BY <2>5, <2>6 DEF TypeOK
<1>4. CASE ServerRefusesPublish
  <2>1. Head(srvPublish) \in Handles /\ Tail(srvPublish) \in Seq(Handles)
    BY <1>4, TailFacts DEF ServerRefusesPublish, TypeOK, ServerTypes
  <2>2. wire' \in Seq(Chunk)
    BY <1>4, <2>1, MessageTypes, WireGrows DEF ServerRefusesPublish
  <2>3. SendTypes' /\ ReceiveTypes' /\ ThreadTypes' /\ ServerTypes' /\ HistoryTypes'
    BY <1>4, <2>1, <2>2 DEF ServerRefusesPublish, TypeOK, SendTypes, ReceiveTypes, ThreadTypes,
       ServerTypes, HistoryTypes, clientVars, bufferVars, threadVars, sendVars
  <2>4. FlagTypes'
    BY <1>4 DEF ServerRefusesPublish, TypeOK, FlagTypes, bufferVars, threadVars
  <2>5. QED
    BY <2>3, <2>4 DEF TypeOK
<1>5. QED
  BY <1>1, <1>2, <1>3, <1>4 DEF ServerStep

--------------------------------------------------------------------------------
(* The inductive invariant for NoDanglingCallback: handles are given out   *)
(* once, a call keeps its handle until its callback is gone, and the        *)
(* server's publish requests are what was sent as such.                    *)

OnWire == {wire[k].msg.handle : k \in 1 .. Len(wire)}

HandlesGivenOut ==
  /\ \A h \in Callbacks \cup srvCalls \cup OnWire : h <= RequestHandle
  /\ \A k \in 1 .. Len(srvPublish) : srvPublish[k] <= RequestHandle
  /\ \A c \in Callers : call[c].handle <= RequestHandle
PublishKind ==
  \A k \in 1 .. Len(srvPublish) : request[srvPublish[k]].kind = "publish"
NotifiedDone ==
  \A c \in Callers : call[c].pc = "notified" => call[c].handle \notin Callbacks
CallbackInCall ==
  \A h \in Callbacks : request[h].kind # "publish" /\ h \in srvCalls \cup OnWire =>
     call[request[h].caller].handle = h

ClientInv ==
  /\ TypeOK /\ HandleInCall /\ HeaderKnown /\ CallersKnown /\ RegisteredKind
  /\ HandlesGivenOut /\ PublishKind
  /\ (~ SpuriousWakeups => NotifiedDone /\ CallbackInCall)

LEMMA InitClientInv == Init => ClientInv
<1> SUFFICES ASSUME Init PROVE ClientInv
  OBVIOUS
<1>1. TypeOK /\ HandleInCall
  BY InitType
<1>2. HeaderKnown
  BY DEF Init, HeaderKnown
<1>3. OnWire = {}
  BY DEF Init, OnWire
<1>4. CallersKnown /\ RegisteredKind /\ PublishKind /\ NotifiedDone /\ CallbackInCall
  BY <1>3 DEF Init, CallersKnown, RegisteredKind, PublishKind, NotifiedDone, CallbackInCall,
     NoRequest, IdleCall
<1>5. HandlesGivenOut
  BY <1>3 DEF Init, HandlesGivenOut, IdleCall, NoHandle
<1>6. QED
  BY <1>1, <1>2, <1>4, <1>5 DEF ClientInv

LEMMA OnWireType ==
  ASSUME TypeOK PROVE OnWire \subseteq Handles
<1>1. wire \in Seq(Chunk)
  BY DEF TypeOK, ServerTypes
<1>2. ASSUME NEW k \in 1 .. Len(wire) PROVE wire[k].msg.handle \in Handles
  <2>1. wire[k] \in Chunk
    BY <1>1
  <2>2. wire[k].msg \in Message
    BY <2>1 DEF Chunk
  <2>3. QED
    BY <2>2 DEF Message
<1>3. QED
  BY <1>2 DEF OnWire

\* A fresh handle: nothing knows it yet.
LEMMA Fresh ==
  ASSUME ClientInv
  PROVE  /\ RequestHandle + 1 \notin Callbacks \cup srvCalls \cup OnWire
         /\ \A k \in 1 .. Len(srvPublish) : srvPublish[k] # RequestHandle + 1
         /\ \A c \in Callers : call[c].handle # RequestHandle + 1
         /\ RequestHandle \in Nat
<1>1. RequestHandle \in Nat
  BY ClientAssumption DEF ClientInv, TypeOK, SendTypes
<1>2. \A h \in Callbacks \cup srvCalls \cup OnWire : h # RequestHandle + 1
  BY <1>1 DEF ClientInv, HandlesGivenOut
<1>3. QED
  BY <1>1, <1>2 DEF ClientInv, HandlesGivenOut

\* What ClientInv says beyond types.
ProtocolInv ==
  /\ CallersKnown /\ RegisteredKind /\ HandlesGivenOut /\ PublishKind
  /\ (~ SpuriousWakeups => NotifiedDone /\ CallbackInCall)

\* A step that sends nothing: callbacks only go, the server learns of no handle it did
\* not know, and a call gives up its handle only when its callback is gone.
LEMMA QuietStep ==
  ASSUME ClientInv,
         UNCHANGED RequestHandle,
         \A h \in Handles : /\ request'[h].kind = request[h].kind
                            /\ request'[h].caller = request[h].caller,
         Callbacks' \subseteq Callbacks,
         \A h \in srvCalls' \cup OnWire' :
            \/ h \in srvCalls \cup OnWire
            \/ h \in Handles /\ h <= RequestHandle /\ request[h].kind = "publish",
         \A k \in 1 .. Len(srvPublish') : \E j \in 1 .. Len(srvPublish) : srvPublish'[k] = srvPublish[j],
         \A c \in Callers : call'[c].handle \in {call[c].handle, NoHandle},
         ~ SpuriousWakeups =>
            /\ NotifiedDone'
            /\ \A c \in Callers : call'[c].handle = call[c].handle \/ call[c].handle \notin Callbacks'
  PROVE  ProtocolInv'
<1>1. RequestHandle \in Nat /\ Callbacks \subseteq Handles
  BY Fresh DEF ClientInv, TypeOK, SendTypes
<1>2. CallersKnown' /\ RegisteredKind'
  BY <1>1 DEF ClientInv, CallersKnown, RegisteredKind
<1>3. PublishKind'
  <2>1. \A j \in 1 .. Len(srvPublish) : srvPublish[j] \in Handles
    BY DEF ClientInv, TypeOK, ServerTypes
  <2>2. QED
    BY <2>1 DEF ClientInv, PublishKind
<1>4. HandlesGivenOut'
  <2>1. \A h \in Callbacks' \cup srvCalls' \cup OnWire' : h <= RequestHandle
    BY DEF ClientInv, HandlesGivenOut
  <2>2. \A k \in 1 .. Len(srvPublish') : srvPublish'[k] <= RequestHandle
    BY DEF ClientInv, HandlesGivenOut
  <2>3. \A c \in Callers : call'[c].handle <= RequestHandle
    BY <1>1 DEF ClientInv, HandlesGivenOut, NoHandle
  <2>4. QED
    BY <2>1, <2>2, <2>3 DEF HandlesGivenOut
<1>5. ASSUME ~ SpuriousWakeups PROVE CallbackInCall'
  <2> SUFFICES ASSUME NEW h \in Callbacks', request'[h].kind # "publish",
                      h \in srvCalls' \cup OnWire'
               PROVE  call'[request'[h].caller].handle = h
    BY DEF CallbackInCall
  <2>1. h \in Handles /\ h \in Callbacks /\ request[h].kind # "publish"
    BY <1>1
  <2>2. request[h].caller \in Callers /\ request'[h].caller = request[h].caller
    BY <2>1 DEF ClientInv, CallersKnown, RegisteredKind
  <2>3. call[request[h].caller].handle = h
    BY <1>5, <2>1 DEF ClientInv, CallbackInCall
  <2>4. QED
    BY <1>5, <2>2, <2>3
<1>6. QED
  BY <1>2, <1>3, <1>4, <1>5 DEF ProtocolInv

\* Register adds one fresh handle.
LEMMA RegisterStep ==
  ASSUME ClientInv, NEW kind \in Kinds, kind # "none",
         NEW c \in Callers \cup {NoCaller}, kind # "publish" => c \in Callers,
         Register(kind, c)
  PROVE  /\ CallersKnown' /\ RegisteredKind'
         /\ \A h \in Handles : h # RequestHandle + 1 => request'[h] = request[h]
         /\ request'[RequestHandle + 1].kind = kind /\ request'[RequestHandle + 1].caller = c
         /\ RequestHandle + 1 \in Handles
<1>1. RequestHandle + 1 \in Handles /\ request \in [Handles -> Request] /\ Callbacks \subseteq Handles
  BY DEF Register, ClientInv, TypeOK, SendTypes
<1>2. request' = [request EXCEPT ![RequestHandle + 1] = [kind |-> kind, caller |-> c, sub |-> NoSub]]
  BY DEF Register
<1>3. /\ \A h \in Handles : h # RequestHandle + 1 => request'[h] = request[h]
      /\ request'[RequestHandle + 1].kind = kind /\ request'[RequestHandle + 1].caller = c
  BY <1>1, <1>2
<1>4. CallersKnown'
  BY <1>1, <1>3 DEF ClientInv, CallersKnown
<1>5. RegisteredKind'
  BY <1>1, <1>3 DEF ClientInv, RegisteredKind, Register
<1>6. QED
  BY <1>1, <1>3, <1>4, <1>5

\* A step that sends a request under a fresh handle.
LEMMA SendingStep ==
  ASSUME ClientInv, NEW kind \in Kinds, kind # "none",
         NEW c \in Callers \cup {NoCaller}, kind # "publish" => c \in Callers,
         Register(kind, c),
         UNCHANGED wire,
         srvCalls' \subseteq srvCalls \cup {RequestHandle + 1},
         \A k \in 1 .. Len(srvPublish') :
            \/ \E j \in 1 .. Len(srvPublish) : srvPublish'[k] = srvPublish[j]
            \/ srvPublish'[k] = RequestHandle + 1 /\ kind = "publish",
         \A d \in Callers :
            \/ call'[d].handle = call[d].handle
            \/ call[d].handle = NoHandle /\ call'[d].handle = RequestHandle + 1,
         \A d \in Callers : call'[d].pc = "notified" => call'[d] = call[d],
         kind # "publish" /\ RequestHandle + 1 \in srvCalls' => call'[c].handle = RequestHandle + 1
  PROVE  ProtocolInv'
<1>1. PICK new : new = RequestHandle + 1
  OBVIOUS
<1>2. /\ CallersKnown' /\ RegisteredKind' /\ new \in Handles
      /\ \A h \in Handles : h # new => request'[h] = request[h]
      /\ request'[new].kind = kind /\ request'[new].caller = c
  BY <1>1, RegisterStep
<1>3. /\ new \notin Callbacks \cup srvCalls \cup OnWire
      /\ \A k \in 1 .. Len(srvPublish) : srvPublish[k] # new
      /\ \A d \in Callers : call[d].handle # new
      /\ RequestHandle \in Nat
  BY <1>1, Fresh
<1>4. RequestHandle' = new /\ Callbacks' = Callbacks \cup {new} /\ OnWire' = OnWire
  BY <1>1 DEF Register, OnWire
<1>5. /\ Callbacks \subseteq Handles /\ srvCalls \subseteq Handles /\ OnWire \subseteq Handles
      /\ srvPublish \in Seq(Handles) /\ call \in [Callers -> Call]
  BY OnWireType DEF ClientInv, TypeOK, SendTypes, ServerTypes
<1>6. PublishKind'
  <2> SUFFICES ASSUME NEW k \in 1 .. Len(srvPublish')
               PROVE  request'[srvPublish'[k]].kind = "publish"
    BY DEF PublishKind
  <2>1. CASE srvPublish'[k] = new /\ kind = "publish"
    BY <1>2, <2>1
  <2>2. CASE \E j \in 1 .. Len(srvPublish) : srvPublish'[k] = srvPublish[j]
    <3>1. PICK j \in 1 .. Len(srvPublish) : srvPublish'[k] = srvPublish[j]
      BY <2>2
    <3>2. srvPublish[j] \in Handles /\ request[srvPublish[j]].kind = "publish" /\ srvPublish[j] # new
      BY <1>3, <1>5 DEF ClientInv, PublishKind
    <3>3. QED
      BY <1>2, <3>1, <3>2
  <2>3. QED
    BY <1>1, <2>1, <2>2
<1>7. HandlesGivenOut'
  <2>1. \A h \in Handles : h \in Nat
    BY ClientAssumption DEF Handles
  <2>2. new \in Nat /\ \A h \in Nat : h <= RequestHandle => h <= new
    BY <1>1, <1>3
  <2>3. ASSUME NEW h \in Callbacks' \cup srvCalls' \cup OnWire' PROVE h <= new
    <3>1. CASE h = new
      BY <2>2, <3>1
    <3>2. CASE h \in Callbacks \cup srvCalls \cup OnWire
      <4>1. h \in Nat /\ h <= RequestHandle
        BY <1>5, <2>1, <3>2 DEF ClientInv, HandlesGivenOut
      <4>2. QED
        BY <2>2, <4>1
    <3>3. QED
      BY <1>1, <1>4, <3>1, <3>2
  <2>4. ASSUME NEW k \in 1 .. Len(srvPublish') PROVE srvPublish'[k] <= new
    <3>1. CASE srvPublish'[k] = new
      BY <2>2, <3>1
    <3>2. CASE \E j \in 1 .. Len(srvPublish) : srvPublish'[k] = srvPublish[j]
      <4>1. PICK j \in 1 .. Len(srvPublish) : srvPublish'[k] = srvPublish[j]
        BY <3>2
      <4>2. srvPublish[j] \in Nat /\ srvPublish[j] <= RequestHandle
        BY <1>5, <2>1 DEF ClientInv, HandlesGivenOut
      <4>3. QED
        BY <2>2, <4>1, <4>2
    <3>3. QED
      BY <1>1, <3>1, <3>2
  <2>5. ASSUME NEW d \in Callers PROVE call'[d].handle <= new
    <3>1. call[d].handle \in Nat /\ call[d].handle <= RequestHandle
      BY <1>5, <2>1 DEF Call, NoHandle, ClientInv, HandlesGivenOut
    <3>2. QED
      BY <1>1, <2>2, <3>1
  <2>6. QED
    BY <1>4, <2>3, <2>4, <2>5 DEF HandlesGivenOut
<1>8. ASSUME ~ SpuriousWakeups PROVE NotifiedDone' /\ CallbackInCall'
  <2>1. NotifiedDone'
    BY <1>3, <1>4, <1>8 DEF ClientInv, NotifiedDone
  <2>2. CallbackInCall'
    <3> SUFFICES ASSUME NEW h \in Callbacks', request'[h].kind # "publish",
                        h \in srvCalls' \cup OnWire'
                 PROVE  call'[request'[h].caller].handle = h
      BY DEF CallbackInCall
    <3>1. CASE h = new
      BY <1>1, <1>2, <1>3, <1>4, <3>1
    <3>2. CASE h # new
      <4>1. h \in Callbacks /\ h \in Handles /\ h \in srvCalls \cup OnWire /\ request'[h] = request[h]
        BY <1>1, <1>2, <1>4, <1>5, <3>2
      <4>2. request[h].caller \in Callers
        BY <4>1 DEF ClientInv, CallersKnown, RegisteredKind
      <4>3. call[request[h].caller].handle = h
        BY <1>8, <4>1 DEF ClientInv, CallbackInCall
      <4>4. h # NoHandle
        BY <4>1, ClientAssumption DEF Handles, NoHandle
      <4>5. QED
        BY <4>1, <4>2, <4>3, <4>4
    <3>3. QED
      BY <3>1, <3>2
  <2>3. QED
    BY <2>1, <2>2
<1>9. QED
  BY <1>2, <1>6, <1>7, <1>8 DEF ProtocolInv

LEMMA SendStep ==
  ASSUME ClientInv, NEW c \in Callers, NEW kind \in CallKinds,
         Send(c, kind) \/ SendThrows(c, kind)
  PROVE  ProtocolInv'
<1>1. kind \in Kinds /\ kind \notin {"none", "publish"}
  BY ClientAssumption DEF Kinds
<1>2. call \in [Callers -> Call] /\ srvCalls \subseteq Handles /\ RequestHandle + 1 \notin srvCalls
  BY Fresh DEF ClientInv, TypeOK, SendTypes, ServerTypes
<1>3. CASE Send(c, kind)
  <2>1. Register(kind, c) /\ UNCHANGED <<wire, srvPublish>> /\ srvCalls' = srvCalls \cup {RequestHandle + 1}
    BY <1>3 DEF Send
  <2>2. /\ call' = [call EXCEPT ![c] = SentCall(RequestHandle + 1)]
        /\ call[c].handle = NoHandle
    BY <1>3 DEF Send, ClientInv, HandleInCall
  <2>3. /\ call'[c].handle = RequestHandle + 1 /\ call'[c].pc = "sent"
        /\ \A d \in Callers \ {c} : call'[d] = call[d]
    BY <1>2, <2>2 DEF SentCall
  <2>4. QED
    BY <1>1, <2>1, <2>2, <2>3, SendingStep
<1>4. CASE SendThrows(c, kind)
  <2>1. Register(kind, c) /\ UNCHANGED <<wire, srvPublish, srvCalls, call>>
    BY <1>4 DEF SendThrows, serverVars
  <2>2. QED
    BY <1>1, <1>2, <2>1, SendingStep
<1>5. QED
  BY <1>3, <1>4

LEMMA PublishStep ==
  ASSUME ClientInv, PublishTransmits \/ PublishThrows, UNCHANGED <<srvCalls, wire>>,
         \A d \in Callers : /\ call'[d].handle = call[d].handle
                            /\ call'[d].pc = "notified" => call'[d] = call[d]
  PROVE  ProtocolInv'
<1>1. /\ Register("publish", NoCaller)
      /\ srvPublish' = Append(srvPublish, RequestHandle + 1) \/ UNCHANGED srvPublish
  BY DEF PublishTransmits, PublishThrows
<1>2. srvPublish \in Seq(Handles) /\ RequestHandle + 1 \in Handles
  BY <1>1 DEF Register, ClientInv, TypeOK, ServerTypes
<1>3. \A k \in 1 .. Len(srvPublish') :
        \/ \E j \in 1 .. Len(srvPublish) : srvPublish'[k] = srvPublish[j]
        \/ srvPublish'[k] = RequestHandle + 1
  BY <1>1, <1>2
<1>4. "publish" \in Kinds
  BY DEF Kinds
<1>5. QED
  BY <1>1, <1>3, <1>4, SendingStep

\* A step that leaves the requests and what the server knows alone.
LEMMA LocalStep ==
  ASSUME ClientInv, UNCHANGED <<RequestHandle, request, srvCalls, srvPublish>>,
         OnWire' \subseteq OnWire,
         Callbacks' \subseteq Callbacks,
         \A c \in Callers : call'[c].handle \in {call[c].handle, NoHandle},
         ~ SpuriousWakeups =>
            /\ NotifiedDone'
            /\ \A c \in Callers : call'[c].handle = call[c].handle \/ call[c].handle \notin Callbacks'
  PROVE  ProtocolInv'
  BY QuietStep

LEMMA CallStepProtocol ==
  ASSUME ClientInv, NEW c \in Callers, CallStep(c) \/ SpuriousWakeup(c)
  PROVE  ProtocolInv'
<1>1. call \in [Callers -> Call] /\ call[c] \in Call
  BY DEF ClientInv, TypeOK, SendTypes
<1>2. CASE WaitForData(c) \/ TimesOut(c) \/ ReadThrows(c) \/ SpuriousWakeup(c)
  <2>1. UNCHANGED <<RequestHandle, request, srvCalls, srvPublish, wire, Callbacks>> /\ OnWire' = OnWire
    BY <1>2 DEF WaitForData, TimesOut, ReadThrows, SpuriousWakeup, sendVars, serverVars, clientVars, OnWire
  <2>2. PICK p \in {"waiting", "notified", "failed"} :
          /\ call' = [call EXCEPT ![c].pc = p]
          /\ ~ SpuriousWakeups => p # "notified"
    BY <1>2 DEF WaitForData, TimesOut, ReadThrows, SpuriousWakeup
  <2>3. /\ \A d \in Callers : call'[d].handle = call[d].handle
        /\ call'[c].pc = p /\ \A d \in Callers \ {c} : call'[d] = call[d]
    BY <1>1, <2>2 DEF Call
  <2>4. ~ SpuriousWakeups => NotifiedDone'
    BY <2>1, <2>2, <2>3 DEF ClientInv, NotifiedDone
  <2>5. QED
    BY <2>1, <2>3, <2>4, LocalStep
<1>3. CASE RemoveCallback(c)
  <2>1. /\ UNCHANGED <<RequestHandle, request, srvCalls, srvPublish, wire>> /\ OnWire' = OnWire
        /\ Callbacks' = Callbacks \ {call[c].handle}
    BY <1>3 DEF RemoveCallback, CallbacksWithout, sendVars, serverVars, OnWire
  <2>2. /\ call'[c] = IdleCall /\ \A d \in Callers \ {c} : call'[d] = call[d]
        /\ call'[c].pc = "idle" /\ call'[c].handle = NoHandle
    BY <1>1, <1>3 DEF RemoveCallback, IdleCall
  <2>3. ~ SpuriousWakeups => NotifiedDone'
    BY <2>1, <2>2 DEF ClientInv, NotifiedDone
  <2>4. QED
    BY <2>1, <2>2, <2>3, LocalStep
<1>4. CASE Returns(c)
  <2>1. /\ UNCHANGED <<RequestHandle, request, srvCalls, srvPublish, wire, Callbacks>> /\ OnWire' = OnWire
        /\ call[c].pc = "notified"
    BY <1>4 DEF Returns, sendVars, serverVars, OnWire
  <2>2. PICK next \in {IdleCall, PublishingCall(2)} : call' = [call EXCEPT ![c] = next]
    BY <1>4 DEF Returns
  <2>3. /\ call'[c].pc # "notified" /\ call'[c].handle = NoHandle
        /\ \A d \in Callers \ {c} : call'[d] = call[d]
    BY <1>1, <2>2 DEF IdleCall, PublishingCall
  <2>4. ~ SpuriousWakeups => NotifiedDone'
    BY <2>1, <2>3 DEF ClientInv, NotifiedDone
  <2>5. ~ SpuriousWakeups => call[c].handle \notin Callbacks'
    BY <2>1 DEF ClientInv, NotifiedDone
  <2>6. QED
    BY <2>1, <2>3, <2>4, <2>5, LocalStep
<1>5. CASE InitialPublish(c) \/ InitialPublishThrows(c)
  <2>1. /\ PublishTransmits \/ PublishThrows
        /\ UNCHANGED <<srvCalls, wire>> /\ call[c].pc = "publishing"
    BY <1>5 DEF InitialPublish, InitialPublishThrows
  <2>2. call[c].handle = NoHandle
    BY <2>1 DEF ClientInv, HandleInCall
  <2>3. PICK next \in {IdleCall, PublishingCall(call[c].left - 1)} : call' = [call EXCEPT ![c] = next]
    BY <1>5 DEF InitialPublish, InitialPublishThrows
  <2>4. /\ call'[c].pc # "notified" /\ call'[c].handle = NoHandle
        /\ \A d \in Callers \ {c} : call'[d] = call[d]
    BY <1>1, <2>3 DEF IdleCall, PublishingCall
  <2>5. QED
    BY <2>1, <2>2, <2>4, PublishStep
<1>6. QED
  BY <1>2, <1>3, <1>4, <1>5 DEF CallStep

\* The first chunk gone, nothing new is on the wire.
LEMMA WireShrinks ==
  ASSUME TypeOK, wire # <<>>, wire' = Tail(wire)
  PROVE  OnWire' \subseteq OnWire
<1>1. wire \in Seq(Chunk)
  BY DEF TypeOK, ServerTypes
<1>2. \A k \in 1 .. Len(Tail(wire)) : k + 1 \in 1 .. Len(wire) /\ Tail(wire)[k] = wire[k + 1]
  BY <1>1, TailFacts
<1>3. QED
  BY <1>2 DEF OnWire

LEMMA ReceiveProtocol ==
  ASSUME ClientInv, ReceiveStep \/ ReceiveThrows
  PROVE  ProtocolInv'
<1>1. call \in [Callers -> Call] /\ TypeOK
  BY DEF ClientInv, TypeOK, SendTypes
<1>2. CASE ReceiveThrows
  <2>1. UNCHANGED <<RequestHandle, request, srvCalls, srvPublish, wire, Callbacks, call>>
    BY <1>2 DEF ReceiveThrows, sendVars, serverVars, clientVars
  <2>2. OnWire' = OnWire /\ (~ SpuriousWakeups => NotifiedDone')
    BY <2>1 DEF OnWire, ClientInv, NotifiedDone
  <2>3. QED
    BY <2>1, <2>2, LocalStep
<1>3. CASE ReceiveIntermediate \/ ReceiveUnexpected
  <2>1. /\ UNCHANGED <<RequestHandle, request, srvCalls, srvPublish, Callbacks, call>>
        /\ wire # <<>> /\ wire' = Tail(wire)
    BY <1>3 DEF ReceiveIntermediate, ReceiveUnexpected, sendVars, clientVars
  <2>2. OnWire' \subseteq OnWire /\ (~ SpuriousWakeups => NotifiedDone')
    BY <1>1, <2>1, WireShrinks DEF ClientInv, NotifiedDone
  <2>3. QED
    BY <2>1, <2>2, LocalStep
<1>4. CASE ReceiveResponse
  <2> DEFINE h == ParsedHeader(Head(wire)).handle
             data == Append(messageBuffer, Head(wire).msg)
  <2>1. /\ UNCHANGED <<RequestHandle, request, srvCalls, srvPublish>>
        /\ wire # <<>> /\ wire' = Tail(wire) /\ h \in Callbacks /\ Callbacks' = Callbacks \ {h}
        /\ call' = call \/ (request[h].kind # "publish" /\ OnData(h, data))
    BY <1>4 DEF ReceiveResponse, sendVars
  <2>2. OnWire' \subseteq OnWire
    BY <1>1, <2>1, WireShrinks
  <2>3. h \in Handles /\ data \in Seq(Message)
    BY <2>1, HeaderType DEF ClientInv
  <2> HIDE DEF h, data
  <2>4. request[h].kind # "publish" => request[h].caller \in Callers
    BY <2>1, <2>3 DEF ClientInv, CallersKnown, RegisteredKind
  <2>5. \A d \in Callers : call'[d].handle = call[d].handle
    BY <1>1, <2>1, <2>3, <2>4, OnDataType DEF ClientInv
  <2>6. \A d \in Callers : call'[d].pc = "notified" => call[d].pc = "notified" \/ call[d].handle = h
    BY <1>1, <2>1, <2>4 DEF OnData, Delivered
  <2>7. ~ SpuriousWakeups => NotifiedDone'
    BY <2>1, <2>5, <2>6 DEF ClientInv, NotifiedDone
  <2>8. QED
    BY <2>1, <2>2, <2>5, <2>7, LocalStep
<1>5. QED
  BY <1>2, <1>3, <1>4 DEF ReceiveStep

LEMMA OtherProtocol ==
  ASSUME ClientInv,
         AbortSession \/ CallbackThreadStep \/ DestructorStep \/ UNCHANGED vars
  PROVE  ProtocolInv'
<1>1. CASE CallbackHandles \/ CallbackCannotAcknowledge
  <2>1. PublishTransmits \/ PublishThrows
    BY <1>1 DEF CallbackHandles, CallbackCannotAcknowledge
  <2>2. UNCHANGED <<srvCalls, wire, call>>
    BY <1>1 DEF CallbackHandles, CallbackCannotAcknowledge
  <2>3. QED
    BY <2>1, <2>2, PublishStep
<1>2. CASE ~ (CallbackHandles \/ CallbackCannotAcknowledge)
  <2>1. UNCHANGED <<RequestHandle, request, srvCalls, srvPublish, wire, Callbacks, call>>
    BY <1>2 DEF AbortSession, CallbackThreadStep, CallbackThreadChecks, CallbackThreadBlocks,
       CallbackThrows, CallbackUnknown, CallbackRefused, DestructorStep, DestructorStops,
       DestructorJoinsCallbackThread, DestructorJoinsReceiveThread, vars, sendVars, serverVars,
       clientVars
  <2>2. OnWire' = OnWire /\ (~ SpuriousWakeups => NotifiedDone')
    BY <2>1 DEF OnWire, ClientInv, NotifiedDone
  <2>3. QED
    BY <2>1, <2>2, LocalStep
<1>3. QED
  BY <1>1, <1>2

LEMMA ServerProtocol ==
  ASSUME ClientInv,
         ServerStep
  PROVE  ProtocolInv'
<1>1. /\ request \in [Handles -> Request] /\ TypeOK
      /\ srvPublish \in Seq(Handles)
  BY DEF ClientInv, TypeOK, SendTypes, ServerTypes
<1>2. ASSUME NEW h \in Handles, ServerCreates(h)
      PROVE  ProtocolInv'
  <2>1. /\ UNCHANGED <<RequestHandle, srvCalls, srvPublish, wire, Callbacks, call>>
        /\ request' = [request EXCEPT ![h].sub = Cardinality(srvSubs) + 1]
    BY <1>2 DEF ServerCreates, clientVars
  <2>2. \A g \in Handles : request'[g].kind = request[g].kind /\ request'[g].caller = request[g].caller
    BY <1>1, <2>1 DEF Request
  <2>3. OnWire' = OnWire /\ (~ SpuriousWakeups => NotifiedDone')
    BY <2>1 DEF OnWire, ClientInv, NotifiedDone
  <2>4. QED
    BY <2>1, <2>2, <2>3, QuietStep
<1>3. ASSUME NEW h \in Handles, ServerAnswers(h) \/ ServerRefuses(h)
      PROVE  ProtocolInv'
  <2>1. /\ UNCHANGED <<RequestHandle, request, srvPublish, Callbacks, call>>
        /\ h \in srvCalls /\ srvCalls' = srvCalls \ {h}
    BY <1>3 DEF ServerAnswers, ServerRefuses, sendVars, clientVars
  <2>2. request[h].sub \in Subs \cup {NoSub}
    BY <1>1 DEF Request
  <2>3. \A k \in 1 .. Len(wire') : \/ wire'[k].msg.handle = h
                                   \/ \E j \in 1 .. Len(wire) : wire'[k] = wire[j]
    <3>1. PICK msg \in Message :
             msg.handle = h /\ \E chunks \in Chunks(msg) : wire' = wire \o chunks
      BY <1>3, <2>2, MessageTypes DEF ServerAnswers, ServerRefuses, Refusal
    <3>2. \A k \in 1 .. Len(wire') :
             wire'[k].msg = msg \/ \E j \in 1 .. Len(wire) : wire'[k] = wire[j]
      BY <1>1, <3>1, WireGrows
    <3>3. QED
      BY <3>1, <3>2
  <2>4. \A g \in srvCalls' \cup OnWire' : g \in srvCalls \cup OnWire
    BY <2>1, <2>3 DEF OnWire
  <2>5. ~ SpuriousWakeups => NotifiedDone'
    BY <2>1 DEF ClientInv, NotifiedDone
  <2>6. QED
    BY <2>1, <2>4, <2>5, QuietStep
<1>4. CASE (\E s \in Subs : ServerPublishes(s)) \/ ServerRefusesPublish
  <2>1. /\ UNCHANGED <<RequestHandle, request, srvCalls, Callbacks, call>>
        /\ srvPublish # <<>> /\ srvPublish' = Tail(srvPublish)
    BY <1>4 DEF ServerPublishes, ServerRefusesPublish, sendVars, clientVars
  <2>2. PICK h : h = Head(srvPublish)
    OBVIOUS
  <2>3. h \in Handles /\ h = srvPublish[1] /\ 1 \in 1 .. Len(srvPublish)
    BY <1>1, <2>1, <2>2
  <2>4. h <= RequestHandle /\ request[h].kind = "publish"
    BY <2>3 DEF ClientInv, HandlesGivenOut, PublishKind
  <2>5. PICK msg \in Message :
           msg.handle = h /\ \E chunks \in Chunks(msg) : wire' = wire \o chunks
    BY <1>4, <2>2, <2>3, MessageTypes DEF ServerPublishes, ServerRefusesPublish, Refusal
  <2>6. \A k \in 1 .. Len(wire') : \/ wire'[k].msg.handle = h
                                   \/ \E j \in 1 .. Len(wire) : wire'[k] = wire[j]
    <3>1. \A k \in 1 .. Len(wire') :
             wire'[k].msg = msg \/ \E j \in 1 .. Len(wire) : wire'[k] = wire[j]
      BY <1>1, <2>5, WireGrows
    <3>2. QED
      BY <2>5, <3>1
  <2>7. \A g \in srvCalls' \cup OnWire' : g \in srvCalls \cup OnWire \/ g = h
    BY <2>1, <2>6 DEF OnWire
  <2>8. \A k \in 1 .. Len(srvPublish') : \E j \in 1 .. Len(srvPublish) : srvPublish'[k] = srvPublish[j]
    BY <1>1, <2>1, TailFacts
  <2>9. ~ SpuriousWakeups => NotifiedDone'
    BY <2>1 DEF ClientInv, NotifiedDone
  <2>10. QED
    BY <2>1, <2>3, <2>4, <2>7, <2>8, <2>9, QuietStep
<1>5. QED
  BY <1>2, <1>3, <1>4 DEF ServerStep

LEMMA NextType ==
  ASSUME ClientInv, [Next]_vars
  PROVE  TypeOK' /\ HandleInCall' /\ HeaderKnown'
<1>1. TypeOK /\ HandleInCall /\ HeaderKnown /\ CallersKnown /\ RegisteredKind
  BY DEF ClientInv
<1>2. ASSUME NEW c \in Callers, NEW kind \in CallKinds, Send(c, kind) \/ SendThrows(c, kind)
      PROVE  TypeOK' /\ HandleInCall' /\ HeaderKnown'
  <2>1. UNCHANGED bufferVars
    BY <1>2 DEF Send, SendThrows
  <2>2. QED
    BY <1>1, <1>2, <2>1, SendType DEF HeaderKnown, bufferVars
<1>3. ASSUME NEW c \in Callers, CallStep(c) \/ SpuriousWakeup(c)
      PROVE  TypeOK' /\ HandleInCall' /\ HeaderKnown'
  <2>1. UNCHANGED bufferVars
    BY <1>3 DEF CallStep, WaitForData, TimesOut, ReadThrows, RemoveCallback, Returns,
       InitialPublish, InitialPublishThrows,
       SpuriousWakeup
  <2>2. TypeOK' /\ HandleInCall'
    BY <1>1, <1>3, MoveType, RemoveCallbackType, ReturnsType, InitialPublishType DEF CallStep
  <2>3. QED
    BY <1>1, <2>1, <2>2 DEF HeaderKnown, bufferVars
<1>4. CASE ReceiveStep
  <2>1. ReceiveIntermediate \/ ReceiveUnexpected => UNCHANGED call
    BY DEF ReceiveIntermediate, ReceiveUnexpected
  <2>2. QED
    BY <1>1, <1>4, <2>1, ReceiveIntermediateType, ReceiveUnexpectedType, ReceiveResponseType
       DEF ReceiveStep, HandleInCall
<1>5. CASE \/ AbortSession \/ ReceiveThrows \/ CallbackThreadStep \/ DestructorStep
           \/ ServerStep
  <2>1. TypeOK'
    BY <1>1, <1>5, AbortSessionType, ReceiveThrowsType, CallbackThreadType, DestructorType,
       ServerType
  <2>2. UNCHANGED <<bufferVars, call>>
    BY <1>5 DEF AbortSession, ReceiveThrows, CallbackThreadStep, CallbackThreadChecks,
       CallbackThreadBlocks, CallbackHandles, CallbackCannotAcknowledge, CallbackThrows,
       CallbackUnknown, CallbackRefused, DestructorStep,
       DestructorStops, DestructorJoinsCallbackThread, DestructorJoinsReceiveThread,
       ServerStep, ServerCreates, ServerAnswers, ServerRefuses, ServerPublishes,
       ServerRefusesPublish
  <2>3. QED
    BY <1>1, <2>1, <2>2 DEF HandleInCall, HeaderKnown, bufferVars
<1>6. CASE UNCHANGED vars
  <2>1. SendTypes' /\ ReceiveTypes' /\ ThreadTypes' /\ ServerTypes' /\ HistoryTypes'
    BY <1>1, <1>6 DEF vars, TypeOK, SendTypes, ReceiveTypes, ThreadTypes, ServerTypes,
       HistoryTypes, clientVars, bufferVars, threadVars, serverVars, sendVars
  <2>2. FlagTypes'
    BY <1>1, <1>6 DEF vars, TypeOK, FlagTypes, bufferVars, threadVars
  <2>3. HandleInCall' /\ HeaderKnown'
    BY <1>1, <1>6 DEF vars, HandleInCall, HeaderKnown, bufferVars
  <2>4. QED
    BY <2>1, <2>2, <2>3 DEF TypeOK
<1>7. QED
  BY <1>2, <1>3, <1>4, <1>5, <1>6 DEF Next

LEMMA NextClientInv == ClientInv /\ [Next]_vars => ClientInv'
<1> SUFFICES ASSUME ClientInv, [Next]_vars PROVE ClientInv'
  OBVIOUS
<1>1. TypeOK' /\ HandleInCall' /\ HeaderKnown'
  BY NextType
<1>2. ProtocolInv'
  BY SendStep, CallStepProtocol, ReceiveProtocol, OtherProtocol, ServerProtocol DEF Next
<1>3. QED
  BY <1>1, <1>2 DEF ClientInv, ProtocolInv

--------------------------------------------------------------------------------
(* Results *)

\* Every variable of the client keeps its type: in particular the header that
\* parseMessage keeps between chunks is that of a request, and the callback thread
\* has a callback in hand exactly while it calls one.
THEOREM TypeCorrect == Spec => []TypeOK
<1>1. ClientInv => TypeOK
  BY DEF ClientInv
<1>2. QED
  BY <1>1, InitClientInv, NextClientInv, PTL DEF Spec

\* If condition variables never wake up by themselves, the callback of every request
\* that can still be answered belongs to a call that is still inside Send (Send, Receive).
THEOREM NoDangling ==
  ASSUME ~ SpuriousWakeups
  PROVE  Spec => []NoDanglingCallback
<1>1. ClientInv => NoDanglingCallback
  BY DEF ClientInv, CallbackInCall, NoDanglingCallback, OnWire
<1>2. QED
  BY <1>1, InitClientInv, NextClientInv, PTL DEF Spec
=================================================================================
