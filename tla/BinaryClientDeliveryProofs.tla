---------------------- MODULE BinaryClientDeliveryProofs ----------------------
(***************************************************************************)
(* What BinaryClient delivers as long as every response finds its          *)
(* callback: proofs that a call returns its own response, that             *)
(* notifications reach the application in order, and that those of a sole  *)
(* subscription find the application's callback.                           *)
(***************************************************************************)
EXTENDS BinaryClientProofs

LEMMA ClientInvariant == Spec => []ClientInv
  BY InitClientInv, NextClientInv, PTL DEF Spec

--------------------------------------------------------------------------------
(* The stream from the server and messageBuffer                                *)

\* A message is sent as one chunk or as two, without another in between.
ChunksPaired ==
  \A k \in 1 .. Len(wire) : ~wire[k].last =>
     k + 1 \in 1 .. Len(wire) /\ wire[k + 1].last /\ wire[k + 1].msg = wire[k].msg

\* The header kept between the chunks of a message is that of the chunk to come.
HeaderMatches ==
  firstMsgParsed => 1 \in 1 .. Len(wire) /\ wire[1].last /\ wire[1].msg = header

\* messageBuffer holds what has been received of an incomplete message.
BufferMatches ==
  late = {} => messageBuffer = IF firstMsgParsed THEN <<header>> ELSE <<>>

StreamInv == ChunksPaired /\ HeaderMatches /\ BufferMatches

\* A response that found no callback is never forgotten.
LEMMA LateStays ==
  ASSUME [Next]_vars
  PROVE  late \subseteq late'
  BY DEF Next, vars, Send, SendThrows, CallStep, WaitForData, TimesOut, ReadThrows, RemoveCallback,
     Returns, InitialPublish, InitialPublishThrows, SpuriousWakeup, AbortSession, ReceiveStep,
     ReceiveIntermediate, ReceiveUnexpected, ReceiveResponse, ReceiveThrows, CallbackThreadStep,
     CallbackThreadChecks, CallbackThreadBlocks, CallbackHandles, CallbackCannotAcknowledge,
     CallbackThrows, CallbackUnknown, CallbackRefused, DestructorStep, DestructorStops,
     DestructorJoinsCallbackThread, DestructorJoinsReceiveThread, ServerStep, ServerCreates,
     ServerAnswers, ServerRefuses, ServerPublishes, ServerRefusesPublish

\* The server sends one message more.
ServerSends(msg) ==
  /\ \E chunks \in Chunks(msg) : wire' = wire \o chunks
  /\ UNCHANGED <<bufferVars, late>>

\* What a step does to the stream.
LEMMA StreamSteps ==
  ASSUME TypeOK, [Next]_vars
  PROVE  \/ UNCHANGED <<wire, bufferVars, late>>
         \/ ReceiveStep
         \/ \E msg \in Message : ServerSends(msg)
<1>1. CASE UNCHANGED vars
  BY <1>1 DEF vars, serverVars
<1>2. ASSUME NEW c \in Callers, NEW kind \in CallKinds, Send(c, kind) \/ SendThrows(c, kind)
      PROVE  UNCHANGED <<wire, bufferVars, late>>
  BY <1>2 DEF Send, SendThrows, serverVars
<1>3. ASSUME NEW c \in Callers, CallStep(c) \/ SpuriousWakeup(c)
      PROVE  UNCHANGED <<wire, bufferVars, late>>
  BY <1>3 DEF CallStep, WaitForData, TimesOut, ReadThrows, RemoveCallback, Returns, InitialPublish,
     InitialPublishThrows, SpuriousWakeup, serverVars
<1>4. ASSUME AbortSession \/ ReceiveThrows \/ CallbackThreadStep \/ DestructorStep
      PROVE  UNCHANGED <<wire, bufferVars, late>>
  BY <1>4 DEF AbortSession, ReceiveThrows, CallbackThreadStep, CallbackThreadChecks,
     CallbackThreadBlocks, CallbackHandles, CallbackCannotAcknowledge, CallbackThrows,
     CallbackUnknown, CallbackRefused, DestructorStep, DestructorStops,
     DestructorJoinsCallbackThread, DestructorJoinsReceiveThread, serverVars
<1>5. ASSUME ServerStep
      PROVE  UNCHANGED <<wire, bufferVars, late>> \/ \E msg \in Message : ServerSends(msg)
  <2>1. request \in [Handles -> Request] /\ srvPublish \in Seq(Handles) /\ srvSubs \in SUBSET Subs
    BY DEF TypeOK, SendTypes, ServerTypes
  <2>2. ASSUME NEW h \in Handles, ServerCreates(h)
        PROVE  UNCHANGED <<wire, bufferVars, late>>
    BY <2>2 DEF ServerCreates
  <2>3. ASSUME NEW h \in Handles, ServerAnswers(h)
        PROVE  \E msg \in Message : ServerSends(msg)
    <3>1. request[h].sub \in Subs \cup {NoSub}
      BY <2>1 DEF Request
    <3>2. ServerSends([handle |-> h, sub |-> request[h].sub, good |-> TRUE])
      BY <2>3 DEF ServerAnswers, ServerSends
    <3> QED  BY <3>1, <3>2, MessageTypes
  <2>4. ASSUME NEW h \in Handles, ServerRefuses(h)
        PROVE  \E msg \in Message : ServerSends(msg)
    <3>1. ServerSends(Refusal(h)) /\ NoSub \in Subs \cup {NoSub}
      BY <2>4 DEF ServerRefuses, ServerSends
    <3> QED  BY <3>1, MessageTypes
  <2>5. ASSUME NEW s \in Subs, ServerPublishes(s)
        PROVE  \E msg \in Message : ServerSends(msg)
    <3>1. Head(srvPublish) \in Handles
      BY <2>1, <2>5, TailFacts DEF ServerPublishes
    <3>2. ServerSends([handle |-> Head(srvPublish), sub |-> s, good |-> TRUE])
      BY <2>5 DEF ServerPublishes, ServerSends
    <3> QED  BY <3>1, <3>2, MessageTypes
  <2>6. ASSUME ServerRefusesPublish
        PROVE  \E msg \in Message : ServerSends(msg)
    <3>1. Head(srvPublish) \in Handles /\ NoSub \in Subs \cup {NoSub}
      BY <2>1, <2>6, TailFacts DEF ServerRefusesPublish
    <3>2. ServerSends(Refusal(Head(srvPublish)))
      BY <2>6 DEF ServerRefusesPublish, ServerSends
    <3> QED  BY <3>1, <3>2, MessageTypes
  <2> QED  BY <1>5, <2>2, <2>3, <2>4, <2>5, <2>6 DEF ServerStep
<1> QED  BY <1>1, <1>2, <1>3, <1>4, <1>5 DEF Next

\* One message more at the end of the stream.
LEMMA WireAppended ==
  ASSUME NEW w \in Seq(Chunk), NEW msg \in Message, NEW chunks \in Chunks(msg)
  PROVE  /\ w \o chunks \in Seq(Chunk)
         /\ Len(w \o chunks) > Len(w) /\ Len(w \o chunks) <= Len(w) + 2
         /\ \A k \in 1 .. Len(w) : (w \o chunks)[k] = w[k]
         /\ \A k \in 1 .. Len(w \o chunks) : k > Len(w) =>
              /\ (w \o chunks)[k].msg = msg
              /\ (w \o chunks)[k].last <=> k = Len(w \o chunks)
<1>1. /\ chunks \in Seq(Chunk) /\ Len(chunks) \in 1 .. 2
      /\ \A k \in 1 .. Len(chunks) : chunks[k].msg = msg /\ (chunks[k].last <=> k = Len(chunks))
  <2>1. CASE chunks = <<[msg |-> msg, last |-> TRUE]>>
    BY <2>1 DEF Chunk
  <2>2. CASE chunks = <<[msg |-> msg, last |-> FALSE], [msg |-> msg, last |-> TRUE]>>
    BY <2>2 DEF Chunk
  <2> QED  BY <2>1, <2>2 DEF Chunks
<1>2. Len(w) \in Nat /\ Len(w \o chunks) = Len(w) + Len(chunks) /\ w \o chunks \in Seq(Chunk)
  BY <1>1
<1>3. \A k \in 1 .. Len(w) + Len(chunks) :
        (w \o chunks)[k] = IF k <= Len(w) THEN w[k] ELSE chunks[k - Len(w)]
  BY <1>1, ConcatProperties
<1>4. ASSUME NEW k \in 1 .. Len(w \o chunks), k > Len(w)
      PROVE  /\ (w \o chunks)[k].msg = msg
             /\ (w \o chunks)[k].last <=> k = Len(w \o chunks)
  <2>1. k - Len(w) \in 1 .. Len(chunks) /\ (k = Len(w \o chunks) <=> k - Len(w) = Len(chunks))
    BY <1>1, <1>2, <1>4
  <2>2. (w \o chunks)[k] = chunks[k - Len(w)]
    BY <1>1, <1>2, <1>3, <1>4
  <2> QED  BY <1>1, <2>1, <2>2
<1>5. Len(w \o chunks) > Len(w) /\ Len(w \o chunks) <= Len(w) + 2
      /\ \A k \in 1 .. Len(w) : (w \o chunks)[k] = w[k]
  BY <1>1, <1>2, <1>3
<1> QED  BY <1>2, <1>4, <1>5, Zenon

\* The message that Receive completes: its header and the front of its data are those of
\* the last chunk, however many there were.
LEMMA HeadMessage ==
  ASSUME TypeOK, StreamInv, wire # <<>>
  PROVE  /\ ParsedHeader(Head(wire)) = Head(wire).msg
         /\ ~Head(wire).last => ~firstMsgParsed
         /\ late = {} => Append(messageBuffer, Head(wire).msg)[1] = Head(wire).msg
<1>1. Head(wire) = wire[1] /\ messageBuffer \in Seq(Message) /\ Head(wire).msg \in Message
  <2>1. wire \in Seq(Chunk) /\ messageBuffer \in Seq(Message)
    BY DEF TypeOK, ServerTypes, ReceiveTypes
  <2>2. Head(wire) \in Chunk /\ Head(wire) = wire[1]
    BY <2>1, TailFacts
  <2> QED  BY <2>1, <2>2 DEF Chunk
<1>2. ParsedHeader(Head(wire)) = Head(wire).msg
  BY <1>1 DEF ParsedHeader, StreamInv, HeaderMatches
<1>3. ~Head(wire).last => ~firstMsgParsed
  BY <1>1 DEF StreamInv, HeaderMatches
<1>4. ASSUME late = {} PROVE Append(messageBuffer, Head(wire).msg)[1] = Head(wire).msg
  <2>1. CASE firstMsgParsed
    <3>1. messageBuffer = <<Head(wire).msg>>
      BY <1>1, <1>4, <2>1 DEF StreamInv, HeaderMatches, BufferMatches
    <3> QED  BY <3>1
  <2>2. CASE ~firstMsgParsed
    <3>1. messageBuffer = <<>>
      BY <1>4, <2>2 DEF StreamInv, BufferMatches
    <3> QED  BY <3>1
  <2> QED  BY <2>1, <2>2
<1> QED  BY <1>2, <1>3, <1>4

LEMMA InitStream == Init => StreamInv
  BY DEF Init, StreamInv, ChunksPaired, HeaderMatches, BufferMatches

LEMMA NextStream ==
  ASSUME TypeOK, StreamInv, [Next]_vars
  PROVE  StreamInv'
<1>1. wire \in Seq(Chunk)
  BY DEF TypeOK, ServerTypes
<1>2. CASE UNCHANGED <<wire, bufferVars, late>>
  BY <1>2 DEF bufferVars, StreamInv, ChunksPaired, HeaderMatches, BufferMatches
<1>3. ASSUME NEW msg \in Message, ServerSends(msg)
      PROVE  StreamInv'
  <2>1. PICK chunks \in Chunks(msg) : wire' = wire \o chunks
    BY <1>3 DEF ServerSends
  <2>2. /\ wire' \in Seq(Chunk) /\ Len(wire') > Len(wire) /\ Len(wire') <= Len(wire) + 2
        /\ \A k \in 1 .. Len(wire) : wire'[k] = wire[k]
        /\ \A k \in 1 .. Len(wire') : k > Len(wire) =>
             wire'[k].msg = msg /\ (wire'[k].last <=> k = Len(wire'))
    BY <1>1, <2>1, WireAppended
  <2>3. Len(wire) \in Nat /\ Len(wire') \in Nat
    BY <1>1, <2>2
  <2>4. ChunksPaired'
    <3> SUFFICES ASSUME NEW k \in 1 .. Len(wire'), ~wire'[k].last
                 PROVE  k + 1 \in 1 .. Len(wire') /\ wire'[k + 1].last /\ wire'[k + 1].msg = wire'[k].msg
      BY DEF ChunksPaired
    <3>1. CASE k <= Len(wire)
      <4>1. k \in 1 .. Len(wire) /\ wire'[k] = wire[k]
        BY <2>2, <2>3, <3>1
      <4>2. k + 1 \in 1 .. Len(wire) /\ wire[k + 1].last /\ wire[k + 1].msg = wire[k].msg
        BY <4>1 DEF StreamInv, ChunksPaired
      <4> QED  BY <2>2, <2>3, <4>1, <4>2
    <3>2. CASE k > Len(wire)
      <4>1. k # Len(wire') /\ k + 1 \in 1 .. Len(wire') /\ k + 1 > Len(wire)
        BY <2>2, <2>3, <3>2
      <4>2. wire'[k + 1].msg = msg /\ (wire'[k + 1].last <=> k + 1 = Len(wire')) /\ wire'[k].msg = msg
        BY <2>2, <3>2, <4>1
      <4>3. k + 1 = Len(wire')
        BY <2>2, <2>3, <3>2, <4>1
      <4> QED  BY <4>1, <4>2, <4>3
    <3> QED  BY <2>3, <3>1, <3>2
  <2>5. HeaderMatches'
    <3>1. 1 \in 1 .. Len(wire) => 1 \in 1 .. Len(wire') /\ wire'[1] = wire[1]
      BY <2>2, <2>3
    <3> QED  BY <1>3, <3>1 DEF StreamInv, HeaderMatches, ServerSends, bufferVars
  <2>6. BufferMatches'
    BY <1>3 DEF StreamInv, BufferMatches, ServerSends, bufferVars
  <2> QED  BY <2>4, <2>5, <2>6 DEF StreamInv
<1>4. CASE ReceiveStep
  <2>1. wire # <<>> /\ wire' = Tail(wire)
    BY <1>4 DEF ReceiveStep, ReceiveIntermediate, ReceiveUnexpected, ReceiveResponse
  <2>2. /\ Len(wire) \in Nat /\ Len(wire) > 0 /\ Len(wire') = Len(wire) - 1
        /\ Head(wire) = wire[1]
        /\ \A k \in 1 .. Len(wire') : k + 1 \in 1 .. Len(wire) /\ wire'[k] = wire[k + 1]
    BY <1>1, <2>1
  <2>3. ChunksPaired'
    <3> SUFFICES ASSUME NEW k \in 1 .. Len(wire'), ~wire'[k].last
                 PROVE  k + 1 \in 1 .. Len(wire') /\ wire'[k + 1].last /\ wire'[k + 1].msg = wire'[k].msg
      BY DEF ChunksPaired
    <3>1. /\ (k + 1) + 1 \in 1 .. Len(wire)
          /\ wire[(k + 1) + 1].last /\ wire[(k + 1) + 1].msg = wire[k + 1].msg
      BY <2>2 DEF StreamInv, ChunksPaired
    <3>2. k + 1 \in 1 .. Len(wire')
      BY <2>2, <3>1
    <3> QED  BY <2>2, <3>1, <3>2
  <2>4. CASE ReceiveIntermediate
    <3>1. ~wire[1].last /\ firstMsgParsed' /\ header' = ParsedHeader(Head(wire)) /\ late' = late
          /\ messageBuffer' = Append(messageBuffer, Head(wire).msg)
      BY <2>2, <2>4 DEF ReceiveIntermediate
    <3>2. header' = Head(wire).msg /\ ~firstMsgParsed
      BY <2>1, <2>2, <3>1, HeadMessage
    <3>3. 1 \in 1 .. Len(wire) /\ 1 + 1 \in 1 .. Len(wire) /\ wire[1 + 1].last /\ wire[1 + 1].msg = wire[1].msg
      BY <2>2, <3>1 DEF StreamInv, ChunksPaired
    <3>4. 1 \in 1 .. Len(wire') /\ wire'[1] = wire[1 + 1]
      BY <2>2, <3>3
    <3>5. HeaderMatches'
      BY <2>2, <3>2, <3>3, <3>4 DEF HeaderMatches
    <3>6. late = {} => messageBuffer' = <<Head(wire).msg>>
      <4>1. late = {} => messageBuffer = <<>>
        BY <3>2 DEF StreamInv, BufferMatches
      <4> QED  BY <3>1, <4>1
    <3>7. BufferMatches'
      BY <3>1, <3>2, <3>6 DEF BufferMatches
    <3> QED  BY <2>3, <3>5, <3>7 DEF StreamInv
  <2>5. CASE ReceiveUnexpected
    <3>1. ~firstMsgParsed' /\ late' # {}
      BY <2>5 DEF ReceiveUnexpected
    <3> QED  BY <2>3, <3>1 DEF StreamInv, HeaderMatches, BufferMatches
  <2>6. CASE ReceiveResponse
    <3>1. ~firstMsgParsed' /\ messageBuffer' = <<>>
      BY <2>6 DEF ReceiveResponse, Consumed
    <3> QED  BY <2>3, <3>1 DEF StreamInv, HeaderMatches, BufferMatches
  <2> QED  BY <1>4, <2>4, <2>5, <2>6 DEF ReceiveStep
<1> QED  BY <1>2, <1>3, <1>4, StreamSteps

LEMMA StreamInvariant == Spec => []StreamInv
<1>1. ClientInv => TypeOK
  BY DEF ClientInv
<1> QED  BY <1>1, ClientInvariant, InitStream, NextStream, PTL DEF Spec

--------------------------------------------------------------------------------
(* A call returns its own response                                             *)

\* What a call has received begins with its own response.
DataIsOwn ==
  late = {} => \A c \in Callers : call[c].data # <<>> => call[c].data[1].handle = call[c].handle

\* The data of a call stay its data, or it has none.
DataStays ==
  \A c \in Callers : call'[c].data = <<>> \/
     (call'[c].data = call[c].data /\ call'[c].handle = call[c].handle)

LEMMA DataSteps ==
  ASSUME TypeOK, [Next]_vars
  PROVE  DataStays \/ ReceiveResponse
<1>1. call \in [Callers -> Call]
  BY DEF TypeOK, SendTypes
<1>2. CASE call' = call
  BY <1>2 DEF DataStays
<1>3. ASSUME NEW c \in Callers, NEW new, call' = [call EXCEPT ![c] = new], new.data = <<>>
      PROVE  DataStays
  BY <1>1, <1>3 DEF DataStays
<1>4. /\ IdleCall.data = <<>> /\ \A h : SentCall(h).data = <<>>
      /\ \A n : PublishingCall(n).data = <<>>
  BY DEF IdleCall, SentCall, PublishingCall
<1>5. ASSUME NEW c \in Callers, NEW kind \in CallKinds, Send(c, kind) PROVE DataStays
  BY <1>3, <1>4, <1>5 DEF Send
<1>6. ASSUME NEW c \in Callers, NEW pc, call' = [call EXCEPT ![c].pc = pc] PROVE DataStays
  BY <1>1, <1>6 DEF DataStays, Call
<1>7. ASSUME NEW c \in Callers, WaitForData(c) \/ SpuriousWakeup(c) \/ TimesOut(c) \/ ReadThrows(c)
      PROVE  DataStays
  BY <1>6, <1>7 DEF WaitForData, SpuriousWakeup, TimesOut, ReadThrows
<1>8. ASSUME NEW c \in Callers, RemoveCallback(c) \/ InitialPublishThrows(c) PROVE DataStays
  BY <1>3, <1>4, <1>8 DEF RemoveCallback, InitialPublishThrows
<1>9. ASSUME NEW c \in Callers, Returns(c) \/ InitialPublish(c) PROVE DataStays
  <2>1. \E new : call' = [call EXCEPT ![c] = new] /\ new.data = <<>>
    BY <1>4, <1>9 DEF Returns, InitialPublish
  <2> QED  BY <1>3, <2>1
<1>10. ASSUME \/ UNCHANGED vars \/ AbortSession \/ ReceiveIntermediate \/ ReceiveUnexpected
              \/ ReceiveThrows \/ CallbackThreadStep \/ DestructorStep \/ ServerStep
              \/ \E c \in Callers, kind \in CallKinds : SendThrows(c, kind)
       PROVE  call' = call
  BY <1>10 DEF vars, AbortSession, ReceiveIntermediate, ReceiveUnexpected, ReceiveThrows,
     CallbackThreadStep, CallbackThreadChecks, CallbackThreadBlocks, CallbackHandles,
     CallbackCannotAcknowledge, CallbackThrows, CallbackUnknown, CallbackRefused, DestructorStep,
     DestructorStops, DestructorJoinsCallbackThread, DestructorJoinsReceiveThread, ServerStep,
     ServerCreates, ServerAnswers, ServerRefuses, ServerPublishes, ServerRefusesPublish, SendThrows
<1> QED  BY <1>2, <1>5, <1>7, <1>8, <1>9, <1>10 DEF Next, CallStep, ReceiveStep

\* What the receive thread hands to a call.
LEMMA ResponseData ==
  ASSUME ClientInv, StreamInv, ReceiveResponse, NEW c \in Callers
  PROVE  \/ call'[c] = call[c]
         \/ /\ call'[c] = Delivered(call[c], Append(messageBuffer, Head(wire).msg))
            /\ call'[c].handle = call[c].handle /\ call[c].handle = Head(wire).msg.handle
            /\ ~(request[call[c].handle].kind = "publish")
            /\ late = {} => call'[c].data[1] = Head(wire).msg
<1> DEFINE h == Head(wire).msg.handle
           data == Append(messageBuffer, Head(wire).msg)
<1>1. TypeOK /\ wire # <<>> /\ call \in [Callers -> Call]
  BY DEF ClientInv, ReceiveResponse, TypeOK, SendTypes
<1>2. ParsedHeader(Head(wire)).handle = h /\ (late = {} => data[1] = Head(wire).msg)
  BY <1>1, HeadMessage
<1>3. call' = call \/ (request[h].kind # "publish" /\ OnData(h, data))
  BY <1>2 DEF ReceiveResponse
<1> HIDE DEF h, data
<1>4. CASE call'[c] = call[c]
  BY <1>4
<1>5. CASE call'[c] # call[c]
  <2>1. request[h].kind # "publish" /\ OnData(h, data)
    BY <1>3, <1>5
  <2>2. c = request[h].caller /\ call[c].handle = h /\ call'[c] = Delivered(call[c], data)
    BY <1>1, <1>5, <2>1 DEF OnData
  <2>3. call'[c].data = data /\ call'[c].handle = call[c].handle
    BY <2>2 DEF Delivered
  <2> QED  BY <1>2, <2>1, <2>2, <2>3 DEF h, data
<1> QED  BY <1>4, <1>5

LEMMA InitOwn == Init => DataIsOwn /\ OwnAnswer
  BY DEF Init, DataIsOwn, OwnAnswer, IdleCall

LEMMA NextOwn ==
  ASSUME ClientInv, StreamInv, DataIsOwn, OwnAnswer, [Next]_vars
  PROVE  DataIsOwn' /\ OwnAnswer'
<1>1. TypeOK
  BY DEF ClientInv
<1>2. DataIsOwn'
  <2> SUFFICES ASSUME late' = {}, NEW c \in Callers, call'[c].data # <<>>
               PROVE  call'[c].data[1].handle = call'[c].handle
    BY DEF DataIsOwn
  <2>1. late = {}
    BY LateStays
  <2>2. CASE DataStays
    BY <2>1, <2>2 DEF DataStays, DataIsOwn
  <2>3. CASE ReceiveResponse
    BY <2>1, <2>3, ResponseData DEF DataIsOwn
  <2> QED  BY <1>1, <2>2, <2>3, DataSteps
<1>3. OwnAnswer'
  <2> SUFFICES ASSUME late' = {}, NEW h \in Handles PROVE answers'[h] \subseteq {h}
    BY DEF OwnAnswer
  <2>1. late = {}
    BY LateStays
  <2>2. CASE answers' = answers
    BY <2>1, <2>2 DEF OwnAnswer
  <2>3. ASSUME NEW c \in Callers, Returns(c) PROVE answers'[h] \subseteq {h}
    <3> DEFINE answer == IF call[c].data = <<>> THEN {} ELSE {call[c].data[1]}
    <3>1. answers' = [answers EXCEPT ![call[c].handle] = {m.handle : m \in answer}]
      BY <2>3 DEF Returns
    <3>2. {m.handle : m \in answer} \subseteq {call[c].handle}
      BY <2>1 DEF DataIsOwn
    <3> HIDE DEF answer
    <3>3. answers \in [Handles -> SUBSET Handles] /\ answers[h] \subseteq {h}
      BY <1>1, <2>1 DEF TypeOK, HistoryTypes, OwnAnswer
    <3> QED  BY <3>1, <3>2, <3>3
  <2>4. answers' = answers \/ \E c \in Callers : Returns(c)
    BY DEF Next, vars, Send, SendThrows, CallStep, WaitForData, TimesOut, ReadThrows, RemoveCallback,
     InitialPublish, InitialPublishThrows, SpuriousWakeup, AbortSession, ReceiveStep,
     ReceiveIntermediate, ReceiveUnexpected, ReceiveResponse, ReceiveThrows, CallbackThreadStep,
     CallbackThreadChecks, CallbackThreadBlocks, CallbackHandles, CallbackCannotAcknowledge,
     CallbackThrows, CallbackUnknown, CallbackRefused, DestructorStep, DestructorStops,
     DestructorJoinsCallbackThread, DestructorJoinsReceiveThread, ServerStep, ServerCreates,
     ServerAnswers, ServerRefuses, ServerPublishes, ServerRefusesPublish
  <2> QED  BY <2>2, <2>3, <2>4
<1> QED  BY <1>2, <1>3

\* Whatever is late, lost, chunked or reordered, and however many threads call: as long as
\* every response has found its callback, a call returns its own response or none
\* (Send, Receive, parseMessage, WaitForData).
THEOREM AnswersAreOwn == Spec => []OwnAnswer
  BY ClientInvariant, StreamInvariant, InitOwn, NextOwn, PTL DEF Spec

--------------------------------------------------------------------------------
(* The requests, as far as the rest depends on them                            *)

LEMMA RequestSteps ==
  ASSUME [Next]_vars
  PROVE  \/ UNCHANGED <<request, RequestHandle>>
         \/ \E kind \in Kinds, c \in Callers \cup {NoCaller} : Register(kind, c)
         \/ \E h \in Handles : ServerCreates(h)
<1>1. CASE UNCHANGED vars
  BY <1>1 DEF vars, sendVars
<1>2. ASSUME NEW c \in Callers, NEW kind \in CallKinds, Send(c, kind) \/ SendThrows(c, kind)
      PROVE  kind \in Kinds /\ Register(kind, c)
  BY <1>2, ClientAssumption DEF Send, SendThrows, Kinds
<1>3. ASSUME Register("publish", NoCaller)
      PROVE  \E kind \in Kinds, c \in Callers \cup {NoCaller} : Register(kind, c)
  <2>1. "publish" \in Kinds /\ NoCaller \in Callers \cup {NoCaller}
    BY DEF Kinds
  <2> QED  BY <1>3, <2>1
<1>4. ASSUME NEW c \in Callers, CallStep(c) \/ SpuriousWakeup(c)
      PROVE  UNCHANGED <<request, RequestHandle>> \/ Register("publish", NoCaller)
  BY <1>4 DEF CallStep, WaitForData, TimesOut, ReadThrows, RemoveCallback, Returns, InitialPublish,
     InitialPublishThrows, PublishTransmits, PublishThrows, SpuriousWakeup, sendVars
<1>5. ASSUME AbortSession \/ ReceiveThrows \/ ReceiveStep \/ CallbackThreadStep \/ DestructorStep
      PROVE  UNCHANGED <<request, RequestHandle>> \/ Register("publish", NoCaller)
  BY <1>5 DEF AbortSession, ReceiveThrows, ReceiveStep, ReceiveIntermediate, ReceiveUnexpected,
     ReceiveResponse, CallbackThreadStep, CallbackThreadChecks, CallbackThreadBlocks,
     CallbackHandles, CallbackCannotAcknowledge, CallbackThrows, CallbackUnknown, CallbackRefused,
     PublishTransmits, PublishThrows, DestructorStep, DestructorStops,
     DestructorJoinsCallbackThread, DestructorJoinsReceiveThread, sendVars
<1>6. ASSUME ServerStep
      PROVE  UNCHANGED <<request, RequestHandle>> \/ \E h \in Handles : ServerCreates(h)
  BY <1>6 DEF ServerStep, ServerAnswers, ServerRefuses, ServerPublishes, ServerRefusesPublish, sendVars
<1>7. ASSUME NEW c \in Callers, NEW kind \in CallKinds, Send(c, kind) \/ SendThrows(c, kind)
      PROVE  \E k \in Kinds, d \in Callers \cup {NoCaller} : Register(k, d)
  BY <1>2, <1>7
<1> QED  BY <1>1, <1>3, <1>4, <1>5, <1>6, <1>7 DEF Next

\* A handle that has been given out keeps its kind, and its subscription once the server
\* has answered.
RequestsStay ==
  \A h \in Handles : h <= RequestHandle =>
     /\ request'[h].kind = request[h].kind
     /\ h \notin srvCalls => request'[h] = request[h]

LEMMA RequestsStayNext ==
  ASSUME TypeOK, [Next]_vars
  PROVE  RequestsStay
<1>1. request \in [Handles -> Request] /\ RequestHandle \in Nat
  BY ClientAssumption DEF TypeOK, SendTypes
<1>2. CASE UNCHANGED <<request, RequestHandle>>
  BY <1>2 DEF RequestsStay
<1>3. ASSUME NEW kind \in Kinds, NEW c \in Callers \cup {NoCaller}, Register(kind, c)
      PROVE  RequestsStay
  <2>1. \A h \in Handles : h <= RequestHandle => request'[h] = request[h]
    BY <1>1, <1>3 DEF Register, Handles
  <2> QED  BY <2>1 DEF RequestsStay
<1>4. ASSUME NEW g \in Handles, ServerCreates(g)
      PROVE  RequestsStay
  <2>1. g \in srvCalls /\ request' = [request EXCEPT ![g].sub = Cardinality(srvSubs) + 1]
    BY <1>4 DEF ServerCreates
  <2> QED  BY <1>1, <2>1 DEF RequestsStay, Request
<1> QED  BY <1>2, <1>3, <1>4, RequestSteps

\* Nobody waits for the response to a publish request.
CallsAreCalls == \A h \in srvCalls : request[h].kind # "publish"

LEMMA CallsAreCallsNext ==
  ASSUME ClientInv, CallsAreCalls, [Next]_vars
  PROVE  CallsAreCalls'
<1>1. TypeOK /\ request \in [Handles -> Request] /\ srvCalls \in SUBSET Handles
  BY DEF ClientInv, TypeOK, SendTypes, ServerTypes
<1>2. \A h \in srvCalls : request'[h].kind = request[h].kind
  <2>1. \A h \in srvCalls : h \in Handles /\ h <= RequestHandle
    BY <1>1 DEF ClientInv, HandlesGivenOut
  <2> QED  BY <1>1, <2>1, RequestsStayNext DEF RequestsStay
<1>3. CASE srvCalls' \subseteq srvCalls
  BY <1>2, <1>3 DEF CallsAreCalls
<1>4. ASSUME NEW c \in Callers, NEW kind \in CallKinds, Send(c, kind)
      PROVE  CallsAreCalls'
  <2>1. srvCalls' = srvCalls \cup {RequestHandle + 1} /\ request'[RequestHandle + 1].kind = kind
    BY <1>1, <1>4 DEF Send, Register
  <2>2. kind # "publish"
    BY ClientAssumption
  <2> QED  BY <1>2, <2>1, <2>2 DEF CallsAreCalls
<1>5. srvCalls' \subseteq srvCalls \/ \E c \in Callers, kind \in CallKinds : Send(c, kind)
  BY DEF Next, vars, SendThrows, CallStep, WaitForData, TimesOut, ReadThrows, RemoveCallback,
     Returns, InitialPublish, InitialPublishThrows, SpuriousWakeup, AbortSession, ReceiveStep,
     ReceiveIntermediate, ReceiveUnexpected, ReceiveResponse, ReceiveThrows, CallbackThreadStep,
     CallbackThreadChecks, CallbackThreadBlocks, CallbackHandles, CallbackCannotAcknowledge,
     CallbackThrows, CallbackUnknown, CallbackRefused, DestructorStep, DestructorStops,
     DestructorJoinsCallbackThread, DestructorJoinsReceiveThread, ServerStep, ServerCreates,
     ServerAnswers, ServerRefuses, ServerPublishes, ServerRefusesPublish, serverVars
<1> QED  BY <1>3, <1>4, <1>5

LEMMA CallsInvariant == Spec => []CallsAreCalls
<1>1. Init => CallsAreCalls
  BY DEF Init, CallsAreCalls
<1> QED  BY <1>1, ClientInvariant, CallsAreCallsNext, PTL DEF Spec

--------------------------------------------------------------------------------
(* The callback thread's messages                                              *)

\* The message in hand, then those queued.
Pipe == current \o Queue

\* The callback thread has at most one message in hand.
OneInHand == current = <<>> \/ \E m \in Message : current = <<m>>

\* The first message leaves; a message comes; nothing changes.
PipeShifts ==
  /\ Len(Pipe) > 0
  /\ Len(Pipe') = Len(Pipe) - 1
  /\ \A k \in 1 .. Len(Pipe') : k + 1 \in 1 .. Len(Pipe) /\ Pipe'[k] = Pipe[k + 1]
PipeGrows(m) ==
  /\ Len(Pipe') = Len(Pipe) + 1
  /\ \A k \in 1 .. Len(Pipe) : Pipe'[k] = Pipe[k]
  /\ Pipe'[Len(Pipe) + 1] = m

LEMMA PipeFacts ==
  ASSUME TypeOK
  PROVE  /\ Len(current) \in Nat /\ Len(Queue) \in Nat
         /\ Pipe \in Seq(Message) /\ Len(Pipe) = Len(current) + Len(Queue)
         /\ \A k \in 1 .. Len(Pipe) :
              Pipe[k] = IF k <= Len(current) THEN current[k] ELSE Queue[k - Len(current)]
<1>1. current \in Seq(Message) /\ Queue \in Seq(Message)
  BY DEF TypeOK, ThreadTypes
<1>2. Pipe \in Seq(Message) /\ Len(Pipe) = Len(current) + Len(Queue)
  BY <1>1, ConcatProperties DEF Pipe
<1>3. \A k \in 1 .. Len(current) + Len(Queue) :
        Pipe[k] = IF k <= Len(current) THEN current[k] ELSE Queue[k - Len(current)]
  BY <1>1, ConcatProperties DEF Pipe
<1>4. Len(current) \in Nat /\ Len(Queue) \in Nat
  BY <1>1
<1> QED  BY <1>2, <1>3, <1>4

LEMMA PipePosts ==
  ASSUME TypeOK, NEW m \in Message, Queue' = Append(Queue, m), UNCHANGED current
  PROVE  PipeGrows(m)
<1>1. current \in Seq(Message) /\ Queue \in Seq(Message) /\ Queue' \in Seq(Message)
  BY DEF TypeOK, ThreadTypes
<1>2. /\ Len(Queue') = Len(Queue) + 1 /\ Queue'[Len(Queue) + 1] = m
      /\ \A k \in 1 .. Len(Queue) : Queue'[k] = Queue[k]
      /\ Len(Queue) \in Nat /\ Len(current) \in Nat
  BY <1>1
<1>3. /\ Len(Pipe') = Len(current) + Len(Queue')
      /\ \A k \in 1 .. Len(current) + Len(Queue') :
           Pipe'[k] = IF k <= Len(current) THEN current[k] ELSE Queue'[k - Len(current)]
  BY <1>1, ConcatProperties DEF Pipe
<1>4. Len(Pipe') = Len(Pipe) + 1 /\ Pipe'[Len(Pipe) + 1] = m
  BY <1>2, <1>3, PipeFacts
<1>5. ASSUME NEW k \in 1 .. Len(Pipe) PROVE Pipe'[k] = Pipe[k]
  <2>1. k \in 1 .. Len(current) + Len(Queue') /\ k \in Nat
    BY <1>2, PipeFacts
  <2>2. k > Len(current) => k - Len(current) \in 1 .. Len(Queue)
    BY <1>2, PipeFacts
  <2>3. Pipe[k] = IF k <= Len(current) THEN current[k] ELSE Queue[k - Len(current)]
    BY PipeFacts
  <2>4. Pipe'[k] = IF k <= Len(current) THEN current[k] ELSE Queue'[k - Len(current)]
    BY <1>3, <2>1
  <2>5. CASE k <= Len(current)
    BY <2>3, <2>4, <2>5
  <2>6. CASE ~(k <= Len(current))
    <3>1. k - Len(current) \in 1 .. Len(Queue)
      BY <1>2, <2>1, <2>2, <2>6
    <3> QED  BY <1>2, <2>3, <2>4, <2>6, <3>1
  <2> QED  BY <2>5, <2>6
<1> QED  BY <1>4, <1>5 DEF PipeGrows

\* The message in hand is done with.
LEMMA PipeNext ==
  ASSUME TypeOK, OneInHand, callbackThread = "calling", NextCallback
  PROVE  /\ PipeShifts /\ OneInHand' /\ Pipe[1] = current[1]
<1>1. /\ current # <<>> /\ current \in Seq(Message) /\ Queue \in Seq(Message)
      /\ Len(current) = 1
  BY DEF TypeOK, ThreadTypes, OneInHand
<1>2. Len(Pipe) = Len(Queue) + 1 /\ Len(Queue) \in Nat /\ Pipe[1] = current[1]
      /\ \A k \in 1 .. Len(Queue) : k + 1 \in 1 .. Len(Pipe) /\ Pipe[k + 1] = Queue[k]
  <2>1. Len(Pipe) = Len(Queue) + 1 /\ Len(Queue) \in Nat /\ Pipe[1] = current[1]
    BY <1>1, PipeFacts
  <2>2. ASSUME NEW k \in 1 .. Len(Queue)
        PROVE  k + 1 \in 1 .. Len(Pipe) /\ Pipe[k + 1] = Queue[k]
    <3>1. k + 1 \in 1 .. Len(Pipe) /\ ~(k + 1 <= 1) /\ (k + 1) - 1 = k
      BY <2>1
    <3> QED  BY <1>1, <3>1, PipeFacts
  <2> QED  BY <2>1, <2>2
<1>3. CASE Queue = <<>>
  <2>1. Pipe' = <<>> /\ current' = <<>>
    BY <1>3 DEF NextCallback, Pipe
  <2>2. Len(Pipe') = 0 /\ Len(Queue) = 0
    BY <1>3, <2>1
  <2> QED  BY <1>2, <2>1, <2>2 DEF PipeShifts, OneInHand
<1>4. CASE Queue # <<>>
  <2>1. /\ Head(Queue) \in Message /\ Tail(Queue) \in Seq(Message)
        /\ current' = <<Head(Queue)>> /\ Queue' = Tail(Queue)
    BY <1>1, <1>4, TailFacts DEF NextCallback
  <2>2. Pipe' = Queue
    <3>1. <<Head(Queue)>> \o Tail(Queue) = Queue
      BY <1>1, <1>4
    <3> QED  BY <2>1, <3>1 DEF Pipe
  <2>3. OneInHand'
    BY <2>1 DEF OneInHand
  <2> QED  BY <1>2, <2>2, <2>3 DEF PipeShifts
<1> QED  BY <1>3, <1>4

\* The next message is taken in hand.
LEMMA PipeChecks ==
  ASSUME TypeOK, CallbackThreadChecks, OneInHand
  PROVE  Pipe' = Pipe /\ OneInHand'
<1>1. CASE UNCHANGED <<Queue, current>>
  BY <1>1 DEF Pipe, OneInHand
<1>2. CASE Queue # <<>> /\ current' = <<Head(Queue)>> /\ Queue' = Tail(Queue)
  <2>1. current = <<>> /\ Queue \in Seq(Message)
    BY DEF CallbackThreadChecks, TypeOK, ThreadTypes
  <2>2. Head(Queue) \in Message /\ <<Head(Queue)>> \o Tail(Queue) = Queue
    BY <1>2, <2>1
  <2>3. <<>> \o Queue = Queue
    BY <2>1, ConcatEmptySeq
  <2> QED  BY <1>2, <2>1, <2>2, <2>3 DEF Pipe, OneInHand
<1> QED  BY <1>1, <1>2 DEF CallbackThreadChecks

--------------------------------------------------------------------------------
(* Notifications in order                                                      *)

\* n holds x, and x before y.
Known(n, x) == \E a \in 1 .. Len(n) : n[a] = x
Before(n, x, y) == \E a, b \in 1 .. Len(n) : a < b /\ n[a] = x /\ n[b] = y

\* The k-th chunk on the wire completes a notification.
Arrives(k) == wire[k].last /\ wire[k].msg.good /\ request[wire[k].msg.handle].kind = "publish"

AllKnown ==
  /\ \A j \in 1 .. Len(handled) : Known(notified, handled[j])
  /\ \A j \in 1 .. Len(Pipe) : Pipe[j].good => Known(notified, Pipe[j].handle)
  /\ \A j \in 1 .. Len(wire) : Arrives(j) => Known(notified, wire[j].msg.handle)
HandledOrdered ==
  \A j, k \in 1 .. Len(handled) : j < k => Before(notified, handled[j], handled[k])
PipeOrdered ==
  \A j, k \in 1 .. Len(Pipe) : j < k /\ Pipe[j].good /\ Pipe[k].good =>
     Before(notified, Pipe[j].handle, Pipe[k].handle)
WireOrdered ==
  \A j, k \in 1 .. Len(wire) : j < k /\ Arrives(j) /\ Arrives(k) =>
     Before(notified, wire[j].msg.handle, wire[k].msg.handle)
HandledThenPipe ==
  \A j \in 1 .. Len(handled), k \in 1 .. Len(Pipe) : Pipe[k].good =>
     Before(notified, handled[j], Pipe[k].handle)
HandledThenWire ==
  \A j \in 1 .. Len(handled), k \in 1 .. Len(wire) : Arrives(k) =>
     Before(notified, handled[j], wire[k].msg.handle)
PipeThenWire ==
  \A j \in 1 .. Len(Pipe), k \in 1 .. Len(wire) : Pipe[j].good /\ Arrives(k) =>
     Before(notified, Pipe[j].handle, wire[k].msg.handle)

\* Handled, in hand or queued, on the wire: the notifications are in the order in which
\* the server sent them.
InOrder ==
  /\ AllKnown /\ HandledOrdered /\ PipeOrdered /\ WireOrdered
  /\ HandledThenPipe /\ HandledThenWire /\ PipeThenWire

OrderInv == OneInHand /\ (late = {} => InOrder)

LEMMA InitOrder == Init => OrderInv
<1> SUFFICES ASSUME Init PROVE OrderInv
  OBVIOUS
<1>1. Pipe = <<>> /\ handled = <<>> /\ wire = <<>> /\ current = <<>>
  BY DEF Init, Pipe
<1> QED  BY <1>1 DEF OrderInv, OneInHand, InOrder, AllKnown, HandledOrdered, PipeOrdered,
       WireOrdered, HandledThenPipe, HandledThenWire, PipeThenWire

\* What a request is for is known as long as its response is on the wire.
LEMMA ArrivesStays ==
  ASSUME ClientInv, [Next]_vars, NEW k \in 1 .. Len(wire)
  PROVE  request'[wire[k].msg.handle].kind = request[wire[k].msg.handle].kind
<1>1. TypeOK
  BY DEF ClientInv
<1>2. wire[k].msg.handle \in OnWire
  BY DEF OnWire
<1>3. wire[k].msg.handle \in Handles /\ wire[k].msg.handle <= RequestHandle
  BY <1>1, <1>2, OnWireType DEF ClientInv, HandlesGivenOut
<1> QED  BY <1>1, <1>3, RequestsStayNext DEF RequestsStay

\* The server sends something that is no notification.
ServerSendsOther ==
  /\ \E msg \in Message :
       /\ ServerSends(msg) /\ (~msg.good \/ request'[msg.handle].kind # "publish")
  /\ UNCHANGED <<handled, notified, Pipe, current>>

LEMMA ServerOrderSteps ==
  ASSUME ClientInv, CallsAreCalls, ServerStep
  PROVE  \/ UNCHANGED <<handled, notified, wire, Pipe, current>>
         \/ ServerSendsOther
         \/ \E s \in Subs : ServerPublishes(s)
<1>1. TypeOK /\ request \in [Handles -> Request] /\ srvPublish \in Seq(Handles)
  BY DEF ClientInv, TypeOK, SendTypes, ServerTypes
<1>2. ASSUME NEW h \in Handles, ServerCreates(h)
      PROVE  UNCHANGED <<handled, notified, wire, Pipe, current>>
  BY <1>2 DEF ServerCreates, threadVars, Pipe
<1>3. ASSUME NEW h \in Handles, ServerAnswers(h)
      PROVE  ServerSendsOther
  <2> DEFINE msg == [handle |-> h, sub |-> request[h].sub, good |-> TRUE]
  <2>1. msg \in Message /\ msg.handle = h
    <3>1. request[h].sub \in Subs \cup {NoSub}
      BY <1>1 DEF Request
    <3> QED  BY <3>1, MessageTypes
  <2>2. ServerSends(msg) /\ UNCHANGED <<handled, notified, Pipe, current, request>>
    BY <1>3 DEF ServerAnswers, ServerSends, threadVars, Pipe, sendVars
  <2>3. request'[h].kind # "publish"
    BY <1>3, <2>2 DEF ServerAnswers, CallsAreCalls
  <2> HIDE DEF msg
  <2> QED  BY <2>1, <2>2, <2>3 DEF ServerSendsOther
<1>4. ASSUME NEW h \in Handles, \E chunks \in Chunks(Refusal(h)) : wire' = wire \o chunks,
             UNCHANGED <<handled, notified, threadVars, bufferVars, late>>
      PROVE  ServerSendsOther
  <2>1. Refusal(h) \in Message /\ ~Refusal(h).good
    BY DEF Refusal, Message
  <2>2. ServerSends(Refusal(h)) /\ UNCHANGED <<handled, notified, Pipe, current>>
    BY <1>4 DEF ServerSends, threadVars, Pipe
  <2> QED  BY <2>1, <2>2 DEF ServerSendsOther
<1>5. ASSUME NEW h \in Handles, ServerRefuses(h)
      PROVE  ServerSendsOther
  BY <1>4, <1>5 DEF ServerRefuses
<1>6. ASSUME ServerRefusesPublish
      PROVE  ServerSendsOther
  <2>1. Head(srvPublish) \in Handles
    BY <1>1, <1>6, TailFacts DEF ServerRefusesPublish
  <2> QED  BY <1>4, <1>6, <2>1 DEF ServerRefusesPublish
<1> QED  BY <1>2, <1>3, <1>5, <1>6 DEF ServerStep

\* What a step does to the notifications under way.
LEMMA OrderSteps ==
  ASSUME ClientInv, CallsAreCalls, OneInHand, [Next]_vars
  PROVE  \/ UNCHANGED <<handled, notified, wire, Pipe>> /\ OneInHand'
         \/ UNCHANGED <<handled, notified, wire>> /\ PipeShifts /\ OneInHand'
         \/ /\ handled' = Append(handled, Pipe[1].handle) /\ Pipe[1].good
            /\ UNCHANGED <<notified, wire>> /\ PipeShifts /\ OneInHand'
         \/ ReceiveStep
         \/ ServerSendsOther
         \/ \E s \in Subs : ServerPublishes(s)
<1>1. TypeOK
  BY DEF ClientInv
<1>2. ASSUME UNCHANGED <<handled, notified, wire, Queue, current>>
      PROVE  UNCHANGED <<handled, notified, wire, Pipe>> /\ OneInHand'
  BY <1>2 DEF Pipe, OneInHand
<1>3. CASE UNCHANGED vars
  BY <1>2, <1>3 DEF vars, serverVars, threadVars
<1>4. ASSUME NEW c \in Callers, NEW kind \in CallKinds, Send(c, kind) \/ SendThrows(c, kind)
      PROVE  UNCHANGED <<handled, notified, wire, Queue, current>>
  BY <1>4 DEF Send, SendThrows, serverVars, threadVars
<1>5. ASSUME NEW c \in Callers, CallStep(c) \/ SpuriousWakeup(c)
      PROVE  UNCHANGED <<handled, notified, wire, Queue, current>>
  BY <1>5 DEF CallStep, WaitForData, TimesOut, ReadThrows, RemoveCallback, Returns, InitialPublish,
     InitialPublishThrows, SpuriousWakeup, serverVars, threadVars
<1>6. ASSUME AbortSession \/ ReceiveThrows \/ DestructorStep \/ CallbackThreadBlocks
      PROVE  UNCHANGED <<handled, notified, wire, Queue, current>>
  BY <1>6 DEF AbortSession, ReceiveThrows, DestructorStep, DestructorStops, CallbackThreadBlocks,
     DestructorJoinsCallbackThread, DestructorJoinsReceiveThread, serverVars, threadVars
<1>7. ASSUME CallbackThreadChecks
      PROVE  UNCHANGED <<handled, notified, wire, Pipe>> /\ OneInHand'
  BY <1>1, <1>7, PipeChecks DEF CallbackThreadChecks, serverVars
<1>8. ASSUME CallbackHandles \/ CallbackCannotAcknowledge \/ CallbackThrows
      PROVE  /\ handled' = Append(handled, Pipe[1].handle) /\ Pipe[1].good
             /\ UNCHANGED <<notified, wire>> /\ PipeShifts /\ OneInHand'
  <2>1. /\ callbackThread = "calling" /\ current[1].good /\ NextCallback
        /\ handled' = Append(handled, current[1].handle) /\ UNCHANGED <<notified, wire>>
    BY <1>8 DEF CallbackHandles, CallbackCannotAcknowledge, CallbackThrows, serverVars
  <2> QED  BY <1>1, <2>1, PipeNext
<1>9. ASSUME CallbackUnknown \/ CallbackRefused
      PROVE  UNCHANGED <<handled, notified, wire>> /\ PipeShifts /\ OneInHand'
  <2>1. callbackThread = "calling" /\ NextCallback /\ UNCHANGED <<handled, notified, wire>>
    BY <1>9 DEF CallbackUnknown, CallbackRefused, serverVars
  <2> QED  BY <1>1, <2>1, PipeNext
<1>10. CASE ServerStep
  <2>1. current' = current => OneInHand'
    BY DEF OneInHand
  <2> QED  BY <1>10, <2>1, ServerOrderSteps
<1> QED  BY <1>2, <1>3, <1>4, <1>5, <1>6, <1>7, <1>8, <1>9, <1>10 DEF Next, CallbackThreadStep

\* The first message is done with, handled or not.
LEMMA OrderShifts ==
  ASSUME TypeOK, InOrder, PipeShifts, UNCHANGED <<notified, wire>>,
         \A k \in 1 .. Len(wire) : Arrives(k)' = Arrives(k),
         \/ handled' = handled
         \/ handled' = Append(handled, Pipe[1].handle) /\ Pipe[1].good
  PROVE  InOrder'
<1>1. /\ handled \in Seq(Handles) /\ Len(handled) \in Nat
      /\ Len(Pipe) \in Nat /\ 1 \in 1 .. Len(Pipe)
  <2>1. handled \in Seq(Handles)
    BY DEF TypeOK, HistoryTypes
  <2>2. Len(handled) \in Nat /\ Len(Pipe) \in Nat
    BY <2>1, PipeFacts
  <2> QED  BY <2>1, <2>2 DEF PipeShifts
<1>2. /\ Len(Pipe') = Len(Pipe) - 1 /\ Len(Pipe') \in Nat
      /\ \A k \in 1 .. Len(Pipe') : k + 1 \in 1 .. Len(Pipe) /\ Pipe'[k] = Pipe[k + 1]
  BY <1>1 DEF PipeShifts
\* The handled ones are those from before and the first message, if it is new.
<1>3. \A j \in 1 .. Len(handled') :
         \/ j \in 1 .. Len(handled) /\ handled'[j] = handled[j]
         \/ j = Len(handled) + 1 /\ handled'[j] = Pipe[1].handle /\ Pipe[1].good
  BY <1>1
<1>4. AllKnown'
  BY <1>1, <1>2, <1>3 DEF InOrder, AllKnown
<1>5. HandledOrdered'
  <2> SUFFICES ASSUME NEW j \in 1 .. Len(handled'), NEW k \in 1 .. Len(handled'), j < k
               PROVE  Before(notified, handled'[j], handled'[k])
    BY DEF HandledOrdered
  <2>1. j \in 1 .. Len(handled) /\ handled'[j] = handled[j]
    <3>1. Len(handled') \in Nat
      BY <1>1
    <3> QED  BY <1>1, <1>3, <3>1
  <2>2. CASE k \in 1 .. Len(handled) /\ handled'[k] = handled[k]
    BY <2>1, <2>2 DEF InOrder, HandledOrdered
  <2>3. CASE handled'[k] = Pipe[1].handle /\ Pipe[1].good
    BY <1>1, <2>1, <2>3 DEF InOrder, HandledThenPipe
  <2> QED  BY <1>3, <2>2, <2>3
<1>6. PipeOrdered'
  <2> SUFFICES ASSUME NEW j \in 1 .. Len(Pipe'), NEW k \in 1 .. Len(Pipe'), j < k,
                      Pipe'[j].good, Pipe'[k].good
               PROVE  Before(notified, Pipe'[j].handle, Pipe'[k].handle)
    BY DEF PipeOrdered
  <2>1. /\ j + 1 \in 1 .. Len(Pipe) /\ k + 1 \in 1 .. Len(Pipe) /\ j + 1 < k + 1
        /\ Pipe'[j] = Pipe[j + 1] /\ Pipe'[k] = Pipe[k + 1]
    BY <1>2
  <2> QED  BY <2>1 DEF InOrder, PipeOrdered
<1>7. WireOrdered'
  BY DEF InOrder, WireOrdered
<1>8. HandledThenPipe'
  <2> SUFFICES ASSUME NEW j \in 1 .. Len(handled'), NEW k \in 1 .. Len(Pipe'), Pipe'[k].good
               PROVE  Before(notified, handled'[j], Pipe'[k].handle)
    BY DEF HandledThenPipe
  <2>1. k + 1 \in 1 .. Len(Pipe) /\ 1 < k + 1 /\ Pipe'[k] = Pipe[k + 1]
    BY <1>2
  <2>2. CASE j \in 1 .. Len(handled) /\ handled'[j] = handled[j]
    BY <2>1, <2>2 DEF InOrder, HandledThenPipe
  <2>3. CASE handled'[j] = Pipe[1].handle /\ Pipe[1].good
    BY <1>1, <2>1, <2>3 DEF InOrder, PipeOrdered
  <2> QED  BY <1>3, <2>2, <2>3
<1>9. HandledThenWire'
  <2> SUFFICES ASSUME NEW j \in 1 .. Len(handled'), NEW k \in 1 .. Len(wire), Arrives(k)
               PROVE  Before(notified, handled'[j], wire[k].msg.handle)
    BY DEF HandledThenWire
  <2>1. CASE j \in 1 .. Len(handled) /\ handled'[j] = handled[j]
    BY <2>1 DEF InOrder, HandledThenWire
  <2>2. CASE handled'[j] = Pipe[1].handle /\ Pipe[1].good
    BY <1>1, <2>2 DEF InOrder, PipeThenWire
  <2> QED  BY <1>3, <2>1, <2>2
<1>10. PipeThenWire'
  BY <1>2 DEF InOrder, PipeThenWire
<1> QED  BY <1>4, <1>5, <1>6, <1>7, <1>8, <1>9, <1>10 DEF InOrder

\* The first chunk leaves the wire; if it completes a notification, this is queued.
LEMMA OrderReceives ==
  ASSUME TypeOK, InOrder, wire # <<>>, wire' = Tail(wire), UNCHANGED <<notified, handled>>,
         \A k \in 1 .. Len(wire') : Arrives(k)' = Arrives(k + 1),
         \/ Pipe' = Pipe
         \/ \E m \in Message :
              /\ PipeGrows(m)
              /\ m.good => m.handle = wire[1].msg.handle /\ Arrives(1)
  PROVE  InOrder'
<1>1. /\ wire \in Seq(Chunk) /\ Len(wire) \in Nat /\ 1 \in 1 .. Len(wire)
      /\ Len(Pipe) \in Nat
  <2>1. wire \in Seq(Chunk)
    BY DEF TypeOK, ServerTypes
  <2> QED  BY <2>1, PipeFacts
<1>2. \A k \in 1 .. Len(wire') : k + 1 \in 1 .. Len(wire) /\ 1 < k + 1 /\ wire'[k] = wire[k + 1]
  BY <1>1
\* The queued ones are those from before and the one that arrives.
<1>3. \A j \in 1 .. Len(Pipe') : Pipe'[j].good =>
         \/ j \in 1 .. Len(Pipe) /\ Pipe'[j] = Pipe[j]
         \/ j = Len(Pipe) + 1 /\ Pipe'[j].handle = wire[1].msg.handle /\ Arrives(1)
  <2>1. CASE Pipe' = Pipe
    BY <2>1
  <2>2. ASSUME NEW m \in Message, PipeGrows(m),
               m.good => m.handle = wire[1].msg.handle /\ Arrives(1)
        PROVE  \A j \in 1 .. Len(Pipe') : Pipe'[j].good =>
                  \/ j \in 1 .. Len(Pipe) /\ Pipe'[j] = Pipe[j]
                  \/ j = Len(Pipe) + 1 /\ Pipe'[j].handle = wire[1].msg.handle /\ Arrives(1)
    BY <1>1, <2>2 DEF PipeGrows
  <2> QED  BY <2>1, <2>2
<1>4. \A k \in 1 .. Len(Pipe') : k \in Nat /\ k <= Len(Pipe) + 1
  BY <1>1 DEF PipeGrows
<1>5. AllKnown'
  <2>1. ASSUME NEW j \in 1 .. Len(Pipe'), Pipe'[j].good
        PROVE  Known(notified, Pipe'[j].handle)
    BY <1>1, <1>3, <2>1 DEF InOrder, AllKnown
  <2>2. ASSUME NEW j \in 1 .. Len(wire'), Arrives(j)'
        PROVE  Known(notified, wire'[j].msg.handle)
    BY <1>2, <2>2 DEF InOrder, AllKnown
  <2> QED  BY <2>1, <2>2 DEF InOrder, AllKnown
<1>6. HandledOrdered'
  BY DEF InOrder, HandledOrdered
<1>7. PipeOrdered'
  <2> SUFFICES ASSUME NEW j \in 1 .. Len(Pipe'), NEW k \in 1 .. Len(Pipe'), j < k,
                      Pipe'[j].good, Pipe'[k].good
               PROVE  Before(notified, Pipe'[j].handle, Pipe'[k].handle)
    BY DEF PipeOrdered
  <2>1. j \in 1 .. Len(Pipe) /\ Pipe'[j] = Pipe[j]
    BY <1>1, <1>3, <1>4
  <2>2. CASE k \in 1 .. Len(Pipe) /\ Pipe'[k] = Pipe[k]
    BY <2>1, <2>2 DEF InOrder, PipeOrdered
  <2>3. CASE Pipe'[k].handle = wire[1].msg.handle /\ Arrives(1)
    BY <1>1, <2>1, <2>3 DEF InOrder, PipeThenWire
  <2> QED  BY <1>3, <2>2, <2>3
<1>8. WireOrdered'
  <2> SUFFICES ASSUME NEW j \in 1 .. Len(wire'), NEW k \in 1 .. Len(wire'), j < k,
                      Arrives(j)', Arrives(k)'
               PROVE  Before(notified, wire'[j].msg.handle, wire'[k].msg.handle)
    BY DEF WireOrdered
  <2>1. /\ j + 1 \in 1 .. Len(wire) /\ k + 1 \in 1 .. Len(wire) /\ j + 1 < k + 1
        /\ wire'[j] = wire[j + 1] /\ wire'[k] = wire[k + 1] /\ Arrives(j + 1) /\ Arrives(k + 1)
    BY <1>2
  <2> QED  BY <2>1 DEF InOrder, WireOrdered
<1>9. HandledThenPipe'
  <2> SUFFICES ASSUME NEW j \in 1 .. Len(handled), NEW k \in 1 .. Len(Pipe'), Pipe'[k].good
               PROVE  Before(notified, handled[j], Pipe'[k].handle)
    BY DEF HandledThenPipe
  <2>1. CASE k \in 1 .. Len(Pipe) /\ Pipe'[k] = Pipe[k]
    BY <2>1 DEF InOrder, HandledThenPipe
  <2>2. CASE Pipe'[k].handle = wire[1].msg.handle /\ Arrives(1)
    BY <1>1, <2>2 DEF InOrder, HandledThenWire
  <2> QED  BY <1>3, <2>1, <2>2
<1>10. HandledThenWire'
  BY <1>2 DEF InOrder, HandledThenWire
<1>11. PipeThenWire'
  <2> SUFFICES ASSUME NEW j \in 1 .. Len(Pipe'), NEW k \in 1 .. Len(wire'),
                      Pipe'[j].good, Arrives(k)'
               PROVE  Before(notified, Pipe'[j].handle, wire'[k].msg.handle)
    BY DEF PipeThenWire
  <2>1. /\ k + 1 \in 1 .. Len(wire) /\ 1 < k + 1 /\ wire'[k] = wire[k + 1] /\ Arrives(k + 1)
    BY <1>2
  <2>2. CASE j \in 1 .. Len(Pipe) /\ Pipe'[j] = Pipe[j]
    BY <2>1, <2>2 DEF InOrder, PipeThenWire
  <2>3. CASE Pipe'[j].handle = wire[1].msg.handle /\ Arrives(1)
    BY <1>1, <2>1, <2>3 DEF InOrder, WireOrdered
  <2> QED  BY <1>3, <2>2, <2>3
<1> QED  BY <1>5, <1>6, <1>7, <1>8, <1>9, <1>10, <1>11 DEF InOrder

\* Chunks are added to the wire; if the last one completes a notification, this has just been
\* noted as sent.
LEMMA OrderSends ==
  ASSUME TypeOK, InOrder, UNCHANGED <<Pipe, handled>>,
         NEW h \in Handles, NEW n \in Nat, n >= Len(wire), Len(wire') = n + 1,
         \A k \in 1 .. Len(wire) : wire'[k] = wire[k] /\ Arrives(k)' = Arrives(k),
         \A k \in Len(wire) + 1 .. n : ~Arrives(k)',
         wire'[n + 1].msg.handle = h,
         notified' = Append(notified, h) \/ (notified' = notified /\ ~Arrives(n + 1)')
  PROVE  InOrder'
<1>1. /\ wire \in Seq(Chunk) /\ Len(wire) \in Nat
      /\ notified \in Seq(Handles) /\ Len(notified) \in Nat
  BY DEF TypeOK, ServerTypes
<1>2. ASSUME NEW x, Known(notified, x)
      PROVE  Known(notified', x)
  <2>1. PICK a \in 1 .. Len(notified) : notified[a] = x
    BY <1>2 DEF Known
  <2>2. a \in 1 .. Len(notified') /\ notified'[a] = x
    BY <1>1, <2>1
  <2> QED  BY <2>2 DEF Known
<1>3. ASSUME NEW x, NEW y, Before(notified, x, y)
      PROVE  Before(notified', x, y)
  <2>1. PICK a \in 1 .. Len(notified), b \in 1 .. Len(notified) :
          a < b /\ notified[a] = x /\ notified[b] = y
    BY <1>3 DEF Before
  <2>2. /\ a \in 1 .. Len(notified') /\ b \in 1 .. Len(notified')
        /\ notified'[a] = x /\ notified'[b] = y
    BY <1>1, <2>1
  <2> QED  BY <2>1, <2>2 DEF Before
<1>4. ASSUME NEW x, Known(notified, x), Arrives(n + 1)'
      PROVE  Known(notified', h) /\ Before(notified', x, h)
  <2>1. notified' = Append(notified, h)
    BY <1>4
  <2>2. /\ Len(notified') = Len(notified) + 1 /\ notified'[Len(notified) + 1] = h
        /\ \A a \in 1 .. Len(notified) : notified'[a] = notified[a]
    BY <1>1, <2>1
  <2>3. Known(notified', h)
    BY <1>1, <2>2 DEF Known
  <2>4. PICK a \in 1 .. Len(notified) : notified[a] = x
    BY <1>4 DEF Known
  <2>5. Before(notified', x, h)
    BY <1>1, <2>2, <2>4 DEF Before
  <2> QED  BY <2>3, <2>5
<1>5. Arrives(n + 1)' => Known(notified', h)
  BY <1>1 DEF Known
\* What arrives is what was on the wire, or the new one.
<1>6. \A k \in 1 .. Len(wire') : Arrives(k)' =>
         \/ k \in 1 .. Len(wire) /\ wire'[k] = wire[k] /\ Arrives(k)
         \/ k = n + 1 /\ wire'[k].msg.handle = h /\ Arrives(n + 1)'
  BY <1>1
<1>7. AllKnown'
  <2>1. ASSUME NEW j \in 1 .. Len(wire'), Arrives(j)'
        PROVE  Known(notified', wire'[j].msg.handle)
    BY <1>2, <1>5, <1>6, <2>1 DEF InOrder, AllKnown
  <2> QED  BY <1>2, <2>1 DEF InOrder, AllKnown
<1>8. HandledOrdered'
  BY <1>3 DEF InOrder, HandledOrdered
<1>9. PipeOrdered'
  BY <1>3 DEF InOrder, PipeOrdered
<1>10. HandledThenPipe'
  BY <1>3 DEF InOrder, HandledThenPipe
<1>11. WireOrdered'
  <2> SUFFICES ASSUME NEW j \in 1 .. Len(wire'), NEW k \in 1 .. Len(wire'), j < k,
                      Arrives(j)', Arrives(k)'
               PROVE  Before(notified', wire'[j].msg.handle, wire'[k].msg.handle)
    BY DEF WireOrdered
  <2>1. j \in 1 .. Len(wire) /\ wire'[j] = wire[j] /\ Arrives(j)
    BY <1>1, <1>6
  <2>2. CASE k \in 1 .. Len(wire) /\ wire'[k] = wire[k] /\ Arrives(k)
    BY <1>3, <2>1, <2>2 DEF InOrder, WireOrdered
  <2>3. CASE wire'[k].msg.handle = h /\ Arrives(n + 1)'
    BY <1>4, <2>1, <2>3 DEF InOrder, AllKnown
  <2> QED  BY <1>6, <2>2, <2>3
<1>12. HandledThenWire'
  <2> SUFFICES ASSUME NEW j \in 1 .. Len(handled), NEW k \in 1 .. Len(wire'), Arrives(k)'
               PROVE  Before(notified', handled[j], wire'[k].msg.handle)
    BY DEF HandledThenWire
  <2>1. CASE k \in 1 .. Len(wire) /\ wire'[k] = wire[k] /\ Arrives(k)
    BY <1>3, <2>1 DEF InOrder, HandledThenWire
  <2>2. CASE wire'[k].msg.handle = h /\ Arrives(n + 1)'
    BY <1>4, <2>2 DEF InOrder, AllKnown
  <2> QED  BY <1>6, <2>1, <2>2
<1>13. PipeThenWire'
  <2> SUFFICES ASSUME NEW j \in 1 .. Len(Pipe), NEW k \in 1 .. Len(wire'),
                      Pipe[j].good, Arrives(k)'
               PROVE  Before(notified', Pipe[j].handle, wire'[k].msg.handle)
    BY DEF PipeThenWire
  <2>1. CASE k \in 1 .. Len(wire) /\ wire'[k] = wire[k] /\ Arrives(k)
    BY <1>3, <2>1 DEF InOrder, PipeThenWire
  <2>2. CASE wire'[k].msg.handle = h /\ Arrives(n + 1)'
    BY <1>4, <2>2 DEF InOrder, AllKnown
  <2> QED  BY <1>6, <2>1, <2>2
<1> QED  BY <1>7, <1>8, <1>9, <1>10, <1>11, <1>12, <1>13 DEF InOrder

\* Receive leaves the messages alone, or queues the one it completes, or notes a late one.
LEMMA ReceiveQueues ==
  ASSUME TypeOK, StreamInv, ReceiveStep, late' = {}, late = {}
  PROVE  /\ wire # <<>> /\ wire' = Tail(wire) /\ UNCHANGED <<notified, handled, current>>
         /\ \/ Pipe' = Pipe
            \/ \E m \in Message :
                 /\ PipeGrows(m) /\ m = wire[1].msg /\ request[m.handle].kind = "publish"
                 /\ m.good => Arrives(1)
<1>1. /\ wire # <<>> /\ wire' = Tail(wire) /\ UNCHANGED <<notified, handled, current>>
  BY DEF ReceiveStep, ReceiveIntermediate, ReceiveUnexpected, ReceiveResponse, threadVars
<1>2. CASE ReceiveIntermediate
  BY <1>1, <1>2 DEF ReceiveIntermediate, threadVars, Pipe
<1>3. ~ReceiveUnexpected
  BY DEF ReceiveUnexpected
<1>4. CASE ReceiveResponse
  <2> DEFINE m == Head(wire).msg
  <2>1. m \in Message /\ Head(wire) = wire[1]
    <3>1. wire \in Seq(Chunk)
      BY DEF TypeOK, ServerTypes
    <3>2. Head(wire) \in Chunk /\ Head(wire) = wire[1]
      BY <1>1, <3>1, TailFacts
    <3> QED  BY <3>2 DEF Chunk
  <2>2. ParsedHeader(Head(wire)) = m /\ Append(messageBuffer, m)[1] = m
    BY <1>1, HeadMessage
  <2>3. /\ Head(wire).last
        /\ IF request[m.handle].kind = "publish" THEN Post(m) ELSE UNCHANGED <<Queue, current>>
    BY <1>4, <2>2 DEF ReceiveResponse
  <2>4. CASE request[m.handle].kind = "publish"
    <3>1. PipeGrows(m)
      BY <1>1, <2>1, <2>3, <2>4, PipePosts DEF Post
    <3>2. Arrives(1) \/ ~m.good
      BY <2>1, <2>3, <2>4 DEF Arrives
    <3> QED  BY <1>1, <2>1, <2>4, <3>1, <3>2
  <2>5. CASE request[m.handle].kind # "publish"
    BY <1>1, <2>3, <2>5 DEF Pipe
  <2> QED  BY <2>4, <2>5
<1> QED  BY <1>2, <1>3, <1>4 DEF ReceiveStep

\* What the server sends comes last on the wire.
LEMMA SendsLast ==
  ASSUME TypeOK, NEW msg \in Message, NEW chunks \in Chunks(msg), wire' = wire \o chunks,
         \A k \in 1 .. Len(wire) :
            request'[wire[k].msg.handle].kind = request[wire[k].msg.handle].kind
  PROVE  \E n \in Nat :
           /\ n >= Len(wire) /\ Len(wire') = n + 1
           /\ \A k \in 1 .. Len(wire) : wire'[k] = wire[k] /\ Arrives(k)' = Arrives(k)
           /\ \A k \in Len(wire) + 1 .. n : ~Arrives(k)'
           /\ wire'[n + 1].msg = msg
<1>1. wire \in Seq(Chunk) /\ Len(wire) \in Nat
  BY DEF TypeOK, ServerTypes
<1>2. /\ Len(wire') > Len(wire) /\ Len(wire') \in Nat
      /\ \A k \in 1 .. Len(wire) : wire'[k] = wire[k]
      /\ \A k \in 1 .. Len(wire') : k > Len(wire) =>
           wire'[k].msg = msg /\ (wire'[k].last <=> k = Len(wire'))
  <2>1. Len(wire \o chunks) \in Nat
    BY <1>1, WireAppended
  <2> QED  BY <1>1, <2>1, WireAppended
<1>3. \A k \in 1 .. Len(wire) : Arrives(k)' = Arrives(k)
  BY <1>2 DEF Arrives
<1> DEFINE n == Len(wire') - 1
<1>4. n \in Nat /\ n >= Len(wire) /\ Len(wire') = n + 1
  BY <1>1, <1>2
<1>5. wire'[n + 1].msg = msg
  BY <1>1, <1>2, <1>4
<1>6. ASSUME NEW k \in Len(wire) + 1 .. n PROVE ~Arrives(k)'
  <2>1. k \in 1 .. Len(wire') /\ k > Len(wire) /\ k # Len(wire')
    BY <1>1, <1>2, <1>4
  <2> QED  BY <1>2, <2>1 DEF Arrives
<1> QED  BY <1>2, <1>3, <1>4, <1>5, <1>6

LEMMA NextOrder ==
  ASSUME ClientInv, StreamInv, CallsAreCalls, OrderInv, [Next]_vars
  PROVE  OrderInv'
<1>1. TypeOK /\ OneInHand
  BY DEF ClientInv, OrderInv
<1>2. current' = current => OneInHand'
  BY <1>1 DEF OneInHand
<1>3. late' = {} => late = {} /\ InOrder
  BY LateStays DEF OrderInv
<1>4. \A k \in 1 .. Len(wire) :
         request'[wire[k].msg.handle].kind = request[wire[k].msg.handle].kind
  BY ArrivesStays
<1>5. UNCHANGED wire => \A k \in 1 .. Len(wire) : Arrives(k)' = Arrives(k)
  BY <1>4 DEF Arrives
<1>6. CASE UNCHANGED <<handled, notified, wire, Pipe>> /\ OneInHand'
  <2>1. InOrder => InOrder'
    BY <1>5, <1>6 DEF InOrder, AllKnown, HandledOrdered, PipeOrdered, WireOrdered,
       HandledThenPipe, HandledThenWire, PipeThenWire
  <2> QED  BY <1>3, <1>6, <2>1 DEF OrderInv
<1>7. CASE /\ UNCHANGED <<notified, wire>> /\ PipeShifts /\ OneInHand'
           /\ \/ handled' = handled
              \/ handled' = Append(handled, Pipe[1].handle) /\ Pipe[1].good
  <2>1. InOrder => InOrder'
    BY <1>1, <1>5, <1>7, OrderShifts
  <2> QED  BY <1>3, <1>7, <2>1 DEF OrderInv
<1>8. CASE ReceiveStep
  <2>1. OneInHand'
    BY <1>2, <1>8 DEF ReceiveStep, ReceiveIntermediate, ReceiveUnexpected, ReceiveResponse,
       threadVars
  <2>2. ASSUME late' = {} PROVE InOrder'
    <3>1. /\ wire # <<>> /\ wire' = Tail(wire) /\ UNCHANGED <<notified, handled>>
          /\ \/ Pipe' = Pipe
             \/ \E m \in Message :
                  /\ PipeGrows(m)
                  /\ m.good => m.handle = wire[1].msg.handle /\ Arrives(1)
      BY <1>1, <1>3, <1>8, <2>2, ReceiveQueues
    <3>2. \A k \in 1 .. Len(wire') : k + 1 \in 1 .. Len(wire) /\ wire'[k] = wire[k + 1]
      <4>1. wire \in Seq(Chunk)
        BY <1>1 DEF TypeOK, ServerTypes
      <4> QED  BY <3>1, <4>1, TailFacts
    <3>3. \A k \in 1 .. Len(wire') : Arrives(k)' = Arrives(k + 1)
      BY <1>4, <3>2 DEF Arrives
    <3> QED  BY <1>1, <1>3, <2>2, <3>1, <3>3, OrderReceives
  <2> QED  BY <2>1, <2>2 DEF OrderInv
<1>9. CASE ServerSendsOther
  <2>1. PICK msg \in Message :
          ServerSends(msg) /\ (~msg.good \/ request'[msg.handle].kind # "publish")
    BY <1>9 DEF ServerSendsOther
  <2>2. PICK chunks \in Chunks(msg) : wire' = wire \o chunks
    BY <2>1 DEF ServerSends
  <2>3. PICK n \in Nat :
          /\ n >= Len(wire) /\ Len(wire') = n + 1
          /\ \A k \in 1 .. Len(wire) : wire'[k] = wire[k] /\ Arrives(k)' = Arrives(k)
          /\ \A k \in Len(wire) + 1 .. n : ~Arrives(k)'
          /\ wire'[n + 1].msg = msg
    BY <1>1, <1>4, <2>2, SendsLast
  <2>4. ~Arrives(n + 1)' /\ msg.handle \in Handles
    BY <2>1, <2>3 DEF Arrives, Message
  <2>5. UNCHANGED <<Pipe, handled, notified, current>>
    BY <1>9 DEF ServerSendsOther
  <2>6. InOrder => InOrder'
    BY <1>1, <2>3, <2>4, <2>5, OrderSends
  <2> QED  BY <1>2, <1>3, <2>5, <2>6 DEF OrderInv
<1>10. ASSUME NEW s \in Subs, ServerPublishes(s)
       PROVE  OrderInv'
  <2> DEFINE msg == [handle |-> Head(srvPublish), sub |-> s, good |-> TRUE]
  <2>1. Head(srvPublish) \in Handles
    <3>1. srvPublish \in Seq(Handles)
      BY <1>1 DEF TypeOK, ServerTypes
    <3> QED  BY <1>10, <3>1, TailFacts DEF ServerPublishes
  <2>2. msg \in Message /\ msg.handle = Head(srvPublish)
    BY <2>1 DEF Message
  <2>3. PICK chunks \in Chunks(msg) : wire' = wire \o chunks
    BY <1>10 DEF ServerPublishes
  <2> HIDE DEF msg
  <2>4. PICK n \in Nat :
          /\ n >= Len(wire) /\ Len(wire') = n + 1
          /\ \A k \in 1 .. Len(wire) : wire'[k] = wire[k] /\ Arrives(k)' = Arrives(k)
          /\ \A k \in Len(wire) + 1 .. n : ~Arrives(k)'
          /\ wire'[n + 1].msg = msg
    BY <1>1, <1>4, <2>2, <2>3, SendsLast
  <2>5. UNCHANGED <<Pipe, handled, current>> /\ notified' = Append(notified, Head(srvPublish))
    BY <1>10 DEF ServerPublishes, threadVars, Pipe
  <2>6. InOrder => InOrder'
    BY <1>1, <2>1, <2>2, <2>4, <2>5, OrderSends
  <2> QED  BY <1>2, <1>3, <2>5, <2>6 DEF OrderInv
<1> QED  BY <1>1, <1>6, <1>7, <1>8, <1>9, <1>10, OrderSteps

Increasing(s) == \A a, b \in 1 .. Len(s) : a < b => s[a] < s[b]
Below(s, m) == \A a \in 1 .. Len(s) : s[a] < m

LEMMA IncreasingAppend ==
  ASSUME NEW s \in Seq(Nat), NEW x \in Nat, NEW m \in Nat, Increasing(s), Below(s, x), x < m
  PROVE  Increasing(Append(s, x)) /\ Below(Append(s, x), m)
<1> DEFINE t == Append(s, x)
<1>1. /\ Len(s) \in Nat /\ Len(t) = Len(s) + 1 /\ t[Len(s) + 1] = x
      /\ \A a \in 1 .. Len(s) : t[a] = s[a] /\ s[a] \in Nat
  OBVIOUS
<1> HIDE DEF t
<1>2. ASSUME NEW a \in 1 .. Len(t)
      PROVE  \/ a = Len(s) + 1 /\ t[a] = x
             \/ a \in 1 .. Len(s) /\ t[a] = s[a] /\ s[a] < x /\ s[a] \in Nat
  BY <1>1 DEF Below
<1>3. Below(t, m)
  BY <1>2 DEF Below
<1>4. ASSUME NEW a \in 1 .. Len(t), NEW b \in 1 .. Len(t), a < b
      PROVE  t[a] < t[b]
  <2>1. a \in 1 .. Len(s) /\ t[a] = s[a] /\ s[a] < x
    BY <1>1, <1>2, <1>4
  <2>2. CASE b = Len(s) + 1
    BY <1>1, <2>1, <2>2
  <2>3. CASE b \in 1 .. Len(s)
    <3>1. t[b] = s[b] /\ s[a] < s[b]
      BY <1>1, <1>4, <2>1, <2>3 DEF Increasing
    <3> QED  BY <2>1, <3>1
  <2> QED  BY <1>2, <2>2, <2>3
<1> QED  BY <1>3, <1>4 DEF Increasing, t

LEMMA IncreasingTail ==
  ASSUME NEW s \in Seq(Nat), NEW m \in Nat, s # <<>>, Increasing(s), Below(s, m)
  PROVE  /\ Increasing(Tail(s)) /\ Below(Tail(s), m)
         /\ Head(s) \in Nat /\ Head(s) < m
         /\ \A b \in 1 .. Len(Tail(s)) : Head(s) < Tail(s)[b]
         /\ \A b \in 1 .. Len(Tail(s)) : \E a \in 1 .. Len(s) : Tail(s)[b] = s[a]
<1> DEFINE t == Tail(s)
<1>1. /\ Len(s) \in Nat /\ Len(t) = Len(s) - 1 /\ 1 \in 1 .. Len(s) /\ Head(s) = s[1] /\ s[1] \in Nat
      /\ \A b \in 1 .. Len(t) : t[b] = s[b + 1]
  OBVIOUS
<1> HIDE DEF t
<1>2. \A b \in 1 .. Len(t) : b + 1 \in 1 .. Len(s) /\ 1 < b + 1 /\ t[b] = s[b + 1]
  BY <1>1
<1>3. Below(t, m) /\ s[1] < m /\ \A b \in 1 .. Len(t) : s[1] < t[b]
  BY <1>1, <1>2 DEF Below, Increasing
<1>4. ASSUME NEW a \in 1 .. Len(t), NEW b \in 1 .. Len(t), a < b
      PROVE  t[a] < t[b]
  <2>1. a + 1 \in 1 .. Len(s) /\ b + 1 \in 1 .. Len(s) /\ a + 1 < b + 1
    BY <1>2, <1>4
  <2> QED  BY <1>2, <2>1 DEF Increasing
<1> QED  BY <1>1, <1>2, <1>3, <1>4 DEF Increasing, t

\* The publish requests that the server has, after those that it has answered: handles
\* are given out in order, and each is answered at most once.
GrantsOrdered ==
  /\ Increasing(notified) /\ Below(notified, RequestHandle + 1)
  /\ Increasing(srvPublish) /\ Below(srvPublish, RequestHandle + 1)
  /\ \A b \in 1 .. Len(srvPublish) : Below(notified, srvPublish[b])

LEMMA GrantSteps ==
  ASSUME TypeOK, [Next]_vars
  PROVE  \/ UNCHANGED <<srvPublish, notified>> /\ RequestHandle' \in {RequestHandle, RequestHandle + 1}
         \/ PublishTransmits /\ UNCHANGED notified
         \/ /\ srvPublish # <<>> /\ srvPublish' = Tail(srvPublish)
            /\ notified' = notified \/ notified' = Append(notified, Head(srvPublish))
            /\ UNCHANGED RequestHandle
<1>1. CASE UNCHANGED vars
  BY <1>1 DEF vars, serverVars, sendVars
<1>2. ASSUME NEW c \in Callers, NEW kind \in CallKinds, Send(c, kind) \/ SendThrows(c, kind)
      PROVE  UNCHANGED <<srvPublish, notified>> /\ RequestHandle' = RequestHandle + 1
  BY <1>2 DEF Send, SendThrows, Register, serverVars
<1>3. ASSUME NEW c \in Callers, CallStep(c) \/ SpuriousWakeup(c)
      PROVE  \/ UNCHANGED <<srvPublish, notified>>
                  /\ RequestHandle' \in {RequestHandle, RequestHandle + 1}
             \/ PublishTransmits /\ UNCHANGED notified
  BY <1>3 DEF CallStep, WaitForData, TimesOut, ReadThrows, RemoveCallback, Returns,
     InitialPublish, InitialPublishThrows, PublishThrows, Register, SpuriousWakeup, sendVars,
     serverVars
<1>4. ASSUME AbortSession \/ ReceiveThrows \/ ReceiveStep \/ CallbackThreadStep \/ DestructorStep
      PROVE  \/ UNCHANGED <<srvPublish, notified>>
                  /\ RequestHandle' \in {RequestHandle, RequestHandle + 1}
             \/ PublishTransmits /\ UNCHANGED notified
  BY <1>4 DEF AbortSession, ReceiveThrows, ReceiveStep, ReceiveIntermediate, ReceiveUnexpected,
     ReceiveResponse, CallbackThreadStep, CallbackThreadChecks, CallbackThreadBlocks,
     CallbackHandles, CallbackCannotAcknowledge, CallbackThrows, CallbackUnknown, CallbackRefused,
     PublishThrows, Register, DestructorStep, DestructorStops,
     DestructorJoinsCallbackThread, DestructorJoinsReceiveThread, sendVars, serverVars
<1>5. ASSUME ServerStep
      PROVE  \/ UNCHANGED <<srvPublish, notified, RequestHandle>>
             \/ /\ srvPublish # <<>> /\ srvPublish' = Tail(srvPublish)
                /\ notified' = notified \/ notified' = Append(notified, Head(srvPublish))
                /\ UNCHANGED RequestHandle
  BY <1>5 DEF ServerStep, ServerCreates, ServerAnswers, ServerRefuses, ServerPublishes,
     ServerRefusesPublish, sendVars
<1> QED  BY <1>1, <1>2, <1>3, <1>4, <1>5 DEF Next

LEMMA NextGrants ==
  ASSUME TypeOK, GrantsOrdered, [Next]_vars
  PROVE  GrantsOrdered'
<1>1. /\ notified \in Seq(Nat) /\ srvPublish \in Seq(Nat) /\ RequestHandle \in Nat
      /\ \A a \in 1 .. Len(notified) : notified[a] \in Nat
      /\ \A b \in 1 .. Len(srvPublish) : srvPublish[b] \in Nat
  <2>1. \A h \in Handles : h \in Nat
    BY DEF Handles
  <2>2. notified \in Seq(Handles) /\ srvPublish \in Seq(Handles) /\ RequestHandle \in Nat
    BY ClientAssumption DEF TypeOK, SendTypes, ServerTypes
  <2> QED  BY <2>1, <2>2
<1>2. CASE UNCHANGED <<srvPublish, notified>> /\ RequestHandle' \in {RequestHandle, RequestHandle + 1}
  BY <1>1, <1>2 DEF GrantsOrdered, Increasing, Below
<1>3. CASE PublishTransmits /\ UNCHANGED notified
  <2>1. /\ RequestHandle' = RequestHandle + 1
        /\ srvPublish' = Append(srvPublish, RequestHandle + 1)
    BY <1>1, <1>3 DEF PublishTransmits, Register
  <2>2. Increasing(srvPublish) /\ Below(srvPublish, RequestHandle + 1)
    BY DEF GrantsOrdered
  <2>3. Increasing(srvPublish') /\ Below(srvPublish', RequestHandle + 2)
    BY <1>1, <2>1, <2>2, IncreasingAppend
  <2>4. Increasing(notified) /\ Below(notified, RequestHandle + 2)
    BY <1>1 DEF GrantsOrdered, Below
  <2>5. \A b \in 1 .. Len(srvPublish') :
           srvPublish'[b] = RequestHandle + 1 \/ \E a \in 1 .. Len(srvPublish) : srvPublish'[b] = srvPublish[a]
    BY <1>1, <2>1
  <2>6. \A b \in 1 .. Len(srvPublish') : Below(notified, srvPublish'[b])
    BY <2>5 DEF GrantsOrdered
  <2> QED  BY <1>1, <1>3, <2>1, <2>3, <2>4, <2>6 DEF GrantsOrdered
<1>4. CASE /\ srvPublish # <<>> /\ srvPublish' = Tail(srvPublish)
           /\ notified' = notified \/ notified' = Append(notified, Head(srvPublish))
           /\ UNCHANGED RequestHandle
  <2> DEFINE h == Head(srvPublish)
  <2>1. Increasing(srvPublish) /\ Below(srvPublish, RequestHandle + 1) /\ RequestHandle + 1 \in Nat
    BY <1>1 DEF GrantsOrdered
  <2>2. /\ Increasing(srvPublish') /\ Below(srvPublish', RequestHandle + 1)
        /\ h \in Nat /\ h < RequestHandle + 1
        /\ \A b \in 1 .. Len(srvPublish') : h < srvPublish'[b]
        /\ \A b \in 1 .. Len(srvPublish') : \E a \in 1 .. Len(srvPublish) : srvPublish'[b] = srvPublish[a]
    BY <1>1, <1>4, <2>1, IncreasingTail
  <2>3. Below(notified, h)
    <3>1. 1 \in 1 .. Len(srvPublish) /\ h = srvPublish[1]
      BY <1>1, <1>4
    <3> QED  BY <3>1 DEF GrantsOrdered
  <2>4. \A b \in 1 .. Len(srvPublish') : Below(notified, srvPublish'[b]) /\ srvPublish'[b] \in Nat
    BY <1>1, <2>2 DEF GrantsOrdered
  <2>5. Increasing(notified) /\ Below(notified, RequestHandle + 1)
    BY DEF GrantsOrdered
  <2> HIDE DEF h
  <2>6. CASE notified' = notified
    BY <1>4, <2>2, <2>4, <2>5, <2>6 DEF GrantsOrdered
  <2>7. CASE notified' = Append(notified, h)
    <3>1. Increasing(notified') /\ Below(notified', RequestHandle + 1)
      BY <1>1, <2>1, <2>2, <2>3, <2>5, <2>7, IncreasingAppend
    <3>2. ASSUME NEW b \in 1 .. Len(srvPublish')
          PROVE  Below(notified', srvPublish'[b])
      <4>1. srvPublish'[b] \in Nat /\ h < srvPublish'[b]
        BY <2>2, <2>4
      <4> QED  BY <1>1, <2>2, <2>3, <2>5, <2>7, <4>1, IncreasingAppend
    <3> QED  BY <1>4, <2>2, <3>1, <3>2 DEF GrantsOrdered
  <2> QED  BY <1>4, <2>6, <2>7 DEF h
<1> QED  BY <1>2, <1>3, <1>4, GrantSteps

LEMMA GrantsInvariant == Spec => []GrantsOrdered
<1>1. Init => GrantsOrdered
  BY DEF Init, GrantsOrdered, Increasing, Below
<1>2. ClientInv => TypeOK
  BY DEF ClientInv
<1> QED  BY <1>1, <1>2, ClientInvariant, NextGrants, PTL DEF Spec

\* Publish responses are handed to the application at most once and in the order in which the
\* server sent them, through the stream, the queue and the callback thread, unless a late
\* response has been left in messageBuffer before (Receive, CallbackThread::post and Run).
THEOREM NotificationsStayInOrder == Spec => []NotificationsInOrder
<1>1. ASSUME TypeOK, GrantsOrdered, OrderInv
      PROVE  NotificationsInOrder
  <2>1. \A a \in 1 .. Len(notified) : notified[a] \in Nat
    <3>1. notified \in Seq(Handles) /\ \A h \in Handles : h \in Nat
      BY <1>1 DEF TypeOK, ServerTypes, Handles
    <3> QED  BY <3>1
  <2>2. \A a, b \in 1 .. Len(notified) : a < b => notified[a] # notified[b]
    BY <1>1, <2>1 DEF GrantsOrdered, Increasing
  <2>3. ASSUME late = {}, NEW j \in 1 .. Len(handled), NEW k \in 1 .. Len(handled), j < k
        PROVE  /\ handled[j] # handled[k]
               /\ \E a, b \in 1 .. Len(notified) :
                     a < b /\ notified[a] = handled[j] /\ notified[b] = handled[k]
    <3>1. Before(notified, handled[j], handled[k])
      BY <1>1, <2>3 DEF OrderInv, InOrder, HandledOrdered
    <3>2. PICK a, b \in 1 .. Len(notified) :
            a < b /\ notified[a] = handled[j] /\ notified[b] = handled[k]
      BY <3>1 DEF Before
    <3> QED  BY <2>2, <3>2
  <2> QED  BY <2>3 DEF NotificationsInOrder
<1>2. ClientInv /\ StreamInv /\ CallsAreCalls /\ OrderInv /\ [Next]_vars => OrderInv'
  BY NextOrder
<1>3. ClientInv => TypeOK
  BY DEF ClientInv
<1> QED  BY <1>1, <1>2, <1>3, InitOrder, ClientInvariant, StreamInvariant, CallsInvariant,
         GrantsInvariant, PTL DEF Spec

--------------------------------------------------------------------------------
(* The notifications of a sole subscription                                    *)

Creates == {h \in Handles : request[h].kind = "create"}

\* The subscription of a request no longer changes: the server has answered or created it.
Settled(h) == h \notin srvCalls \/ request[h].sub # NoSub

\* A response carries the subscription of its request; a notification, one of the server's.
Answered(m) ==
  /\ request[m.handle].kind = "create" => Settled(m.handle) /\ m.sub = request[m.handle].sub
  /\ request[m.handle].kind = "publish" /\ m.good => m.sub \in srvSubs

Sent == \A h \in Handles : request[h].kind # "none" => h <= RequestHandle
SubOrigin == \A s \in srvSubs : \E h \in Creates : request[h].sub = s
WireAnswered == \A k \in 1 .. Len(wire) : Answered(wire[k].msg)
DataAnswered == \A c \in Callers : call[c].data # <<>> => Answered(call[c].data[1])
PipeAnswered ==
  \A k \in 1 .. Len(Pipe) : request[Pipe[k].handle].kind = "publish" /\ Answered(Pipe[k])
\* Without spurious wakeups a call wakes up with its response.
NotifiedData == \A c \in Callers : call[c].pc = "notified" => call[c].data # <<>>

\* The application has begun to publish: the subscription's callback is stored.
Publishing ==
  \/ \E h \in Handles : request[h].kind = "publish"
  \/ \E c \in Callers : call[c].pc = "publishing"
CallbackStored == \E h \in Creates : Settled(h) /\ request[h].sub \in PublishCallbacks
Sole == \A g, h \in Creates : g = h

HeardInv ==
  /\ Sent /\ SubOrigin /\ WireAnswered /\ NotifiedData
  /\ late = {} => DataAnswered /\ PipeAnswered
  /\ late = {} /\ ~closed => (Publishing => CallbackStored)
  /\ late = {} /\ ~closed /\ Sole => unknown = <<>>

LEMMA InitHeard == Init => HeardInv
<1> SUFFICES ASSUME Init PROVE HeardInv
  OBVIOUS
<1>1. Pipe = <<>> /\ wire = <<>>
  BY DEF Init, Pipe
<1>2. Sent /\ SubOrigin /\ WireAnswered /\ NotifiedData /\ DataAnswered
  BY <1>1 DEF Init, Sent, SubOrigin, WireAnswered, NotifiedData, DataAnswered, IdleCall, NoRequest
<1>3. PipeAnswered /\ ~Publishing
  BY <1>1 DEF Init, PipeAnswered, Publishing, IdleCall, NoRequest
<1> QED  BY <1>2, <1>3 DEF Init, HeardInv

LEMMA ServerStays ==
  ASSUME [Next]_vars
  PROVE  /\ srvCalls' \subseteq srvCalls \cup {RequestHandle + 1}
         /\ srvSubs' = srvSubs \/ \E h \in Handles : ServerCreates(h)
         /\ closed => closed'
<1>1. srvCalls' \subseteq srvCalls \cup {RequestHandle + 1}
  BY DEF Next, vars, Send, SendThrows, CallStep, WaitForData, TimesOut, ReadThrows, RemoveCallback,
     Returns, InitialPublish, InitialPublishThrows, SpuriousWakeup, AbortSession, ReceiveStep,
     ReceiveIntermediate, ReceiveUnexpected, ReceiveResponse, ReceiveThrows, CallbackThreadStep,
     CallbackThreadChecks, CallbackThreadBlocks, CallbackHandles, CallbackCannotAcknowledge,
     CallbackThrows, CallbackUnknown, CallbackRefused, DestructorStep, DestructorStops,
     DestructorJoinsCallbackThread, DestructorJoinsReceiveThread, ServerStep, ServerCreates,
     ServerAnswers,
     ServerRefuses, ServerPublishes, ServerRefusesPublish, serverVars
<1>2. srvSubs' = srvSubs \/ \E h \in Handles : ServerCreates(h)
  BY DEF Next, vars, Send, SendThrows, CallStep, WaitForData, TimesOut, ReadThrows, RemoveCallback,
     Returns, InitialPublish, InitialPublishThrows, SpuriousWakeup, AbortSession, ReceiveStep,
     ReceiveIntermediate, ReceiveUnexpected, ReceiveResponse, ReceiveThrows, CallbackThreadStep,
     CallbackThreadChecks, CallbackThreadBlocks, CallbackHandles, CallbackCannotAcknowledge,
     CallbackThrows, CallbackUnknown, CallbackRefused, DestructorStep, DestructorStops,
     DestructorJoinsCallbackThread, DestructorJoinsReceiveThread, ServerStep, ServerAnswers,
     ServerRefuses, ServerPublishes, ServerRefusesPublish, serverVars
<1>3. closed => closed'
  BY DEF Next, vars, Send, SendThrows, CallStep, WaitForData, TimesOut, ReadThrows, RemoveCallback,
     Returns, InitialPublish, InitialPublishThrows, SpuriousWakeup, AbortSession, ReceiveStep,
     ReceiveIntermediate, ReceiveUnexpected, ReceiveResponse, ReceiveThrows, CallbackThreadStep,
     CallbackThreadChecks, CallbackThreadBlocks, CallbackHandles, CallbackCannotAcknowledge,
     CallbackThrows, CallbackUnknown, CallbackRefused, DestructorStep, DestructorStops,
     DestructorJoinsCallbackThread, DestructorJoinsReceiveThread, ServerStep, ServerCreates,
     ServerAnswers,
     ServerRefuses, ServerPublishes, ServerRefusesPublish
<1> QED  BY <1>1, <1>2, <1>3

LEMMA SettledStays ==
  ASSUME TypeOK, [Next]_vars, NEW h \in Handles, h <= RequestHandle
  PROVE  /\ request'[h].kind = request[h].kind
         /\ Settled(h) => Settled(h)' /\ request'[h] = request[h]
<1>1. request \in [Handles -> Request] /\ RequestHandle \in Nat /\ h \in Nat
  BY ClientAssumption DEF TypeOK, SendTypes, Handles
<1>2. /\ request'[h].kind = request[h].kind
      /\ h \notin srvCalls => request'[h] = request[h]
  BY RequestsStayNext DEF RequestsStay
<1>3. h \notin srvCalls => h \notin srvCalls'
  BY <1>1, ServerStays
<1>4. ASSUME request[h].sub # NoSub PROVE request'[h] = request[h]
  <2>1. CASE UNCHANGED request
    BY <2>1
  <2>2. ASSUME NEW kind \in Kinds, NEW c \in Callers \cup {NoCaller}, Register(kind, c)
        PROVE  request'[h] = request[h]
    BY <1>1, <2>2 DEF Register
  <2>3. ASSUME NEW g \in Handles, ServerCreates(g)
        PROVE  request'[h] = request[h]
    <3>1. g # h /\ request' = [request EXCEPT ![g].sub = Cardinality(srvSubs) + 1]
      BY <1>4, <2>3 DEF ServerCreates
    <3> QED  BY <1>1, <3>1
  <2> QED  BY <2>1, <2>2, <2>3, RequestSteps
<1> QED  BY <1>2, <1>3, <1>4 DEF Settled

LEMMA AnsweredStays ==
  ASSUME TypeOK, [Next]_vars, NEW m \in Message, m.handle <= RequestHandle, Answered(m)
  PROVE  Answered(m)'
<1>1. m.handle \in Handles
  BY DEF Message
<1>2. srvSubs \subseteq srvSubs'
  BY ServerStays DEF ServerCreates
<1>3. /\ request'[m.handle].kind = request[m.handle].kind
      /\ Settled(m.handle) => Settled(m.handle)' /\ request'[m.handle] = request[m.handle]
  BY <1>1, SettledStays
<1> QED  BY <1>2, <1>3 DEF Answered

LEMMA NextSent ==
  ASSUME TypeOK, Sent, [Next]_vars
  PROVE  Sent'
<1>1. request \in [Handles -> Request] /\ RequestHandle \in Nat
  BY ClientAssumption DEF TypeOK, SendTypes
<1>2. CASE UNCHANGED <<request, RequestHandle>>
  BY <1>2 DEF Sent
<1>3. ASSUME NEW kind \in Kinds, NEW c \in Callers \cup {NoCaller}, Register(kind, c)
      PROVE  Sent'
  BY <1>1, <1>3 DEF Register, Sent, Handles
<1>4. ASSUME NEW g \in Handles, ServerCreates(g)
      PROVE  Sent'
  <2>1. /\ request' = [request EXCEPT ![g].sub = Cardinality(srvSubs) + 1]
        /\ RequestHandle' = RequestHandle
    BY <1>4 DEF ServerCreates
  <2>2. \A h \in Handles : request'[h].kind = request[h].kind
    BY <1>1, <2>1 DEF Request
  <2> QED  BY <2>1, <2>2 DEF Sent
<1> QED  BY <1>2, <1>3, <1>4, RequestSteps

\* A create request stays one.
LEMMA CreatesStay ==
  ASSUME TypeOK, Sent, [Next]_vars, NEW h \in Creates
  PROVE  /\ h \in Creates'
         /\ Settled(h) => Settled(h)' /\ request'[h] = request[h]
<1>1. h \in Handles /\ request[h].kind = "create" /\ h <= RequestHandle
  BY DEF Creates, Sent
<1> QED  BY <1>1, SettledStays DEF Creates

LEMMA NextSubOrigin ==
  ASSUME TypeOK, Sent, SubOrigin, [Next]_vars
  PROVE  SubOrigin'
<1>1. request \in [Handles -> Request] /\ srvSubs \in SUBSET Subs
  BY DEF TypeOK, SendTypes, ServerTypes
<1>2. ASSUME NEW s \in srvSubs PROVE \E h \in Creates' : request'[h].sub = s
  <2>1. PICK h \in Creates : request[h].sub = s
    BY DEF SubOrigin
  <2>2. s # NoSub
    BY <1>1 DEF Subs, NoSub
  <2>3. h \in Creates' /\ request'[h] = request[h]
    BY <2>1, <2>2, CreatesStay DEF Settled
  <2> QED  BY <2>1, <2>3
<1>3. ASSUME NEW g \in Handles, ServerCreates(g)
      PROVE  SubOrigin'
  <2>1. /\ srvSubs' = srvSubs \cup {Cardinality(srvSubs) + 1} /\ request[g].kind = "create"
        /\ request' = [request EXCEPT ![g].sub = Cardinality(srvSubs) + 1]
    BY <1>3 DEF ServerCreates
  <2>2. g \in Creates' /\ request'[g].sub = Cardinality(srvSubs) + 1
    BY <1>1, <2>1 DEF Creates, Request
  <2> QED  BY <1>2, <2>1, <2>2 DEF SubOrigin
<1>4. CASE srvSubs' = srvSubs
  BY <1>2, <1>4 DEF SubOrigin
<1> QED  BY <1>3, <1>4, ServerStays

\* Whatever the server sends is an answer to what it was asked.
LEMMA ServerAnswersWell ==
  ASSUME ClientInv, CallsAreCalls, ServerStep
  PROVE  \/ wire' = wire
         \/ \E msg \in Message : ServerSends(msg) /\ Answered(msg)'
<1>1. /\ TypeOK /\ request \in [Handles -> Request] /\ srvPublish \in Seq(Handles)
  BY DEF ClientInv, TypeOK, SendTypes, ServerTypes
<1>2. ASSUME NEW h \in Handles, ServerCreates(h) PROVE wire' = wire
  BY <1>2 DEF ServerCreates
<1>3. ASSUME NEW h \in Handles, ServerAnswers(h)
      PROVE  \E msg \in Message : ServerSends(msg) /\ Answered(msg)'
  <2>1. [handle |-> h, sub |-> request[h].sub, good |-> TRUE] \in Message
    <3>1. request[h].sub \in Subs \cup {NoSub}
      BY <1>1 DEF Request
    <3> QED  BY <3>1, MessageTypes
  <2>2. PICK msg \in Message : msg = [handle |-> h, sub |-> request[h].sub, good |-> TRUE]
    BY <2>1
  <2>3. ServerSends(msg) /\ request' = request /\ h \notin srvCalls'
    BY <1>3, <2>2 DEF ServerAnswers, ServerSends, sendVars
  <2>4. request[h].kind # "publish"
    BY <1>3 DEF ServerAnswers, CallsAreCalls
  <2>5. Answered(msg)'
    BY <2>2, <2>3, <2>4 DEF Answered, Settled
  <2> QED  BY <2>3, <2>5
<1>4. ASSUME NEW h \in Handles, ServerRefuses(h)
      PROVE  \E msg \in Message : ServerSends(msg) /\ Answered(msg)'
  <2>1. Refusal(h) \in Message
    BY DEF Refusal, Message
  <2>2. PICK msg \in Message : msg = Refusal(h)
    BY <2>1
  <2>3. ServerSends(msg) /\ request' = request /\ h \notin srvCalls' /\ request[h].sub = NoSub
    BY <1>4, <2>2 DEF ServerRefuses, ServerSends, sendVars
  <2>4. Answered(msg)'
    BY <2>2, <2>3 DEF Answered, Settled, Refusal
  <2> QED  BY <2>3, <2>4
<1>5. ASSUME NEW s \in Subs, ServerPublishes(s)
      PROVE  \E msg \in Message : ServerSends(msg) /\ Answered(msg)'
  <2>1. Head(srvPublish) \in Handles /\ request[Head(srvPublish)].kind = "publish"
    BY <1>1, <1>5, TailFacts DEF ServerPublishes, ClientInv, PublishKind
  <2>2. PICK msg \in Message : msg = [handle |-> Head(srvPublish), sub |-> s, good |-> TRUE]
    BY <2>1 DEF Message
  <2>3. ServerSends(msg) /\ request' = request /\ s \in srvSubs'
    BY <1>5, <2>2 DEF ServerPublishes, ServerSends, sendVars
  <2>4. Answered(msg)'
    BY <2>1, <2>2, <2>3 DEF Answered
  <2> QED  BY <2>3, <2>4
<1>6. ASSUME ServerRefusesPublish
      PROVE  \E msg \in Message : ServerSends(msg) /\ Answered(msg)'
  <2>1. Head(srvPublish) \in Handles /\ request[Head(srvPublish)].kind = "publish"
    BY <1>1, <1>6, TailFacts DEF ServerRefusesPublish, ClientInv, PublishKind
  <2>2. PICK msg \in Message : msg = Refusal(Head(srvPublish))
    BY <2>1 DEF Message, Refusal
  <2>3. ServerSends(msg) /\ request' = request
    BY <1>6, <2>2 DEF ServerRefusesPublish, ServerSends, sendVars
  <2>4. Answered(msg)'
    BY <2>1, <2>2, <2>3 DEF Answered, Refusal
  <2> QED  BY <2>3, <2>4
<1> QED  BY <1>2, <1>3, <1>4, <1>5, <1>6 DEF ServerStep

LEMMA NextWireAnswered ==
  ASSUME ClientInv, CallsAreCalls, WireAnswered, [Next]_vars
  PROVE  WireAnswered'
<1>1. TypeOK /\ wire \in Seq(Chunk) /\ Len(wire) \in Nat
  BY DEF ClientInv, TypeOK, ServerTypes
<1>2. ASSUME NEW k \in 1 .. Len(wire), NEW m, m = wire[k].msg PROVE Answered(m)'
  <2>1. m \in Message /\ m.handle \in OnWire
    <3>1. wire[k] \in Chunk
      BY <1>1
    <3>2. m \in Message
      BY <1>2, <3>1 DEF Chunk
    <3>3. m.handle \in OnWire
      BY <1>2 DEF OnWire
    <3> QED  BY <3>2, <3>3
  <2>2. m.handle <= RequestHandle
    BY <2>1 DEF ClientInv, HandlesGivenOut
  <2> QED  BY <1>1, <1>2, <2>1, <2>2, AnsweredStays DEF WireAnswered
<1>3. ASSUME \A k \in 1 .. Len(wire') :
                \/ \E j \in 1 .. Len(wire) : wire'[k].msg = wire[j].msg
                \/ \E m \in Message : wire'[k].msg = m /\ Answered(m)'
      PROVE  WireAnswered'
  BY <1>2, <1>3 DEF WireAnswered, Answered
<1>4. CASE wire' = wire
  BY <1>3, <1>4
<1>5. CASE ReceiveStep
  <2>1. wire # <<>> /\ wire' = Tail(wire)
    BY <1>5 DEF ReceiveStep, ReceiveIntermediate, ReceiveUnexpected, ReceiveResponse
  <2>2. \A k \in 1 .. Len(wire') : k + 1 \in 1 .. Len(wire) /\ wire'[k] = wire[k + 1]
    BY <1>1, <2>1, TailFacts
  <2> QED  BY <1>3, <2>2
<1>6. ASSUME NEW msg \in Message, ServerSends(msg), Answered(msg)'
      PROVE  WireAnswered'
  <2>1. PICK chunks \in Chunks(msg) : wire' = wire \o chunks
    BY <1>6 DEF ServerSends
  <2>2. /\ \A k \in 1 .. Len(wire) : wire'[k] = wire[k]
        /\ \A k \in 1 .. Len(wire') : k > Len(wire) => wire'[k].msg = msg
    BY <1>1, <2>1, WireAppended
  <2>3. \A k \in 1 .. Len(wire') : k \in 1 .. Len(wire) \/ k > Len(wire)
    BY <1>1
  <2> QED  BY <1>3, <1>6, <2>2, <2>3
<1>7. wire' = wire \/ ReceiveStep \/ ServerStep
  BY DEF Next, vars, Send, SendThrows, CallStep, WaitForData, TimesOut, ReadThrows, RemoveCallback,
     Returns, InitialPublish, InitialPublishThrows, SpuriousWakeup, AbortSession, ReceiveThrows,
     CallbackThreadStep, CallbackThreadChecks, CallbackThreadBlocks, CallbackHandles,
     CallbackCannotAcknowledge, CallbackThrows, CallbackUnknown, CallbackRefused, DestructorStep,
     DestructorStops, DestructorJoinsCallbackThread, DestructorJoinsReceiveThread, serverVars
<1> QED  BY <1>4, <1>5, <1>6, <1>7, ServerAnswersWell
\* The data that a call holds are an answer.
LEMMA NextDataAnswered ==
  ASSUME ClientInv, StreamInv, DataIsOwn, WireAnswered, DataAnswered, late' = {}, [Next]_vars
  PROVE  DataAnswered'
<1>1. TypeOK /\ call \in [Callers -> Call] /\ wire \in Seq(Chunk) /\ late = {}
  BY LateStays DEF ClientInv, TypeOK, SendTypes, ServerTypes
<1> SUFFICES ASSUME NEW c \in Callers, call'[c].data # <<>>, NEW m, m = call'[c].data[1]
             PROVE  Answered(m)'
  BY DEF DataAnswered, Answered
<1>2. CASE call'[c].data = call[c].data
  <2>1. call[c].data \in Seq(Message) /\ call[c].data # <<>>
    BY <1>1, <1>2 DEF Call
  <2>2. m \in Message /\ m = call[c].data[1]
    BY <1>2, <2>1
  <2>3. m.handle <= RequestHandle
    BY <1>1, <2>1, <2>2 DEF DataIsOwn, ClientInv, HandlesGivenOut
  <2> QED  BY <1>1, <2>1, <2>2, <2>3, AnsweredStays DEF DataAnswered
<1>3. CASE ReceiveResponse /\ m = Head(wire).msg
  <2>1. wire # <<>> /\ Head(wire) = wire[1] /\ Head(wire) \in Chunk /\ 1 \in 1 .. Len(wire)
    BY <1>1, <1>3, TailFacts DEF ReceiveResponse
  <2>2. m \in Message /\ m = wire[1].msg
    BY <1>3, <2>1 DEF Chunk
  <2>3. m.handle <= RequestHandle
    BY <2>1, <2>2 DEF ClientInv, HandlesGivenOut, OnWire
  <2> QED  BY <1>1, <2>1, <2>2, <2>3, AnsweredStays DEF WireAnswered
<1>4. DataStays => call'[c].data = call[c].data
  BY DEF DataStays
<1>5. ReceiveResponse => call'[c] = call[c] \/ m = Head(wire).msg
  BY <1>1, ResponseData
<1> QED  BY <1>1, <1>2, <1>3, <1>4, <1>5, DataSteps

\* What the callback thread is to handle are notifications of the server's subscriptions.
LEMMA NextPipeAnswered ==
  ASSUME ClientInv, StreamInv, CallsAreCalls, OneInHand, Sent, WireAnswered, PipeAnswered,
         late' = {}, [Next]_vars
  PROVE  PipeAnswered'
<1>1. TypeOK /\ wire \in Seq(Chunk) /\ late = {} /\ Len(Pipe) \in Nat /\ Pipe \in Seq(Message)
  BY LateStays, PipeFacts DEF ClientInv, TypeOK, ServerTypes
<1>2. ASSUME NEW k \in 1 .. Len(Pipe), NEW m, m = Pipe[k]
      PROVE  request'[m.handle].kind = "publish" /\ Answered(m)'
  <2>1. m \in Message
    BY <1>1, <1>2
  <2>2. m.handle \in Handles /\ request[m.handle].kind = "publish" /\ Answered(m)
    BY <1>2, <2>1 DEF PipeAnswered, Message
  <2>3. m.handle <= RequestHandle
    BY <2>2 DEF Sent
  <2> QED  BY <1>1, <2>1, <2>2, <2>3, AnsweredStays, SettledStays
<1>3. ASSUME \A k \in 1 .. Len(Pipe') : 
                \/ \E j \in 1 .. Len(Pipe) : Pipe'[k] = Pipe[j]
                \/ \E m \in Message : Pipe'[k] = m /\ request'[m.handle].kind = "publish" /\ Answered(m)'
      PROVE  PipeAnswered'
  BY <1>2, <1>3 DEF PipeAnswered, Answered
<1>4. CASE Pipe' = Pipe
  BY <1>3, <1>4
<1>5. CASE PipeShifts
  BY <1>3, <1>5 DEF PipeShifts
<1>6. CASE ReceiveStep
  <2>1. wire # <<>> /\ (Pipe' = Pipe \/ \E m \in Message :
           PipeGrows(m) /\ m = wire[1].msg /\ request[m.handle].kind = "publish")
    BY <1>1, <1>6, ReceiveQueues
  <2>2. ASSUME NEW m \in Message, PipeGrows(m), m = wire[1].msg, request[m.handle].kind = "publish"
        PROVE  PipeAnswered'
    <3>1. 1 \in 1 .. Len(wire) /\ m.handle \in Handles
      BY <1>1, <2>1 DEF Message
    <3>2. m.handle <= RequestHandle
      BY <2>2, <3>1 DEF Sent
    <3>3. Answered(m)' /\ request'[m.handle].kind = "publish"
      BY <1>1, <2>2, <3>1, <3>2, AnsweredStays, SettledStays DEF WireAnswered
    <3>4. \A k \in 1 .. Len(Pipe') : k \in 1 .. Len(Pipe) \/ k = Len(Pipe) + 1
      BY <1>1, <2>2 DEF PipeGrows
    <3> QED  BY <1>3, <2>2, <3>3, <3>4 DEF PipeGrows
  <2> QED  BY <1>4, <2>1, <2>2
<1>7. CASE ServerStep
  BY <1>4, <1>7 DEF ServerStep, ServerCreates, ServerAnswers, ServerRefuses, ServerPublishes,
     ServerRefusesPublish, threadVars, Pipe
<1>8. (\E s \in Subs : ServerPublishes(s)) => ServerStep
  BY DEF ServerStep
<1> QED  BY <1>1, <1>4, <1>5, <1>6, <1>7, <1>8, OrderSteps DEF ServerSendsOther

\* A call is woken up by its response.
LEMMA NextNotifiedData ==
  ASSUME ClientInv, StreamInv, ~SpuriousWakeups, NotifiedData, [Next]_vars
  PROVE  NotifiedData'
<1>1. TypeOK /\ call \in [Callers -> Call]
  BY DEF ClientInv, TypeOK, SendTypes
<1>2. CASE call' = call
  BY <1>2 DEF NotifiedData
<1>3. ASSUME NEW c \in Callers, NEW new, call' = [call EXCEPT ![c] = new], new.pc # "notified"
      PROVE  NotifiedData'
  BY <1>1, <1>3 DEF NotifiedData
<1>4. /\ IdleCall.pc # "notified" /\ \A h : SentCall(h).pc # "notified"
      /\ \A n : PublishingCall(n).pc # "notified"
  BY DEF IdleCall, SentCall, PublishingCall
<1>5. ASSUME NEW c \in Callers, NEW kind \in CallKinds, Send(c, kind) PROVE NotifiedData'
  BY <1>3, <1>4, <1>5 DEF Send
<1>6. ASSUME NEW c \in Callers, NEW pc, pc # "notified", call' = [call EXCEPT ![c].pc = pc]
      PROVE  NotifiedData'
  BY <1>1, <1>6 DEF NotifiedData, Call
<1>7. ASSUME NEW c \in Callers, WaitForData(c) \/ TimesOut(c) \/ ReadThrows(c)
      PROVE  NotifiedData'
  BY <1>6, <1>7 DEF WaitForData, TimesOut, ReadThrows
<1>8. ASSUME NEW c \in Callers, RemoveCallback(c) \/ InitialPublishThrows(c) PROVE NotifiedData'
  BY <1>3, <1>4, <1>8 DEF RemoveCallback, InitialPublishThrows
<1>9. ASSUME NEW c \in Callers, Returns(c) \/ InitialPublish(c) PROVE NotifiedData'
  <2>1. \E new : call' = [call EXCEPT ![c] = new] /\ new.pc # "notified"
    BY <1>4, <1>9 DEF Returns, InitialPublish
  <2> QED  BY <1>3, <2>1
<1>10. CASE ReceiveResponse
  <2> SUFFICES ASSUME NEW c \in Callers, call'[c].pc = "notified" PROVE call'[c].data # <<>>
    BY DEF NotifiedData
  <2>1. CASE call'[c] = call[c]
    BY <2>1 DEF NotifiedData
  <2>2. CASE call'[c] = Delivered(call[c], Append(messageBuffer, Head(wire).msg))
    <3>1. messageBuffer \in Seq(Message)
      BY <1>1 DEF TypeOK, ReceiveTypes
    <3>2. Head(wire).msg \in Message
      <4>1. wire \in Seq(Chunk) /\ wire # <<>>
        BY <1>1, <1>10 DEF TypeOK, ServerTypes, ReceiveResponse
      <4>2. Head(wire) \in Chunk
        BY <4>1, TailFacts
      <4> QED  BY <4>2 DEF Chunk
    <3>3. Len(Append(messageBuffer, Head(wire).msg)) = Len(messageBuffer) + 1
      BY <3>1, <3>2
    <3>4. Append(messageBuffer, Head(wire).msg) # <<>>
      <4>1. Len(messageBuffer) + 1 # Len(<<>>)
        BY <3>1
      <4> QED  BY <3>3, <4>1, Zenon
    <3> QED  BY <2>2, <3>4 DEF Delivered
  <2> QED  BY <1>10, <2>1, <2>2, ResponseData
<1>11. ASSUME \/ UNCHANGED vars \/ AbortSession \/ ReceiveIntermediate \/ ReceiveUnexpected
              \/ ReceiveThrows \/ CallbackThreadStep \/ DestructorStep \/ ServerStep
              \/ \E c \in Callers, kind \in CallKinds : SendThrows(c, kind)
       PROVE  call' = call
  BY <1>11 DEF vars, AbortSession, ReceiveIntermediate, ReceiveUnexpected, ReceiveThrows,
     CallbackThreadStep, CallbackThreadChecks, CallbackThreadBlocks, CallbackHandles,
     CallbackCannotAcknowledge, CallbackThrows, CallbackUnknown, CallbackRefused, DestructorStep,
     DestructorStops, DestructorJoinsCallbackThread, DestructorJoinsReceiveThread, ServerStep,
     ServerCreates, ServerAnswers, ServerRefuses, ServerPublishes, ServerRefusesPublish, SendThrows
<1>12. ~\E c \in Callers : SpuriousWakeup(c)
  BY DEF SpuriousWakeup
<1> QED  BY <1>2, <1>5, <1>7, <1>8, <1>9, <1>10, <1>11, <1>12 DEF Next, CallStep, ReceiveStep
\* The application's callbacks stay, and publishing begins only when a call returns, unless
\* the session is closed.
LEMMA PublishingSteps ==
  ASSUME TypeOK, Sent, [Next]_vars, ~closed'
  PROVE  /\ PublishCallbacks \subseteq PublishCallbacks'
         /\ \/ Publishing' => Publishing \/ callbackThread = "calling"
            \/ \E c \in Callers : Returns(c)
<1>1. /\ call \in [Callers -> Call] /\ request \in [Handles -> Request] /\ RequestHandle \in Nat
  BY ClientAssumption DEF TypeOK, SendTypes
<1>2. PublishCallbacks \subseteq PublishCallbacks'
  <2>1. ASSUME NEW c \in Callers, Returns(c) PROVE PublishCallbacks \subseteq PublishCallbacks'
    BY <2>1 DEF Returns, StoredCallbacks
  <2>2. ~AbortSession
    BY DEF AbortSession
  <2>3. UNCHANGED PublishCallbacks \/ AbortSession \/ \E c \in Callers : Returns(c)
    BY DEF Next, vars, clientVars, Send, SendThrows, CallStep, WaitForData, TimesOut, ReadThrows,
     RemoveCallback, InitialPublish, InitialPublishThrows, SpuriousWakeup, ReceiveStep,
     ReceiveIntermediate, ReceiveUnexpected, ReceiveResponse, ReceiveThrows, CallbackThreadStep,
     CallbackThreadChecks, CallbackThreadBlocks, CallbackHandles, CallbackCannotAcknowledge,
     CallbackThrows, CallbackUnknown, CallbackRefused, DestructorStep, DestructorStops,
     DestructorJoinsCallbackThread, DestructorJoinsReceiveThread, ServerStep, ServerCreates,
     ServerAnswers, ServerRefuses, ServerPublishes, ServerRefusesPublish
  <2> QED  BY <2>1, <2>2, <2>3
\* A request to publish comes from a Subscription's constructor or from a callback.
<1>3. ASSUME NEW h \in Handles, request'[h].kind = "publish"
      PROVE  Publishing \/ callbackThread = "calling"
  <2>1. CASE request' = request
    BY <1>3, <2>1 DEF Publishing
  <2>2. ASSUME NEW g \in Handles, ServerCreates(g) PROVE Publishing
    <3>1. request' = [request EXCEPT ![g].sub = Cardinality(srvSubs) + 1]
      BY <2>2 DEF ServerCreates
    <3>2. request'[h].kind = request[h].kind
      BY <1>1, <3>1 DEF Request
    <3> QED  BY <1>3, <3>2 DEF Publishing
  <2>3. ASSUME NEW c \in Callers, NEW kind \in CallKinds, Register(kind, c) PROVE Publishing
    <3>1. kind # "publish"
      BY ClientAssumption
    <3>2. request[h].kind = "publish"
      BY <1>1, <1>3, <2>3, <3>1 DEF Register
    <3> QED  BY <3>2 DEF Publishing
  <2>4. CASE \E c \in Callers : InitialPublish(c) \/ InitialPublishThrows(c)
    BY <2>4 DEF InitialPublish, InitialPublishThrows, Publishing
  <2>5. CASE CallbackHandles \/ CallbackCannotAcknowledge
    BY <2>5 DEF CallbackHandles, CallbackCannotAcknowledge
  <2>6. \/ request' = request \/ \E g \in Handles : ServerCreates(g)
        \/ \E c \in Callers, kind \in CallKinds : Register(kind, c)
        \/ \E c \in Callers : InitialPublish(c) \/ InitialPublishThrows(c)
        \/ CallbackHandles \/ CallbackCannotAcknowledge
    BY DEF Next, vars, sendVars, Send, SendThrows, CallStep, WaitForData, TimesOut, ReadThrows,
     RemoveCallback, Returns, SpuriousWakeup, AbortSession, ReceiveStep, ReceiveIntermediate,
     ReceiveUnexpected, ReceiveResponse, ReceiveThrows, CallbackThreadStep, CallbackThreadChecks,
     CallbackThreadBlocks, CallbackThrows, CallbackUnknown, CallbackRefused, DestructorStep,
     DestructorStops, DestructorJoinsCallbackThread, DestructorJoinsReceiveThread, ServerStep,
     ServerAnswers, ServerRefuses, ServerPublishes, ServerRefusesPublish
  <2> QED  BY <2>1, <2>2, <2>3, <2>4, <2>5, <2>6
<1>4. ASSUME NEW c \in Callers, call'[c].pc = "publishing"
      PROVE  Publishing \/ \E d \in Callers : Returns(d)
  <2>1. CASE call'[c].pc = call[c].pc
    BY <1>4, <2>1 DEF Publishing
  <2>2. CASE \E d \in Callers : InitialPublish(d) \/ InitialPublishThrows(d)
    BY <2>2 DEF InitialPublish, InitialPublishThrows, Publishing
  <2>3. ASSUME NEW d \in Callers, NEW new, call' = [call EXCEPT ![d] = new],
               new.pc # "publishing"
        PROVE  call'[c].pc = call[c].pc
    BY <1>1, <1>4, <2>3
  <2>4. ASSUME NEW d \in Callers, NEW pc, call' = [call EXCEPT ![d].pc = pc], pc # "publishing"
        PROVE  call'[c].pc = call[c].pc
    BY <1>1, <1>4, <2>4 DEF Call
  <2>5. ASSUME NEW d \in Callers, NEW kind \in CallKinds, Send(d, kind)
        PROVE  call'[c].pc = call[c].pc
    <3>1. SentCall(RequestHandle + 1).pc # "publishing"
      BY DEF SentCall
    <3> QED  BY <2>3, <2>5, <3>1 DEF Send
  <2>6. ASSUME NEW d \in Callers,
               WaitForData(d) \/ SpuriousWakeup(d) \/ TimesOut(d) \/ ReadThrows(d)
        PROVE  call'[c].pc = call[c].pc
    BY <2>4, <2>6 DEF WaitForData, SpuriousWakeup, TimesOut, ReadThrows
  <2>7. ASSUME NEW d \in Callers, RemoveCallback(d)
        PROVE  call'[c].pc = call[c].pc
    <3>1. IdleCall.pc # "publishing"
      BY DEF IdleCall
    <3> QED  BY <2>3, <2>7, <3>1 DEF RemoveCallback
  <2>8. CASE ReceiveResponse
    <3>1. CASE call' = call
      BY <2>1, <3>1
    <3>2. ASSUME NEW h, NEW data, OnData(h, data) PROVE call'[c].pc = call[c].pc
      <4>1. call' = call \/ \E d : call' = [call EXCEPT ![d] = Delivered(call[d], data)]
        BY <3>2 DEF OnData
      <4> QED  BY <1>1, <1>4, <4>1 DEF Delivered
    <3> QED  BY <2>1, <2>8, <3>1, <3>2 DEF ReceiveResponse
  <2>9. ASSUME \/ UNCHANGED vars \/ AbortSession \/ ReceiveIntermediate \/ ReceiveUnexpected
               \/ ReceiveThrows \/ CallbackThreadStep \/ DestructorStep \/ ServerStep
               \/ \E d \in Callers, kind \in CallKinds : SendThrows(d, kind)
        PROVE  call' = call
    BY <2>9 DEF vars, AbortSession, ReceiveIntermediate, ReceiveUnexpected, ReceiveThrows,
     CallbackThreadStep, CallbackThreadChecks, CallbackThreadBlocks, CallbackHandles,
     CallbackCannotAcknowledge, CallbackThrows, CallbackUnknown, CallbackRefused, DestructorStep,
     DestructorStops, DestructorJoinsCallbackThread, DestructorJoinsReceiveThread, ServerStep,
     ServerCreates, ServerAnswers, ServerRefuses, ServerPublishes, ServerRefusesPublish, SendThrows
  <2> QED  BY <2>1, <2>2, <2>5, <2>6, <2>7, <2>8, <2>9 DEF Next, CallStep, ReceiveStep
<1> QED  BY <1>2, <1>3, <1>4 DEF Publishing
\* Whoever publishes has the callback of its subscription stored.
LEMMA NextStored ==
  ASSUME ClientInv, DataIsOwn, HeardInv, [Next]_vars, late' = {}, ~closed', Publishing'
  PROVE  CallbackStored'
<1>1. /\ TypeOK /\ Sent /\ NotifiedData /\ DataAnswered /\ PipeAnswered
      /\ Publishing => CallbackStored
  BY LateStays, ServerStays DEF ClientInv, HeardInv
<1>2. PublishCallbacks \subseteq PublishCallbacks'
  BY <1>1, PublishingSteps
<1>3. CallbackStored => CallbackStored'
  BY <1>1, <1>2, CreatesStay DEF CallbackStored
<1>4. CASE callbackThread = "calling"
  <2>1. current # <<>> /\ current \in Seq(Message)
    BY <1>1, <1>4 DEF TypeOK, ThreadTypes
  <2>2. 1 \in 1 .. Len(Pipe) /\ Pipe \in Seq(Message)
    BY <1>1, <2>1, PipeFacts
  <2>3. Pipe[1].handle \in Handles /\ request[Pipe[1].handle].kind = "publish"
    <3>1. Pipe[1] \in Message
      BY <2>2
    <3> QED  BY <1>1, <2>2, <3>1 DEF PipeAnswered, Message
  <2> QED  BY <1>1, <1>3, <2>3 DEF Publishing
<1>5. ASSUME NEW c \in Callers, Returns(c), request[call[c].handle].kind = "create"
      PROVE  CallbackStored'
  <2> DEFINE h == call[c].handle
             m == call[c].data[1]
  <2>1. call[c].data # <<>> /\ call[c].pc = "notified"
    BY <1>1, <1>5 DEF Returns, NotifiedData
  <2>2. m.handle = h /\ Answered(m)
    BY <1>1, <2>1, LateStays DEF DataIsOwn, DataAnswered
  <2>3. h \in Creates
    <3>1. call[c] \in Call /\ h # NoHandle
      BY <1>1, <2>1 DEF TypeOK, SendTypes, ClientInv, HandleInCall
    <3>2. h \in Handles
      BY <3>1 DEF Call
    <3> QED  BY <1>5, <3>2 DEF Creates
  <2>4. Settled(h) /\ m.sub = request[h].sub
    BY <1>5, <2>2 DEF Answered
  <2>5. m.sub \in PublishCallbacks'
    <3>1. PublishCallbacks' = PublishCallbacks \cup {x.sub : x \in {m}}
      BY <1>5, <2>1 DEF Returns, StoredCallbacks
    <3> QED  BY <3>1
  <2>6. h \in Creates' /\ request'[h] = request[h]
    BY <1>1, <2>3, <2>4, CreatesStay
  <2>7. PICK g \in Creates : g = h
    BY <2>3
  <2>8. g \in Creates' /\ Settled(g)' /\ request'[g].sub \in PublishCallbacks'
    BY <1>1, <2>4, <2>5, <2>6, <2>7, CreatesStay
  <2> QED  BY <2>8 DEF CallbackStored
<1>6. ASSUME NEW c \in Callers, Returns(c), request[call[c].handle].kind # "create"
      PROVE  Publishing
  <2>1. call' = [call EXCEPT ![c] = IdleCall] /\ request' = request
    BY <1>6 DEF Returns, sendVars
  <2>2. call \in [Callers -> Call] /\ IdleCall.pc # "publishing"
    BY <1>1 DEF TypeOK, SendTypes, IdleCall
  <2>3. \A d \in Callers : call'[d].pc = "publishing" => call[d].pc = "publishing"
    BY <2>1, <2>2
  <2> QED  BY <2>1, <2>3 DEF Publishing
<1> QED  BY <1>1, <1>3, <1>4, <1>5, <1>6, PublishingSteps

\* No notification of a sole subscription comes without its callback.
LEMMA NextUnknown ==
  ASSUME ClientInv, HeardInv, [Next]_vars, late' = {}, ~closed', Sole'
  PROVE  unknown' = <<>>
<1>1. TypeOK /\ Sent /\ SubOrigin /\ late = {} /\ ~closed
  BY LateStays, ServerStays DEF ClientInv, HeardInv
<1>2. Sole
  BY <1>1, CreatesStay DEF Sole
<1>3. unknown = <<>> /\ PipeAnswered /\ (Publishing => CallbackStored)
  BY <1>1, <1>2 DEF HeardInv
<1>4. ~CallbackUnknown
  <2> SUFFICES ASSUME CallbackUnknown PROVE FALSE
    OBVIOUS
  <2>1. current # <<>> /\ current \in Seq(Message) /\ current[1].good
        /\ current[1].sub \notin PublishCallbacks
    BY <1>1 DEF CallbackUnknown, TypeOK, ThreadTypes
  <2>2. 1 \in 1 .. Len(Pipe) /\ Pipe[1] = current[1] /\ current[1] \in Message
    BY <1>1, <2>1, PipeFacts
  <2>3. /\ request[current[1].handle].kind = "publish" /\ current[1].handle \in Handles
        /\ Answered(current[1])
    BY <1>3, <2>2 DEF PipeAnswered, Message
  <2>4. current[1].sub \in srvSubs
    BY <2>1, <2>3 DEF Answered
  <2>5. PICK g \in Creates : request[g].sub = current[1].sub
    BY <1>1, <2>4 DEF SubOrigin
  <2>6. PICK h \in Creates : request[h].sub \in PublishCallbacks
    BY <1>3, <2>3 DEF Publishing, CallbackStored
  <2> QED  BY <1>2, <2>1, <2>5, <2>6 DEF Sole
<1>5. unknown' = unknown \/ CallbackUnknown
  BY DEF Next, vars, Send, SendThrows, CallStep, WaitForData, TimesOut, ReadThrows, RemoveCallback,
     Returns, InitialPublish, InitialPublishThrows, SpuriousWakeup, AbortSession, ReceiveStep,
     ReceiveIntermediate, ReceiveUnexpected, ReceiveResponse, ReceiveThrows, CallbackThreadStep,
     CallbackThreadChecks, CallbackThreadBlocks, CallbackHandles, CallbackCannotAcknowledge,
     CallbackThrows, CallbackRefused, DestructorStep, DestructorStops,
     DestructorJoinsCallbackThread, DestructorJoinsReceiveThread, ServerStep, ServerCreates,
     ServerAnswers, ServerRefuses, ServerPublishes, ServerRefusesPublish
<1> QED  BY <1>3, <1>4, <1>5

LEMMA NextHeard ==
  ASSUME ClientInv, StreamInv, CallsAreCalls, DataIsOwn, OneInHand, HeardInv, ~SpuriousWakeups,
         [Next]_vars
  PROVE  HeardInv'
<1>1. TypeOK /\ Sent /\ SubOrigin /\ WireAnswered /\ NotifiedData
  BY DEF ClientInv, HeardInv
<1>2. Sent' /\ SubOrigin' /\ WireAnswered' /\ NotifiedData'
  BY <1>1, NextSent, NextSubOrigin, NextWireAnswered, NextNotifiedData
<1>3. ASSUME late' = {} PROVE DataAnswered' /\ PipeAnswered'
  <2>1. DataAnswered /\ PipeAnswered
    BY <1>3, LateStays DEF HeardInv
  <2> QED  BY <1>1, <1>3, <2>1, NextDataAnswered, NextPipeAnswered
<1>4. ASSUME late' = {}, ~closed', Publishing' PROVE CallbackStored'
  BY <1>4, NextStored
<1>5. ASSUME late' = {}, ~closed', Sole' PROVE unknown' = <<>>
  BY <1>5, NextUnknown
<1> QED  BY <1>2, <1>3, <1>4, <1>5 DEF HeardInv

LEMMA SoleCreate ==
  ASSUME Cardinality(Creates) <= 1
  PROVE  Sole
<1>1. Creates \subseteq Handles /\ IsFiniteSet(Handles)
  BY ClientAssumption, FS_Interval DEF Creates, Handles
<1>2. IsFiniteSet(Creates)
  BY <1>1, FS_Subset
<1>3. ASSUME NEW g \in Creates, NEW h \in Creates, g # h PROVE FALSE
  <2>1. IsFiniteSet({h}) /\ Cardinality({h}) = 1
    BY FS_Singleton
  <2>2. Cardinality({h} \cup {g}) = 2
    BY <1>3, <2>1, FS_AddElement
  <2>3. Cardinality({h} \cup {g}) <= Cardinality(Creates)
    BY <1>2, FS_Subset
  <2>4. Cardinality(Creates) \in Nat
    BY <1>2, FS_CardinalityType
  <2> QED  BY <2>2, <2>3, <2>4
<1> QED  BY <1>3 DEF Sole

\* Unless a condition variable wakes up by itself, the notifications of the only subscription
\* that a client has created find its callback as long as the session is open and no response
\* was late: it is stored before the first publish request (CreateSubscription, Publish).
THEOREM SoleSubscriptionIsHeard ==
  ASSUME ~SpuriousWakeups
  PROVE  Spec => []SoleSubscriptionHeard
<1>1. HeardInv => SoleSubscriptionHeard
  BY SoleCreate DEF HeardInv, SoleSubscriptionHeard, Creates
<1>2. OrderInv => OneInHand
  BY DEF OrderInv
<1>3. ClientInv /\ StreamInv /\ CallsAreCalls /\ DataIsOwn /\ OneInHand /\ HeardInv
        /\ [Next]_vars => HeardInv'
  BY NextHeard
<1>4. Spec => []DataIsOwn
  BY ClientInvariant, StreamInvariant, InitOwn, NextOwn, PTL DEF Spec
<1>5. Spec => []OrderInv
  BY InitOrder, NextOrder, ClientInvariant, StreamInvariant, CallsInvariant, PTL DEF Spec
<1> QED  BY <1>1, <1>2, <1>3, <1>4, <1>5, InitHeard, ClientInvariant, StreamInvariant,
           CallsInvariant, PTL DEF Spec
================================================================================
