---------------------------- MODULE HandlerProofs ----------------------------
(***************************************************************************)
(* Proofs about Handler, for any number of responses, chunks, waiters and   *)
(* any size of the pipe.                                                    *)
(***************************************************************************)
EXTENDS Handler, TLAPS

Places ==
    /\ pc \in {"queued", "curl", "poll_write", "set_result", "flush", "notify", "answer",
               "drop_sender", "drop_writer", "drop_trailer", "notify_dropped", "gone"}
    /\ after \in {"curl", "drop_sender"}
    /\ setting \in Result
    /\ result \in Result \cup {"none"}
    /\ verdict \in {"none", "ok", "curlError"}
    /\ part \in {"none", "headers", "body", "trailers"}

Dropped == pc \in {"drop_writer", "drop_trailer", "notify_dropped", "gone"}

(* Where the agent thread is, and what it has settled so far: the verdict   *)
(* is reached once, after the last callback, and the result follows it,     *)
(* unless a request body that failed came first; the sender goes when the   *)
(* future is answered.                                                      *)
Control ==
    /\ verdict = "none" => after = "curl"
    /\ verdict # "none" => after = "drop_sender" /\ pc \notin {"queued", "curl", "poll_write"}
    /\ pc \in {"set_result", "flush", "notify", "answer"} /\ verdict = "none" => failing
    /\ pc = "set_result" => setting = IF verdict = "none" THEN "bodyError" ELSE verdict
    /\ pc \in {"flush", "notify", "answer"} => result # "none"
    /\ result = "ok" => verdict = "ok"
    /\ sender /\ result # "none" => pc \in {"flush", "notify", "answer"}
    /\ Dropped => ~sender
    /\ ~writerOpen => pc \in {"drop_trailer", "notify_dropped", "gone"}

LEMMA PlacesStep == ASSUME Places, Next PROVE Places'
<1>. USE DEF Places, Result, handlerVars, curlVars
<1>1. CASE CallerStep \/ CancelFuture \/ DropBody
  BY <1>1 DEF CallerStep, ReceiveReply, ReadChunk, ReadEof, CheckResult, CancelFuture, DropBody
<1>2. CASE (\E w \in AnyWaiter : WaitForTrailer(w)) \/ Trailers
  BY <1>2 DEF WaitForTrailer, Trailers
<1>3. CASE Begin \/ (\E d \in {"read", "write"} : Unpause(d)) \/ AgentDropsHandler \/ Over
  BY <1>3 DEF Begin, Unpause, AgentDropsHandler, Over, vars
<1>4. CASE Callback
  BY <1>4 DEF Callback, HeaderCanceled, StatusLine, ReceiveHeader, ReceiveTrailer, Write,
              ReadCanceled, ReadBody, ReadPending, ReadFails, Seek
<1>5. CASE \E v \in {"ok", "curlError"} : TransferEnds(v)
  BY <1>5 DEF TransferEnds
<1>6. CASE HandlerStep
  BY <1>6 DEF HandlerStep, PollWrite, SetResult, FlushTrailer, NotifyTrailer, Answer,
              DropSender, DropWriter, DropTrailer, NotifyDropped
<1>. QED  BY <1>1, <1>2, <1>3, <1>4, <1>5, <1>6 DEF Next

LEMMA ControlStep == ASSUME Places, Control, Next PROVE Control'
<1>. USE DEF Places, Control, Dropped, Result, handlerVars, curlVars, callerVars, pipeVars
<1>1. CASE CallerStep \/ CancelFuture \/ DropBody
  BY <1>1 DEF CallerStep, ReceiveReply, ReadChunk, ReadEof, CheckResult, CancelFuture, DropBody
<1>2. CASE (\E w \in AnyWaiter : WaitForTrailer(w)) \/ Trailers
  BY <1>2 DEF WaitForTrailer, Trailers
<1>3. CASE Begin \/ (\E d \in {"read", "write"} : Unpause(d)) \/ AgentDropsHandler \/ Over
  BY <1>3 DEF Begin, Unpause, AgentDropsHandler, Over, vars
<1>4. CASE HeaderCanceled \/ StatusLine \/ ReceiveHeader \/ ReceiveTrailer
  BY <1>4 DEF HeaderCanceled, StatusLine, ReceiveHeader, ReceiveTrailer, Abort, InCallback
<1>5. CASE Write
  BY <1>5 DEF Write, CompleteResponseFuture, InCallback
<1>6. CASE ReadCanceled \/ ReadBody \/ ReadPending \/ ReadFails \/ Seek
  BY <1>6 DEF ReadCanceled, ReadBody, ReadPending, ReadFails, Seek, Abort, InCallback, Reads
<1>7. CASE \E v \in {"ok", "curlError"} : TransferEnds(v)
  BY <1>7 DEF TransferEnds
<1>8. CASE PollWrite
  BY <1>8 DEF PollWrite, Abort
<1>9. CASE SetResult
  BY <1>9 DEF SetResult
<1>10. CASE FlushTrailer \/ NotifyTrailer
  BY <1>10 DEF FlushTrailer, NotifyTrailer
<1>11. CASE Answer
  BY <1>11 DEF Answer, CompleteResponseFuture
<1>12. CASE DropSender \/ DropWriter \/ DropTrailer \/ NotifyDropped
  BY <1>12 DEF DropSender, DropWriter, DropTrailer, NotifyDropped
<1>. QED  BY <1>1, <1>2, <1>3, <1>4, <1>5, <1>6, <1>7, <1>8, <1>9, <1>10, <1>11, <1>12
          DEF Next, Callback, HandlerStep

----------------------------------------------------------------------------
(* An error that was answered is the result, or no result is set any more.  *)
Answered ==
    /\ sender => reply = NoReply
    /\ reply.kind = "error" =>
           \/ result # "none" /\ reply.cause = result
           \/ result = "none" /\ reply.cause = "dropped" /\ Dropped

LEMMA CompleteAnswers == ASSUME Places, Answered, CompleteResponseFuture, sender => result # "none" \/ ~Dropped
                         PROVE  /\ ~sender'
                                /\ ~sender => UNCHANGED reply
                                /\ sender => \/ reply'.kind = "response"
                                             \/ reply'.kind = "error" /\ reply'.cause = result /\ result # "none"
  BY DEF CompleteResponseFuture, Places, Answered, NoReply

LEMMA AnsweredStep == ASSUME Places, Control, Answered, Next PROVE Answered'
<1>. USE DEF Places, Control, Answered, NoReply, Dropped, handlerVars, curlVars, callerVars, pipeVars
<1>1. CASE CallerStep \/ CancelFuture \/ DropBody
  BY <1>1 DEF CallerStep, ReceiveReply, ReadChunk, ReadEof, CheckResult, CancelFuture, DropBody
<1>2. CASE (\E w \in AnyWaiter : WaitForTrailer(w)) \/ Trailers
  BY <1>2 DEF WaitForTrailer, Trailers
<1>3. CASE Begin \/ (\E d \in {"read", "write"} : Unpause(d)) \/ AgentDropsHandler \/ Over
  BY <1>3 DEF Begin, Unpause, AgentDropsHandler, Over, vars
<1>4. CASE HeaderCanceled \/ StatusLine \/ ReceiveHeader \/ ReceiveTrailer
  BY <1>4 DEF HeaderCanceled, StatusLine, ReceiveHeader, ReceiveTrailer, InCallback
<1>5. CASE Write
  BY <1>5, CompleteAnswers DEF Write, InCallback
<1>6. CASE ReadCanceled \/ ReadBody \/ ReadPending \/ ReadFails \/ Seek
  BY <1>6 DEF ReadCanceled, ReadBody, ReadPending, ReadFails, Seek, InCallback, Reads
<1>7. CASE \E v \in {"ok", "curlError"} : TransferEnds(v)
  BY <1>7 DEF TransferEnds
<1>8. CASE PollWrite \/ FlushTrailer \/ NotifyTrailer
  BY <1>8 DEF PollWrite, FlushTrailer, NotifyTrailer
<1>9. CASE SetResult
  BY <1>9 DEF SetResult
<1>10. CASE Answer
  BY <1>10, CompleteAnswers DEF Answer
<1>11. CASE DropSender
  BY <1>11 DEF DropSender
<1>12. CASE DropWriter \/ DropTrailer \/ NotifyDropped
  BY <1>12 DEF DropWriter, DropTrailer, NotifyDropped
<1>. QED  BY <1>1, <1>2, <1>3, <1>4, <1>5, <1>6, <1>7, <1>8, <1>9, <1>10, <1>11, <1>12
          DEF Next, Callback, HandlerStep

----------------------------------------------------------------------------
(* Header lines and trailer fields, by the part of the exchange that is     *)
(* received: only the headers of the response begun last are kept, and a    *)
(* trailer field goes where the future's sender is, or to the trailer.      *)
Counters == resp \in Nat /\ status \in Nat /\ offered \in Nat /\ delivered \in Nat

TrailerIs(lines) == lines = IF part = "trailers" /\ offered > 0 THEN {TrailerLine} ELSE {}

Where ==
    /\ status = resp
    /\ part = "none" <=> resp = 0
    /\ part \in {"none", "headers"} => offered = 0
    /\ part \in {"none", "headers"} /\ pc \in {"queued", "curl"} /\ ~failing => sender
    /\ part = "body" => offered > 0 /\ ~sender
    /\ pc = "poll_write" => part = "body"
    /\ part \in {"body", "trailers"} \/ verdict = "ok" => resp = Responses

HeaderSet ==
    /\ resp = 0 => headers = {}
    /\ headers \subseteq {resp, TrailerLine}
    /\ TrailerLine \in headers => part = "trailers" /\ offered = 0

Trail ==
    /\ pc \in {"queued", "curl", "poll_write"} /\ ~failing => ownHeaders # Unset
    /\ ownHeaders = Unset <=> trailer # Unset
    /\ ownHeaders # Unset => TrailerIs(ownHeaders)
    /\ trailer # Unset => TrailerIs(trailer)
    /\ verdict # "none" /\ pc \notin {"set_result", "flush"} => trailer # Unset

Told ==
    reply.kind = "response" =>
        /\ reply.status = Responses /\ resp = Responses
        /\ reply.headers \subseteq {Responses, TrailerLine}
        /\ TrailerLine \in reply.headers => part = "trailers" /\ offered = 0

(* A trailer field that came before the future was answered goes along with *)
(* the answer.                                                              *)
Kept ==
    part = "trailers" /\ offered = 0 =>
        /\ sender => TrailerLine \in headers
        /\ reply.kind = "response" => TrailerLine \in reply.headers

Lines == Where /\ HeaderSet /\ Trail /\ Told

LEMMA SetsAreNotUnset == ASSUME NEW r \in 0..Responses, NEW s \in SUBSET {r, TrailerLine}
                         PROVE  s # Unset
<1>1. {r, TrailerLine} \subseteq 0..Responses
  BY BoundsAssumption DEF TrailerLine
<1>. QED  BY <1>1, BoundsAssumption

LEMMA LinesStay ==
    ASSUME Counters, resp <= Responses, Lines,
           UNCHANGED <<sender, status, headers, reply, resp, part, offered, delivered, verdict, ownHeaders, trailer>>,
           pc' \in {"queued", "curl", "poll_write"} /\ ~failing' =>
               (pc \in {"queued", "curl"} /\ ~failing) \/ (pc = pc' /\ failing = failing'),
           pc' = "poll_write" => pc = "poll_write",
           verdict # "none" /\ pc' \notin {"set_result", "flush"} => pc \notin {"set_result", "flush"}
    PROVE  Lines' /\ Counters' /\ resp' <= Responses
<1>1. Counters' /\ resp' <= Responses
  BY DEF Counters
<1>2. Where'
  BY DEF Where, Lines
<1>3. HeaderSet'
  BY DEF HeaderSet, Lines
<1>4. Trail'
  BY DEF Trail, TrailerIs, Lines
<1>5. Told'
  BY DEF Told, Lines
<1>. QED  BY <1>1, <1>2, <1>3, <1>4, <1>5 DEF Lines

LEMMA LinesStep == ASSUME Places, Control, Answered, Counters, resp <= Responses, Lines, Next
                   PROVE  Lines' /\ Counters' /\ resp' <= Responses
<1>1. CASE CallerStep \/ CancelFuture \/ DropBody
  BY <1>1, LinesStay DEF CallerStep, ReceiveReply, ReadChunk, ReadEof, CheckResult, CancelFuture, DropBody,
                         handlerVars, curlVars, trailerVars
<1>2. CASE (\E w \in AnyWaiter : WaitForTrailer(w)) \/ Trailers
  BY <1>2, LinesStay DEF WaitForTrailer, Trailers, CallWait, WaiterStep, Look, Listen, DoubleCheck, WakeUp,
                         WaitTimesOut, handlerVars, callerVars, curlVars
<1>3. CASE Begin \/ (\E d \in {"read", "write"} : Unpause(d)) \/ AgentDropsHandler \/ Over
  BY <1>3, LinesStay DEF Begin, Unpause, AgentDropsHandler, Over, vars, handlerVars, callerVars, curlVars, trailerVars,
                         Places, Control
<1>. USE BoundsAssumption DEF Places, Control, Answered, Dropped, Counters, Lines, Where, HeaderSet, Trail, Told,
         TrailerIs, TrailerLine, handlerVars, curlVars, callerVars, pipeVars, trailerVars, waiterVars
<1>4. CASE HeaderCanceled
  BY <1>4 DEF HeaderCanceled, InCallback, Abort
<1>5. CASE StatusLine
  BY <1>5 DEF StatusLine, InCallback
<1>6. CASE ReceiveHeader
  <2>1. /\ sender /\ part = "headers" /\ resp \in 0..Responses /\ resp # 0
        /\ UNCHANGED <<pc, sender, status, reply, resp, part, offered, delivered, verdict, failing, ownHeaders, trailer>>
        /\ headers' = headers \cup {resp}
    BY <1>6 DEF ReceiveHeader, HeaderLine, InCallback
  <2>2. HeaderSet'
    BY <2>1 DEF HeaderSet
  <2>3. Where' /\ Counters' /\ resp' <= Responses
    BY <2>1 DEF Where, Counters
  <2>4. Trail' /\ Told'
    BY <2>1 DEF Trail, Told
  <2>. HIDE DEF Counters, Where, HeaderSet, Trail, Told
  <2>. QED  BY <2>2, <2>3, <2>4
<1>7. CASE ReceiveTrailer
  <2>1. Counters' /\ resp' <= Responses /\ Where'
    BY <1>7, SetsAreNotUnset DEF ReceiveTrailer, HeaderLine, InCallback
  <2>2. HeaderSet'
    BY <1>7, SetsAreNotUnset DEF ReceiveTrailer, HeaderLine, InCallback
  <2>3. Trail'
    BY <1>7, SetsAreNotUnset DEF ReceiveTrailer, HeaderLine, InCallback
  <2>4. Told'
    BY <1>7, SetsAreNotUnset DEF ReceiveTrailer, HeaderLine, InCallback
  <2>. HIDE DEF Counters, Where, HeaderSet, Trail, Told
  <2>. QED  BY <2>1, <2>2, <2>3, <2>4
<1>8. CASE Write
  <2>1. Counters' /\ resp' <= Responses /\ Where'
    BY <1>8 DEF Write, CompleteResponseFuture, InCallback
  <2>2. HeaderSet'
    BY <1>8 DEF Write, CompleteResponseFuture, InCallback
  <2>3. Trail'
    BY <1>8 DEF Write, CompleteResponseFuture, InCallback
  <2>4. Told'
    <3>1. CASE ~sender
      BY <1>8, <3>1 DEF Write, CompleteResponseFuture, InCallback
    <3>2. CASE sender
      <4>1. reply'.kind = "response" => reply'.status = status /\ reply'.headers = headers
        BY <1>8, <3>2 DEF Write, CompleteResponseFuture
      <4>2. resp = Responses /\ resp' = resp /\ TrailerLine \notin headers
        BY <1>8 DEF Write
      <4>. QED  BY <4>1, <4>2 DEF Where, HeaderSet
    <3>. QED  BY <3>1, <3>2
  <2>. HIDE DEF Counters, Where, HeaderSet, Trail, Told
  <2>. QED  BY <2>1, <2>2, <2>3, <2>4
<1>9. CASE ReadCanceled \/ ReadBody \/ ReadPending \/ ReadFails \/ Seek
  BY <1>9 DEF ReadCanceled, ReadBody, ReadPending, ReadFails, Seek, InCallback, Reads, Abort
<1>10. CASE \E v \in {"ok", "curlError"} : TransferEnds(v)
  BY <1>10 DEF TransferEnds, TransferSucceeds
<1>11. CASE PollWrite
  <2>1. Counters' /\ resp' <= Responses /\ Where'
    <3>1. delivered' \in Nat
      BY <1>11 DEF PollWrite, Counters
    <3>2. UNCHANGED <<resp, status, part, offered, sender, verdict>> /\ pc = "poll_write" /\ pc' = "curl"
      BY <1>11 DEF PollWrite
    <3>3. part \notin {"none", "headers"}
      BY <3>2 DEF Where
    <3>. QED  BY <3>1, <3>2, <3>3
  <2>2. HeaderSet'
    BY <1>11 DEF PollWrite, Abort
  <2>3. Trail'
    BY <1>11 DEF PollWrite, Abort
  <2>4. Told'
    BY <1>11 DEF PollWrite, Abort
  <2>. HIDE DEF Counters, Where, HeaderSet, Trail, Told
  <2>. QED  BY <2>1, <2>2, <2>3, <2>4
<1>12. CASE SetResult
  BY <1>12 DEF SetResult
<1>13. CASE FlushTrailer
  BY <1>13 DEF FlushTrailer, FlushPublish
<1>14. CASE NotifyTrailer
  BY <1>14 DEF NotifyTrailer, FlushNotify
<1>15. CASE Answer
  <2>1. Counters' /\ resp' <= Responses /\ Where'
    BY <1>15 DEF Answer, CompleteResponseFuture
  <2>2. HeaderSet'
    BY <1>15 DEF Answer, CompleteResponseFuture
  <2>3. Trail'
    BY <1>15 DEF Answer, CompleteResponseFuture
  <2>4. Told'
    <3>1. CASE ~sender
      BY <1>15, <3>1 DEF Answer, CompleteResponseFuture
    <3>2. CASE sender
      <4>1. reply'.kind = "response" => reply'.status = status /\ reply'.headers = headers /\ result = "ok"
        <5>1. CASE result \in {"bodyError", "curlError"}
          BY <1>15, <3>2, <5>1 DEF Answer, CompleteResponseFuture
        <5>2. CASE result = "ok"
          BY <1>15, <3>2, <5>2 DEF Answer, CompleteResponseFuture
        <5>3. result # "none"
          BY <1>15 DEF Answer, Control
        <5>. QED  BY <5>1, <5>2, <5>3 DEF Places, Result
      <4>3. UNCHANGED <<resp, part, offered>>
        BY <1>15 DEF Answer
      <4>2. result = "ok" => resp = Responses
        BY DEF Control, Where
      <4>. QED  BY <4>1, <4>2, <4>3 DEF Where, HeaderSet
    <3>. QED  BY <3>1, <3>2
  <2>. HIDE DEF Counters, Where, HeaderSet, Trail, Told
  <2>. QED  BY <2>1, <2>2, <2>3, <2>4
<1>16. CASE DropSender \/ DropWriter
  <2>1. Counters' /\ resp' <= Responses /\ Where'
    BY <1>16 DEF DropSender, DropWriter
  <2>2. HeaderSet'
    BY <1>16 DEF DropSender, DropWriter
  <2>3. Trail'
    BY <1>16 DEF DropSender, DropWriter
  <2>4. Told'
    BY <1>16 DEF DropSender, DropWriter
  <2>. HIDE DEF Counters, Where, HeaderSet, Trail, Told
  <2>. QED  BY <2>1, <2>2, <2>3, <2>4
<1>17. CASE DropTrailer
  BY <1>17 DEF DropTrailer, FlushPublish
<1>18. CASE NotifyDropped
  BY <1>18 DEF NotifyDropped, FlushNotify
<1>. QED  BY <1>1, <1>2, <1>3, <1>4, <1>5, <1>6, <1>7, <1>8, <1>9, <1>10, <1>11, <1>12, <1>13, <1>14,
             <1>15, <1>16, <1>17, <1>18
          DEF Next, Callback, HandlerStep

LEMMA KeptStep == ASSUME Places, Control, Answered, Counters, Lines, Kept, Next PROVE Kept'
<1>1. ASSUME part' = part, offered' = offered, sender' => sender, headers' = headers, reply' = reply
      PROVE  Kept'
  BY <1>1 DEF Kept
<1>. USE DEF handlerVars, curlVars, callerVars, pipeVars
<1>2. CASE CallerStep \/ CancelFuture \/ DropBody
  BY <1>1, <1>2 DEF CallerStep, ReceiveReply, ReadChunk, ReadEof, CheckResult, CancelFuture, DropBody
<1>3. CASE (\E w \in AnyWaiter : WaitForTrailer(w)) \/ Trailers
  BY <1>1, <1>3 DEF WaitForTrailer, Trailers
<1>4. CASE Begin \/ (\E d \in {"read", "write"} : Unpause(d)) \/ AgentDropsHandler \/ Over
  BY <1>1, <1>4 DEF Begin, Unpause, AgentDropsHandler, Over, vars
<1>5. CASE HeaderCanceled \/ ReadCanceled \/ ReadBody \/ ReadPending \/ ReadFails \/ Seek
  BY <1>1, <1>5 DEF HeaderCanceled, ReadCanceled, ReadBody, ReadPending, ReadFails, Seek
<1>6. CASE StatusLine
  BY <1>6 DEF StatusLine, Kept
<1>7. CASE ReceiveHeader
  <2>1. part' = "headers"
    BY <1>7 DEF ReceiveHeader
  <2>. QED  BY <2>1 DEF Kept
<1>8. CASE ReceiveTrailer
  <2>1. UNCHANGED <<reply, sender, offered>> /\ part \in {"headers", "body"} /\ pc = "curl" /\ ~failing
    BY <1>8 DEF ReceiveTrailer, InCallback
  <2>2. offered = 0 => sender
    BY <2>1 DEF Lines, Where, Counters
  <2>3. sender => TrailerLine \in headers'
    BY <1>8 DEF ReceiveTrailer, HeaderLine
  <2>4. sender => reply.kind = "none"
    BY DEF Answered, NoReply
  <2>. QED  BY <2>1, <2>2, <2>3, <2>4 DEF Kept
<1>9. CASE Write
  BY <1>9 DEF Write, Kept
<1>10. CASE (\E v \in {"ok", "curlError"} : TransferEnds(v)) \/ PollWrite \/ SetResult \/ FlushTrailer \/ NotifyTrailer
  BY <1>1, <1>10 DEF TransferEnds, PollWrite, SetResult, FlushTrailer, NotifyTrailer
<1>11. CASE Answer
  BY <1>11 DEF Answer, CompleteResponseFuture, Kept
<1>12. CASE DropSender
  BY <1>12 DEF DropSender, Kept
<1>13. CASE DropWriter \/ DropTrailer \/ NotifyDropped
  BY <1>1, <1>13 DEF DropWriter, DropTrailer, NotifyDropped
<1>. QED  BY <1>2, <1>3, <1>4, <1>5, <1>6, <1>7, <1>8, <1>9, <1>10, <1>11, <1>12, <1>13
          DEF Next, Callback, HandlerStep

----------------------------------------------------------------------------
(* The body, chunk by chunk: what the caller has read, then what is in the  *)
(* pipe, is what the handler accepted, in order; and a caller that sees the *)
(* end of the pipe sees a pipe nobody writes to any more.                   *)
Flow ==
    /\ got \in Seq(Nat) /\ pipe \in Seq(Nat)
    /\ Len(got) + Len(pipe) = delivered
    /\ \A i \in 1..Len(got) : got[i] = i
    /\ \A i \in 1..Len(pipe) : pipe[i] = Len(got) + i

Reading ==
    /\ caller \in {"atEof", "clean"} => pipe = <<>> /\ ~writerOpen
    /\ caller = "clean" => result = "ok"
    /\ caller \in {"reading", "atEof", "clean"} => reply.kind = "response"
    /\ verdict = "ok" => delivered = offered

LEMMA FlowStep == ASSUME Counters, Flow, Next PROVE Flow'
<1>. USE DEF Counters, Flow, handlerVars, curlVars, callerVars, pipeVars
<1>1. CASE ReadChunk
  <2>1. got' = Append(got, Head(pipe)) /\ pipe' = Tail(pipe) /\ delivered' = delivered /\ pipe # <<>>
    BY <1>1 DEF ReadChunk
  <2>2. Len(pipe) > 0 /\ Head(pipe) = Len(got) + 1 /\ Head(pipe) \in Nat
    BY <2>1
  <2>3. got' \in Seq(Nat) /\ Len(got') = Len(got) + 1 /\ \A i \in 1..Len(got') : got'[i] = i
    BY <2>1, <2>2
  <2>4. pipe' \in Seq(Nat) /\ Len(pipe') = Len(pipe) - 1 /\ \A i \in 1..Len(pipe') : pipe'[i] = pipe[i + 1]
    BY <2>1, <2>2
  <2>5. \A i \in 1..Len(pipe') : pipe'[i] = Len(got') + i
    <3>. TAKE i \in 1..Len(pipe')
    <3>1. i \in Nat /\ i + 1 \in 1..Len(pipe) /\ Len(got) \in Nat
      BY <2>4
    <3>2. pipe[i + 1] = Len(got) + (i + 1)
      BY <3>1
    <3>3. pipe'[i] = pipe[i + 1] /\ Len(got') = Len(got) + 1
      BY <2>3, <2>4
    <3>. HIDE DEF Flow
    <3>. QED  BY <3>1, <3>2, <3>3
  <2>6. Len(got') + Len(pipe') = delivered'
    <3>1. Len(got) \in Nat /\ Len(pipe) \in Nat /\ Len(got) + Len(pipe) = delivered
      OBVIOUS
    <3>2. Len(got') = Len(got) + 1 /\ Len(pipe') = Len(pipe) - 1 /\ delivered' = delivered
      BY <2>1, <2>3, <2>4
    <3>. HIDE DEF Flow, Counters
    <3>. QED  BY <3>1, <3>2
  <2>. HIDE DEF Counters
  <2>. QED  BY <2>3, <2>4, <2>5, <2>6
<1>2. CASE PollWrite
  <2>1. got' = got
    BY <1>2 DEF PollWrite
  <2>2. CASE pipe' = Append(pipe, delivered + 1) /\ delivered' = delivered + 1
    <3>1. pipe' \in Seq(Nat) /\ Len(pipe') = Len(pipe) + 1
      BY <2>2
    <3>2. \A i \in 1..Len(pipe') : pipe'[i] = Len(got) + i
      BY <2>2
    <3>. QED  BY <2>1, <2>2, <3>1, <3>2
  <2>3. CASE UNCHANGED <<pipe, delivered>>
    BY <2>1, <2>3
  <2>. QED  BY <1>2, <2>2, <2>3 DEF PollWrite
<1>3. ASSUME UNCHANGED <<got, pipe, delivered>> PROVE Flow'
  BY <1>3
<1>4. CASE ReceiveReply \/ ReadEof \/ CheckResult \/ CancelFuture \/ DropBody
  BY <1>3, <1>4 DEF ReceiveReply, ReadEof, CheckResult, CancelFuture, DropBody
<1>5. CASE (\E w \in AnyWaiter : WaitForTrailer(w)) \/ Trailers
  BY <1>3, <1>5 DEF WaitForTrailer, Trailers
<1>6. CASE Begin \/ (\E d \in {"read", "write"} : Unpause(d)) \/ AgentDropsHandler \/ Over
  BY <1>3, <1>6 DEF Begin, Unpause, AgentDropsHandler, Over, vars
<1>7. CASE Callback
  BY <1>3, <1>7 DEF Callback, HeaderCanceled, StatusLine, ReceiveHeader, ReceiveTrailer, Write,
                    ReadCanceled, ReadBody, ReadPending, ReadFails, Seek
<1>8. CASE (\E v \in {"ok", "curlError"} : TransferEnds(v)) \/ SetResult \/ FlushTrailer \/ NotifyTrailer \/ Answer
  BY <1>3, <1>8 DEF TransferEnds, SetResult, FlushTrailer, NotifyTrailer, Answer
<1>9. CASE DropSender \/ DropWriter \/ DropTrailer \/ NotifyDropped
  BY <1>3, <1>9 DEF DropSender, DropWriter, DropTrailer, NotifyDropped
<1>. QED  BY <1>1, <1>2, <1>4, <1>5, <1>6, <1>7, <1>8, <1>9 DEF Next, CallerStep, HandlerStep

LEMMA ReadingStep == ASSUME Places, Control, Answered, Reading, Next PROVE Reading'
<1>0. sender => reply.kind = "none"
  BY DEF Answered, NoReply
<1>. USE DEF Places, Control, Reading, handlerVars, curlVars, callerVars, pipeVars
<1>1. CASE ReceiveReply \/ ReadChunk \/ ReadEof \/ CancelFuture \/ DropBody
  BY <1>1 DEF ReceiveReply, ReadChunk, ReadEof, CancelFuture, DropBody
<1>2. CASE CheckResult
  BY <1>2 DEF CheckResult
<1>3. CASE (\E w \in AnyWaiter : WaitForTrailer(w)) \/ Trailers
  BY <1>3 DEF WaitForTrailer, Trailers
<1>4. CASE Begin \/ (\E d \in {"read", "write"} : Unpause(d)) \/ AgentDropsHandler \/ Over
  BY <1>4 DEF Begin, Unpause, AgentDropsHandler, Over, vars
<1>5. CASE Callback
  <2>1. CASE Write
    BY <1>0, <2>1 DEF Write, CompleteResponseFuture, InCallback
  <2>2. CASE ~Write
    BY <1>5, <2>2 DEF Callback, HeaderCanceled, StatusLine, ReceiveHeader, ReceiveTrailer,
                ReadCanceled, ReadBody, ReadPending, ReadFails, Seek, InCallback, Reads
  <2>. QED  BY <2>1, <2>2
<1>6. CASE \E v \in {"ok", "curlError"} : TransferEnds(v)
  BY <1>6 DEF TransferEnds, TransferSucceeds
<1>7. CASE PollWrite
  BY <1>7 DEF PollWrite
<1>8. CASE SetResult \/ FlushTrailer \/ NotifyTrailer \/ Answer
  BY <1>0, <1>8 DEF SetResult, FlushTrailer, NotifyTrailer, Answer, CompleteResponseFuture
<1>9. CASE DropSender \/ DropWriter \/ DropTrailer \/ NotifyDropped
  BY <1>0, <1>9 DEF DropSender, DropWriter, DropTrailer, NotifyDropped
<1>. QED  BY <1>1, <1>2, <1>3, <1>4, <1>5, <1>6, <1>7, <1>8, <1>9 DEF Next, CallerStep, HandlerStep

----------------------------------------------------------------------------
IInv == Places /\ Control /\ Answered /\ Counters /\ resp <= Responses /\ Lines /\ Kept /\ Flow /\ Reading

LEMMA IInvInit == Init => IInv
<1>. SUFFICES ASSUME Init PROVE IInv
  OBVIOUS
<1>. USE BoundsAssumption DEF Init, TrailerInit, NoReply
<1>1. Places /\ Control /\ Answered
  BY DEF Places, Result, Control, Answered, Dropped
<1>2. Counters /\ resp <= Responses /\ Flow /\ Reading
  BY DEF Counters, Flow, Reading
<1>3. {} # Unset
  BY SetsAreNotUnset
<1>4. Lines /\ Kept
  BY <1>3 DEF Lines, Where, HeaderSet, Trail, Told, TrailerIs, Kept
<1>. QED  BY <1>1, <1>2, <1>4 DEF IInv

LEMMA IInvStep == ASSUME IInv, [Next]_vars PROVE IInv'
<1>1. CASE Next
  BY <1>1, PlacesStep, ControlStep, AnsweredStep, LinesStep, KeptStep, FlowStep, ReadingStep DEF IInv
<1>2. CASE UNCHANGED vars
  <2>. USE <1>2 DEF vars, handlerVars, callerVars, pipeVars, curlVars, trailerVars
  <2>1. Places' /\ Control' /\ Answered' /\ Counters' /\ resp' <= Responses
    BY DEF IInv, Places, Control, Answered, Dropped, Counters
  <2>2. Lines' /\ Kept'
    BY DEF IInv, Lines, Where, HeaderSet, Trail, Told, TrailerIs, Kept
  <2>3. Flow' /\ Reading'
    BY DEF IInv, Flow, Reading
  <2>. QED  BY <2>1, <2>2, <2>3 DEF IInv
<1>. QED  BY <1>1, <1>2

THEOREM Invariant == Spec => []IInv
  BY IInvInit, IInvStep, PTL DEF Spec

(* A response is the final one, with no header line of an earlier one, and  *)
(* with a trailer field only when there was no body.                        *)
THEOREM FinalHeaders == Spec => []HeadersOfFinalResponse
<1>1. IInv => HeadersOfFinalResponse
  BY DEF IInv, Lines, Told, HeadersOfFinalResponse
<1>. QED  BY <1>1, Invariant, PTL

(* A caller that reads to a clean end of file has every chunk the server    *)
(* sent, in order, of a transfer that curl finished.                        *)
THEOREM NeverTruncated == Spec => []NoSilentTruncation
<1>1. ASSUME IInv, caller = "clean" PROVE verdict = "ok" /\ got = [i \in 1..offered |-> i]
  <2>1. result = "ok" /\ pipe = <<>>
    BY <1>1 DEF IInv, Reading
  <2>2. verdict = "ok" /\ delivered = offered
    BY <1>1, <2>1 DEF IInv, Control, Reading
  <2>3. got \in Seq(Nat) /\ Len(got) = offered /\ \A i \in 1..Len(got) : got[i] = i
    BY <1>1, <2>1, <2>2 DEF IInv, Flow, Counters
  <2>. QED  BY <2>2, <2>3
<1>2. IInv => NoSilentTruncation
  BY <1>1 DEF NoSilentTruncation
<1>. QED  BY <1>2, Invariant, PTL

(* At a clean end of file the trailer is published, complete if there was a *)
(* body, and a trailer field that followed an empty body is among the       *)
(* headers of the response.                                                 *)
THEOREM TrailerIsReady == Spec => []TrailerReadyAtEof
<1>1. ASSUME IInv, caller = "clean"
      PROVE  trailer # Unset /\ TrailerIs(trailer) /\ reply.kind = "response"
  <2>1. verdict = "ok" /\ ~writerOpen /\ result = "ok"
    BY <1>1 DEF IInv, Reading, Control
  <2>2. trailer # Unset
    BY <1>1, <2>1 DEF IInv, Control, Lines, Trail
  <2>3. reply.kind = "response"
    BY <1>1 DEF IInv, Reading
  <2>. QED  BY <1>1, <2>2, <2>3 DEF IInv, Lines, Trail
<1>2. IInv => TrailerReadyAtEof
  BY <1>1 DEF TrailerReadyAtEof, TrailerIs, IInv, Kept
<1>. QED  BY <1>2, Invariant, PTL

(* The error of the future is the first one, and the shared result agrees.  *)
THEOREM FirstErrorWins == Spec => []ErrorIsTheFirst
<1>1. IInv => ErrorIsTheFirst
  BY DEF IInv, Answered, ErrorIsTheFirst
<1>. QED  BY <1>1, Invariant, PTL

(* The future is answered once, and the first result stays.                 *)
THEOREM Settled == Spec => SettledOnce
<1>1. ASSUME IInv, Next PROVE /\ reply # NoReply => reply' = reply
                              /\ result # "none" => result' = result
  <2>. USE DEF handlerVars, callerVars, curlVars
  <2>0. reply # NoReply => ~sender
    BY <1>1 DEF IInv, Answered
  <2>1. CASE CallerStep \/ CancelFuture \/ DropBody
    BY <2>1 DEF CallerStep, ReceiveReply, ReadChunk, ReadEof, CheckResult, CancelFuture, DropBody
  <2>2. CASE (\E w \in AnyWaiter : WaitForTrailer(w)) \/ Trailers
    BY <2>2 DEF WaitForTrailer, Trailers
  <2>3. CASE Begin \/ (\E d \in {"read", "write"} : Unpause(d)) \/ AgentDropsHandler \/ Over
    BY <2>3 DEF Begin, Unpause, AgentDropsHandler, Over, vars
  <2>4. CASE Callback
    BY <2>0, <2>4 DEF Callback, HeaderCanceled, StatusLine, ReceiveHeader, ReceiveTrailer, Write,
                CompleteResponseFuture, ReadCanceled, ReadBody, ReadPending, ReadFails, Seek
  <2>5. CASE \E v \in {"ok", "curlError"} : TransferEnds(v)
    BY <2>5 DEF TransferEnds
  <2>6. CASE HandlerStep
    BY <2>0, <2>6 DEF HandlerStep, PollWrite, SetResult, FlushTrailer, NotifyTrailer, Answer,
                CompleteResponseFuture, DropSender, DropWriter, DropTrailer, NotifyDropped
  <2>. QED  BY <1>1, <2>1, <2>2, <2>3, <2>4, <2>5, <2>6 DEF Next
<1>2. IInv /\ [Next]_vars => [/\ reply # NoReply => reply' = reply
                              /\ result # "none" => result' = result]_vars
  BY <1>1
<1>. QED  BY <1>2, Invariant, PTL DEF Spec, SettledOnce

----------------------------------------------------------------------------
(* Types, which need to know that the chunks of the request body curl has   *)
(* read and those left are no more than there were.                         *)
CallerTypes ==
    /\ caller \in {"waiting", "cancelled", "failed", "reading", "atEof", "clean", "broken", "dropped"}
    /\ got \in Seq(1..BodyChunks)
    /\ pipe \in Seq(1..BodyChunks) /\ Len(pipe) <= PipeSize
    /\ pc = "poll_write" => delivered < BodyChunks
    /\ offered \in 0..BodyChunks /\ delivered \in 0..BodyChunks
    /\ resp \in Line

Bits == sender \in BOOLEAN /\ writerOpen \in BOOLEAN /\ readerOpen \in BOOLEAN /\ failing \in BOOLEAN

UploadTypes ==
    /\ upload \in [kind : {"buffer", "reader", "taken"}, left : 0..UploadChunks]
    /\ sent \in [chunks : 0..UploadChunks, eof : BOOLEAN]
    /\ sent.chunks + upload.left <= UploadChunks
    /\ paused \subseteq {"read", "write"}

ReplyTypes == status \in Line /\ headers \in SUBSET Line /\ reply \in Reply

LEMMA CallerTypesStep == ASSUME Places, CallerTypes, Next PROVE CallerTypes'
<1>. USE BoundsAssumption DEF Places, CallerTypes, Line, handlerVars, curlVars, callerVars, pipeVars
<1>1. CASE ReadChunk
  <2>1. got' = Append(got, Head(pipe)) /\ pipe' = Tail(pipe) /\ pipe # <<>>
        /\ UNCHANGED <<caller, pc, delivered, offered, resp>>
    BY <1>1 DEF ReadChunk
  <2>2. Head(pipe) \in 1..BodyChunks /\ pipe' \in Seq(1..BodyChunks) /\ Len(pipe') <= Len(pipe)
    BY <2>1
  <2>3. got' \in Seq(1..BodyChunks) /\ Len(pipe') <= PipeSize
    BY <2>1, <2>2
  <2>. QED  BY <2>1, <2>2, <2>3
<1>2. CASE PollWrite
  <2>1. UNCHANGED <<caller, got, offered, resp>> /\ pc' = "curl" /\ delivered < BodyChunks
    BY <1>2 DEF PollWrite
  <2>2. CASE pipe' = Append(pipe, delivered + 1) /\ delivered' = delivered + 1 /\ Len(pipe) < PipeSize
    <3>1. delivered + 1 \in 1..BodyChunks
      BY <2>1
    <3>2. pipe' \in Seq(1..BodyChunks) /\ Len(pipe') <= PipeSize
      BY <2>2, <3>1
    <3>. QED  BY <2>1, <2>2, <3>1, <3>2
  <2>3. CASE UNCHANGED <<pipe, delivered>>
    BY <2>1, <2>3
  <2>. QED  BY <1>2, <2>2, <2>3 DEF PollWrite
<1>3. CASE Write
  BY <1>3 DEF Write
<1>4. CASE StatusLine
  BY <1>4 DEF StatusLine
<1>5. ASSUME UNCHANGED <<got, pipe, delivered, offered, resp>>, pc' = "poll_write" => pc = "poll_write",
             caller' \in {"waiting", "cancelled", "failed", "reading", "atEof", "clean", "broken", "dropped"}
      PROVE  CallerTypes'
  BY <1>5
<1>6. CASE ReceiveReply \/ ReadEof \/ CheckResult \/ CancelFuture \/ DropBody
  BY <1>5, <1>6 DEF ReceiveReply, ReadEof, CheckResult, CancelFuture, DropBody
<1>7. CASE (\E w \in AnyWaiter : WaitForTrailer(w)) \/ Trailers
  BY <1>5, <1>7 DEF WaitForTrailer, Trailers
<1>8. CASE Begin \/ (\E d \in {"read", "write"} : Unpause(d)) \/ AgentDropsHandler \/ Over
  BY <1>5, <1>8 DEF Begin, Unpause, AgentDropsHandler, Over, vars
<1>9. CASE HeaderCanceled \/ ReceiveHeader \/ ReceiveTrailer
  BY <1>5, <1>9 DEF HeaderCanceled, ReceiveHeader, ReceiveTrailer
<1>10. CASE ReadCanceled \/ ReadBody \/ ReadPending \/ ReadFails \/ Seek
  BY <1>5, <1>10 DEF ReadCanceled, ReadBody, ReadPending, ReadFails, Seek
<1>11. CASE (\E v \in {"ok", "curlError"} : TransferEnds(v)) \/ SetResult \/ FlushTrailer \/ NotifyTrailer \/ Answer
  BY <1>5, <1>11 DEF TransferEnds, SetResult, FlushTrailer, NotifyTrailer, Answer
<1>12. CASE DropSender \/ DropWriter \/ DropTrailer \/ NotifyDropped
  BY <1>5, <1>12 DEF DropSender, DropWriter, DropTrailer, NotifyDropped
<1>. QED  BY <1>1, <1>2, <1>3, <1>4, <1>6, <1>7, <1>8, <1>9, <1>10, <1>11, <1>12
          DEF Next, CallerStep, Callback, HandlerStep

LEMMA BitsStep == ASSUME Bits, Next PROVE Bits'
<1>. USE DEF Bits, handlerVars, curlVars, pipeVars
<1>1. CASE CallerStep \/ CancelFuture \/ DropBody
  BY <1>1 DEF CallerStep, ReceiveReply, ReadChunk, ReadEof, CheckResult, CancelFuture, DropBody
<1>2. CASE (\E w \in AnyWaiter : WaitForTrailer(w)) \/ Trailers
  BY <1>2 DEF WaitForTrailer, Trailers
<1>3. CASE Begin \/ (\E d \in {"read", "write"} : Unpause(d)) \/ AgentDropsHandler \/ Over
  BY <1>3 DEF Begin, Unpause, AgentDropsHandler, Over, vars
<1>4. CASE Callback
  BY <1>4 DEF Callback, HeaderCanceled, StatusLine, ReceiveHeader, ReceiveTrailer, Write,
              CompleteResponseFuture, ReadCanceled, ReadBody, ReadPending, ReadFails, Seek, Abort
<1>5. CASE \E v \in {"ok", "curlError"} : TransferEnds(v)
  BY <1>5 DEF TransferEnds
<1>6. CASE HandlerStep
  BY <1>6 DEF HandlerStep, PollWrite, SetResult, FlushTrailer, NotifyTrailer, Answer, Abort,
              CompleteResponseFuture, DropSender, DropWriter, DropTrailer, NotifyDropped
<1>. QED  BY <1>1, <1>2, <1>3, <1>4, <1>5, <1>6 DEF Next

LEMMA UploadTypesStep == ASSUME UploadTypes, Next PROVE UploadTypes'
<1>. USE BoundsAssumption DEF UploadTypes, handlerVars, curlVars
<1>1. ASSUME UNCHANGED <<upload, sent>>, paused' \subseteq {"read", "write"} PROVE UploadTypes'
  BY <1>1
<1>2. ASSUME CompleteResponseFuture, UNCHANGED <<sent, paused>> PROVE UploadTypes'
  <2>1. CASE UNCHANGED upload
    BY <1>2, <2>1
  <2>2. CASE upload' = [kind |-> "taken", left |-> 0]
    BY <1>2, <2>2
  <2>. QED  BY <1>2, <2>1, <2>2 DEF CompleteResponseFuture
<1>3. CASE Write
  BY <1>2, <1>3 DEF Write
<1>4. CASE Answer
  BY <1>2, <1>4 DEF Answer
<1>5. CASE ReadBody
  <2>1. CASE upload.left = 0
    BY <1>5, <2>1 DEF ReadBody
  <2>2. CASE upload.left # 0
    BY <1>5, <2>2 DEF ReadBody
  <2>. QED  BY <2>1, <2>2
<1>6. CASE Seek
  <2>1. CASE upload.kind = "reader"
    BY <1>1, <1>6, <2>1 DEF Seek
  <2>2. CASE upload.kind # "reader"
    <3>1. upload' = [upload EXCEPT !.left = UploadChunks] /\ sent' = [chunks |-> 0, eof |-> FALSE] /\ paused' = paused
      BY <1>6, <2>2 DEF Seek
    <3>2. upload' \in [kind : {"buffer", "reader", "taken"}, left : 0..UploadChunks] /\ upload'.left = UploadChunks
      BY <3>1
    <3>3. sent' \in [chunks : 0..UploadChunks, eof : BOOLEAN] /\ sent'.chunks = 0
      BY <3>1
    <3>. QED  BY <3>1, <3>2, <3>3
  <2>. QED  BY <2>1, <2>2
<1>7. CASE CallerStep \/ CancelFuture \/ DropBody
  BY <1>1, <1>7 DEF CallerStep, ReceiveReply, ReadChunk, ReadEof, CheckResult, CancelFuture, DropBody
<1>8. CASE (\E w \in AnyWaiter : WaitForTrailer(w)) \/ Trailers
  BY <1>1, <1>8 DEF WaitForTrailer, Trailers
<1>9. CASE Begin \/ (\E d \in {"read", "write"} : Unpause(d)) \/ AgentDropsHandler \/ Over
  BY <1>1, <1>9 DEF Begin, Unpause, AgentDropsHandler, Over, vars
<1>10. CASE HeaderCanceled \/ StatusLine \/ ReceiveHeader \/ ReceiveTrailer \/ ReadCanceled \/ ReadPending \/ ReadFails
  BY <1>1, <1>10 DEF HeaderCanceled, StatusLine, ReceiveHeader, ReceiveTrailer, ReadCanceled, ReadPending, ReadFails
<1>11. CASE (\E v \in {"ok", "curlError"} : TransferEnds(v)) \/ PollWrite \/ SetResult \/ FlushTrailer \/ NotifyTrailer
  BY <1>1, <1>11 DEF TransferEnds, PollWrite, SetResult, FlushTrailer, NotifyTrailer
<1>12. CASE DropSender \/ DropWriter \/ DropTrailer \/ NotifyDropped
  BY <1>1, <1>12 DEF DropSender, DropWriter, DropTrailer, NotifyDropped
<1>. QED  BY <1>3, <1>4, <1>5, <1>6, <1>7, <1>8, <1>9, <1>10, <1>11, <1>12 DEF Next, Callback, HandlerStep

HeaderTypes == ReplyTypes /\ TrailerTypeOK(Line)

LEMMA HeaderTypesStep == ASSUME HeaderTypes, CallerTypes, CallerTypes', Places, Next PROVE HeaderTypes'
<1>. USE BoundsAssumption DEF HeaderTypes, ReplyTypes, TrailerTypeOK, Line, handlerVars, callerVars, trailerVars, waiterVars
<1>1. ASSUME NEW w \in AnyWaiter, CallWait(w) \/ WaiterStep(w) \/ WaitTimesOut(w) PROVE TrailerTypeOK(Line)'
  BY <1>1 DEF CallWait, WaiterStep, Look, Listen, DoubleCheck, WakeUp, WaitTimesOut, LookElse, Goto
<1>2. ASSUME FlushPublish \/ FlushNotify PROVE TrailerTypeOK(Line)'
  <2>1. CASE FlushPublish
    <3>1. ownHeaders' = Unset /\ trailer' \in {ownHeaders, trailer} /\ ownHeaders \in SUBSET Line
      BY <2>1 DEF FlushPublish
    <3>. QED  BY <2>1, <3>1 DEF FlushPublish
  <2>2. CASE FlushNotify
    BY <2>2 DEF FlushNotify
  <2>. QED  BY <1>2, <2>1, <2>2
<1>3. ASSUME CompleteResponseFuture, UNCHANGED status PROVE ReplyTypes'
  <2>1. CASE UNCHANGED <<reply, headers>>
    BY <1>3, <2>1
  <2>2. CASE result \in {"bodyError", "curlError"} /\ reply' = [kind |-> "error", cause |-> result] /\ UNCHANGED headers
    BY <1>3, <2>2 DEF Reply
  <2>3. CASE reply' = [kind |-> "response", status |-> status, headers |-> headers] /\ headers' = {}
    BY <1>3, <2>3 DEF Reply
  <2>. QED  BY <1>3, <2>1, <2>2, <2>3 DEF CompleteResponseFuture
<1>4. CASE Write
  BY <1>3, <1>4 DEF Write
<1>5. CASE Answer
  BY <1>3, <1>5 DEF Answer
<1>6. CASE DropSender
  <2>1. [kind |-> "error", cause |-> "dropped"] \in Reply
    BY DEF Reply
  <2>. QED  BY <1>6, <2>1 DEF DropSender
<1>7. CASE StatusLine
  <2>1. status' = resp' /\ headers' = {} /\ UNCHANGED <<reply, trailerVars>>
    BY <1>7 DEF StatusLine
  <2>2. resp' \in Line
    BY DEF CallerTypes
  <2>. QED  BY <2>1, <2>2
<1>8. CASE ReceiveHeader \/ ReceiveTrailer
  <2>1. resp \in Line /\ TrailerLine \in Line
    BY DEF CallerTypes, TrailerLine
  <2>2. \E line \in Line : HeaderLine(line) /\ UNCHANGED <<status, reply, trailer, listeners, woken, waiterPc>>
    BY <1>8, <2>1 DEF ReceiveHeader, ReceiveTrailer
  <2>. QED  BY <2>2 DEF HeaderLine
<1>9. CASE (\E w \in AnyWaiter : WaitForTrailer(w)) \/ Trailers
  BY <1>1, <1>9 DEF WaitForTrailer, Trailers
<1>10. CASE FlushTrailer \/ NotifyTrailer \/ DropTrailer \/ NotifyDropped
  BY <1>2, <1>10 DEF FlushTrailer, NotifyTrailer, DropTrailer, NotifyDropped
<1>11. ASSUME UNCHANGED <<status, headers, reply, trailerVars>> PROVE HeaderTypes'
  BY <1>11
<1>12. CASE CallerStep \/ CancelFuture \/ DropBody
  BY <1>11, <1>12 DEF CallerStep, ReceiveReply, ReadChunk, ReadEof, CheckResult, CancelFuture, DropBody
<1>13. CASE Begin \/ (\E d \in {"read", "write"} : Unpause(d)) \/ AgentDropsHandler \/ Over
  BY <1>11, <1>13 DEF Begin, Unpause, AgentDropsHandler, Over, vars
<1>14. CASE HeaderCanceled \/ ReadCanceled \/ ReadBody \/ ReadPending \/ ReadFails \/ Seek
  BY <1>11, <1>14 DEF HeaderCanceled, ReadCanceled, ReadBody, ReadPending, ReadFails, Seek
<1>15. CASE (\E v \in {"ok", "curlError"} : TransferEnds(v)) \/ PollWrite \/ SetResult \/ DropWriter
  BY <1>11, <1>15 DEF TransferEnds, PollWrite, SetResult, DropWriter
<1>. QED  BY <1>4, <1>5, <1>6, <1>7, <1>8, <1>9, <1>10, <1>12, <1>13, <1>14, <1>15 DEF Next, Callback, HandlerStep

LEMMA Typing == Places /\ CallerTypes /\ Bits /\ UploadTypes /\ HeaderTypes => TypeOK
  BY DEF TypeOK, Places, CallerTypes, Bits, UploadTypes, HeaderTypes, ReplyTypes

Types == Places /\ CallerTypes /\ Bits /\ UploadTypes /\ HeaderTypes

LEMMA TypesInit == Init => Types
<1>. SUFFICES ASSUME Init PROVE Types
  OBVIOUS
<1>. USE BoundsAssumption DEF Init, TrailerInit
<1>1. Places /\ Bits
  BY DEF Places, Result, Bits
<1>2. CallerTypes
  BY DEF CallerTypes, Line
<1>3. UploadTypes
  BY DEF UploadTypes
<1>4. HeaderTypes
  <2>1. ReplyTypes
    BY DEF ReplyTypes, Line, Reply
  <2>2. TrailerTypeOK(Line)
    BY DEF TrailerTypeOK
  <2>. QED  BY <2>1, <2>2 DEF HeaderTypes
<1>. QED  BY <1>1, <1>2, <1>3, <1>4 DEF Types

(* Every variable keeps its type: in particular the pipe never holds more   *)
(* than PipeSize chunks, and the request body is read at most once between  *)
(* two seeks.                                                               *)
THEOREM TypeCorrect == Spec => []TypeOK
<1>1. ASSUME Types, [Next]_vars PROVE Types'
  <2>1. CASE Next
    BY <1>1, <2>1, PlacesStep, CallerTypesStep, BitsStep, UploadTypesStep, HeaderTypesStep DEF Types
  <2>2. CASE UNCHANGED vars
    <3>. USE <2>2 DEF vars, handlerVars, callerVars, pipeVars, curlVars, trailerVars
    <3>1. Places' /\ Bits'
      BY <1>1 DEF Types, Places, Bits
    <3>2. CallerTypes' /\ UploadTypes'
      BY <1>1 DEF Types, CallerTypes, UploadTypes
    <3>3. HeaderTypes'
      BY <1>1 DEF Types, HeaderTypes, ReplyTypes, TrailerTypeOK
    <3>. QED  BY <3>1, <3>2, <3>3 DEF Types
  <2>. QED  BY <1>1, <2>1, <2>2
<1>2. Types => TypeOK
  BY Typing DEF Types
<1>. QED  BY <1>1, <1>2, TypesInit, PTL DEF Spec
=============================================================================
