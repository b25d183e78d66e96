------------------------------ MODULE Handler ------------------------------
(***************************************************************************)
(* src/src/handler.rs: one request's RequestHandler, driven by curl's       *)
(* callbacks on the agent thread, against the caller on another thread who  *)
(* awaits the response future, then reads the body through a pipe, and the  *)
(* threads that wait for the trailer (module Trailer).                      *)
(*                                                                          *)
(* The caller sees four cells that the agent thread changes one at a time:  *)
(* the future's channel, the pipe, Shared.result and the trailer.  Each      *)
(* change is a step of its own here; a callback that changes none or one of *)
(* them is a single step.                                                   *)
(*                                                                          *)
(* External: curl and the server (what curl calls back, and when), the pipe *)
(* (a bounded sequence), the request body given by the caller.              *)
(***************************************************************************)
EXTENDS Naturals, Sequences, Trailer

CONSTANTS
    Responses,    \* bound: responses of one exchange, the last one final
    BodyChunks,   \* bound: chunks of the final response's body
    UploadChunks, \* chunks of the request body
    PipeSize      \* bound: chunks the pipe holds

ASSUME BoundsAssumption ==
    /\ Responses \in Nat \ {0} /\ BodyChunks \in Nat
    /\ UploadChunks \in Nat /\ PipeSize \in Nat \ {0}
    /\ \A lines \in SUBSET (0..Responses) : lines # Unset

VARIABLES
    \* the handler
    pc,           \* where the agent thread is in this handler
    after,        \* where set_result returns to
    setting,      \* the result set_result was called with
    sender,       \* is the future's sender still there?
    result,       \* Shared.result
    status,       \* response_status_code (and version): which response it is from
    headers,      \* response_headers: the set of lines, by the response they are from
    upload,       \* request_body: its kind and the chunks left, or taken
    \* the caller
    caller,
    reply,        \* what the future's channel carries
    got,          \* the body chunks read so far
    \* the pipe
    pipe, writerOpen, readerOpen,
    \* curl
    resp,         \* responses begun
    part,         \* what of the current response is being received
    offered,      \* body chunks the server sent
    delivered,    \* body chunks the handler accepted
    sent,         \* request body chunks curl has read, "eof" seen or not
    paused,       \* directions curl has paused
    failing,      \* a callback told curl to abort
    verdict       \* how curl finished the transfer

handlerVars == <<pc, after, setting, sender, result, status, headers, upload>>
callerVars == <<caller, reply, got>>
pipeVars == <<pipe, writerOpen, readerOpen>>
curlVars == <<resp, part, offered, delivered, sent, paused, failing, verdict>>
vars == <<handlerVars, callerVars, pipeVars, curlVars, trailerVars>>

(* A header line is known by the response it belongs to; TrailerLine by     *)
(* none of them.                                                            *)
TrailerLine == 0
Line == 0..Responses
Result == {"ok", "bodyError", "curlError"}
NoReply == [kind |-> "none"]
Reply ==
    {NoReply}
    \cup [kind : {"response"}, status : Line, headers : SUBSET Line]
    \cup [kind : {"error"}, cause : {"bodyError", "curlError", "dropped"}]

TypeOK ==
    /\ pc \in {"queued", "curl", "poll_write", "set_result", "flush", "notify", "answer",
               "drop_sender", "drop_writer", "drop_trailer", "notify_dropped", "gone"}
    /\ after \in {"curl", "drop_sender"}
    /\ setting \in Result
    /\ sender \in BOOLEAN
    /\ result \in Result \cup {"none"}
    /\ status \in Line
    /\ headers \in SUBSET Line
    /\ upload \in [kind : {"buffer", "reader", "taken"}, left : 0..UploadChunks]
    /\ caller \in {"waiting", "cancelled", "failed", "reading", "atEof", "clean", "broken", "dropped"}
    /\ reply \in Reply
    /\ got \in Seq(1..BodyChunks)
    /\ pipe \in Seq(1..BodyChunks) /\ Len(pipe) <= PipeSize
    /\ writerOpen \in BOOLEAN
    /\ readerOpen \in BOOLEAN
    /\ resp \in Line
    /\ part \in {"none", "headers", "body", "trailers"}
    /\ offered \in 0..BodyChunks
    /\ delivered \in 0..BodyChunks
    /\ sent \in [chunks : 0..UploadChunks, eof : BOOLEAN]
    /\ paused \subseteq {"read", "write"}
    /\ failing \in BOOLEAN
    /\ verdict \in {"none", "ok", "curlError"}
    /\ TrailerTypeOK(Line)

Init ==
    /\ pc = "queued"
    /\ after = "curl"
    /\ setting = "ok"
    /\ sender = TRUE
    /\ result = "none"
    /\ status = 0
    /\ headers = {}
    /\ upload \in [kind : {"buffer", "reader"}, left : {UploadChunks}]
    /\ caller = "waiting"
    /\ reply = NoReply
    /\ got = <<>>
    /\ pipe = <<>> /\ writerOpen = TRUE /\ readerOpen = TRUE
    /\ resp = 0
    /\ part = "none"
    /\ offered = 0 /\ delivered = 0
    /\ sent = [chunks |-> 0, eof |-> FALSE]
    /\ paused = {}
    /\ failing = FALSE
    /\ verdict = "none"
    /\ TrailerInit

----------------------------------------------------------------------------
(* The caller's future holds the receiver and the pipe's reader. *)

IsFutureCanceled == sender /\ caller = "cancelled"

ReceiveReply ==
    /\ caller = "waiting"
    /\ reply # NoReply
    /\ caller' = IF reply.kind = "response" THEN "reading" ELSE "failed"
    /\ readerOpen' = (reply.kind = "response")
    /\ UNCHANGED <<handlerVars, reply, got, pipe, writerOpen, curlVars, trailerVars>>

CancelFuture ==
    /\ caller = "waiting"
    /\ caller' = "cancelled"
    /\ readerOpen' = FALSE
    /\ UNCHANGED <<handlerVars, reply, got, pipe, writerOpen, curlVars, trailerVars>>

(* ResponseBodyReader::poll_read: data, or nothing yet, or the end of the   *)
(* pipe; at the end the shared result decides.                              *)
ReadChunk ==
    /\ caller = "reading"
    /\ pipe # <<>>
    /\ got' = Append(got, Head(pipe))
    /\ pipe' = Tail(pipe)
    /\ UNCHANGED <<handlerVars, caller, reply, writerOpen, readerOpen, curlVars, trailerVars>>

ReadEof ==
    /\ caller = "reading"
    /\ pipe = <<>>
    /\ ~writerOpen
    /\ caller' = "atEof"
    /\ UNCHANGED <<handlerVars, reply, got, pipeVars, curlVars, trailerVars>>

(* mutant: a transfer without a result counts as finished *)
CheckResultLeniently ==
    /\ caller = "atEof"
    /\ caller' = IF result \in {"ok", "none"} THEN "clean" ELSE "broken"
    /\ UNCHANGED <<handlerVars, reply, got, pipeVars, curlVars, trailerVars>>

CheckResult ==
    /\ caller = "atEof"
    /\ caller' = IF result = "ok" THEN "clean" ELSE "broken"
    /\ UNCHANGED <<handlerVars, reply, got, pipeVars, curlVars, trailerVars>>

DropBody ==
    /\ caller = "reading"
    /\ caller' = "dropped"
    /\ readerOpen' = FALSE
    /\ UNCHANGED <<handlerVars, reply, got, pipe, writerOpen, curlVars, trailerVars>>

(* The trailer handle is an extension of the response. *)
WaitForTrailer(w) ==
    /\ caller \in {"reading", "clean", "broken", "dropped"}
    /\ CallWait(w)
    /\ UNCHANGED <<handlerVars, callerVars, pipeVars, curlVars>>

----------------------------------------------------------------------------
(* The agent calls init, then curl calls back. *)

Begin ==
    /\ pc = "queued"
    /\ pc' = "curl"
    /\ UNCHANGED <<after, setting, sender, result, status, headers, upload, callerVars, pipeVars, curlVars, trailerVars>>

InCallback == pc = "curl" /\ verdict = "none" /\ ~failing

Abort == failing' = TRUE

(* header: after the future has been completed a header line belongs to the *)
(* trailer; a status line drops the headers of an earlier response.         *)
HeaderLine(line) ==
    IF ~sender /\ ownHeaders # Unset
    THEN /\ ownHeaders' = ownHeaders \cup {line}
         /\ UNCHANGED headers
    ELSE /\ headers' = headers \cup {line}
         /\ UNCHANGED ownHeaders

HeaderCanceled ==
    /\ InCallback
    /\ part \in {"none", "headers"}
    /\ IsFutureCanceled
    /\ Abort
    /\ UNCHANGED <<handlerVars, callerVars, pipeVars, resp, part, offered, delivered, sent, paused, verdict, trailerVars>>

(* mutant: the headers of an earlier response are kept *)
StatusLineKeepsHeaders ==
    /\ InCallback
    /\ ~IsFutureCanceled
    /\ part \in {"none", "headers"}
    /\ resp < Responses
    /\ resp' = resp + 1
    /\ part' = "headers"
    /\ status' = resp + 1
    /\ UNCHANGED <<pc, after, setting, sender, result, headers, upload, callerVars, pipeVars, offered, delivered, sent, paused, failing, verdict, trailerVars>>

StatusLine ==
    /\ InCallback
    /\ ~IsFutureCanceled
    /\ part \in {"none", "headers"}
    /\ resp < Responses
    /\ resp' = resp + 1
    /\ part' = "headers"
    /\ status' = resp + 1
    /\ headers' = {}
    /\ UNCHANGED <<pc, after, setting, sender, result, upload, callerVars, pipeVars, offered, delivered, sent, paused, failing, verdict, trailerVars>>

ReceiveHeader ==
    /\ InCallback
    /\ ~IsFutureCanceled
    /\ part = "headers"
    /\ HeaderLine(resp)
    /\ UNCHANGED <<pc, after, setting, sender, result, status, upload, callerVars, pipeVars, curlVars, trailer, waiterVars>>

(* The server ends a chunked body with trailer fields. *)
ReceiveTrailer ==
    /\ InCallback
    /\ ~IsFutureCanceled
    /\ part = "body" \/ (part = "headers" /\ resp = Responses)
    /\ delivered = offered
    /\ part' = "trailers"
    /\ HeaderLine(TrailerLine)
    /\ UNCHANGED <<pc, after, setting, sender, result, status, upload, callerVars, pipeVars, resp, offered, delivered, sent, paused, failing, verdict, trailer, waiterVars>>

(* mutant: the sender stays after the future was completed *)
CompleteAgain ==
    /\ reply' = IF result \in {"bodyError", "curlError"}
                THEN [kind |-> "error", cause |-> result]
                ELSE [kind |-> "response", status |-> status, headers |-> headers]
    /\ headers' = {}
    /\ UNCHANGED <<sender, upload>>

(* complete_response_future: the first call takes the sender and answers    *)
(* with an error that is already known, else with the headers so far, the   *)
(* request body and the trailer handle.                                     *)
CompleteResponseFuture ==
    IF ~sender THEN UNCHANGED <<sender, reply, headers, upload>>
    ELSE /\ sender' = FALSE
         /\ IF result \in {"bodyError", "curlError"}
            THEN /\ reply' = [kind |-> "error", cause |-> result]
                 /\ UNCHANGED <<headers, upload>>
            ELSE /\ reply' = [kind |-> "response", status |-> status, headers |-> headers]
                 /\ headers' = {}
                 /\ upload' = [kind |-> "taken", left |-> 0]

(* write: complete the future, then offer the chunk to the pipe.  A chunk   *)
(* that could not be taken is offered again once curl is resumed.           *)
Write ==
    /\ InCallback
    /\ part \in {"headers", "body"} /\ resp = Responses
    /\ delivered < BodyChunks
    /\ "write" \notin paused
    /\ part' = "body"
    /\ offered' = delivered + 1
    /\ CompleteResponseFuture
    /\ pc' = "poll_write"
    /\ UNCHANGED <<after, setting, result, status, caller, got, pipeVars, resp, delivered, sent, paused, failing, verdict, trailerVars>>

PollWrite ==
    /\ pc = "poll_write"
    /\ pc' = "curl"
    /\ \/ /\ readerOpen /\ Len(pipe) < PipeSize
          /\ pipe' = Append(pipe, delivered + 1)
          /\ delivered' = delivered + 1
          /\ UNCHANGED <<paused, failing>>
       \/ /\ readerOpen /\ Len(pipe) = PipeSize
          /\ paused' = paused \cup {"write"}
          /\ UNCHANGED <<pipe, delivered, failing>>
       \/ /\ ~readerOpen
          /\ Abort
          /\ UNCHANGED <<pipe, delivered, paused>>
    /\ UNCHANGED <<after, setting, sender, result, status, headers, upload, callerVars, writerOpen, readerOpen, resp, part, offered, sent, verdict, trailerVars>>

(* The agent resumes a direction, rightly or because of a stale wake-up. *)
Unpause(d) ==
    /\ pc = "curl"
    /\ d \in paused
    /\ paused' = paused \ {d}
    /\ UNCHANGED <<handlerVars, callerVars, pipeVars, resp, part, offered, delivered, sent, failing, verdict, trailerVars>>

----------------------------------------------------------------------------
(* read: curl wants a chunk of the request body, at any time until it has   *)
(* seen its end.  A body that was taken reads as empty.                     *)

Reads ==
    /\ InCallback
    /\ "read" \notin paused
    /\ ~sent.eof

ReadCanceled ==
    /\ Reads
    /\ IsFutureCanceled
    /\ Abort
    /\ UNCHANGED <<handlerVars, callerVars, pipeVars, resp, part, offered, delivered, sent, paused, verdict, trailerVars>>

ReadBody ==
    /\ Reads
    /\ ~IsFutureCanceled
    /\ IF upload.left = 0
       THEN sent' = [sent EXCEPT !.eof = TRUE] /\ UNCHANGED upload
       ELSE /\ sent' = [sent EXCEPT !.chunks = @ + 1]
            /\ upload' = [upload EXCEPT !.left = @ - 1]
    /\ UNCHANGED <<pc, after, setting, sender, result, status, headers, callerVars, pipeVars, resp, part, offered, delivered, paused, failing, verdict, trailerVars>>

ReadPending ==
    /\ Reads
    /\ ~IsFutureCanceled
    /\ upload.kind = "reader"
    /\ paused' = paused \cup {"read"}
    /\ UNCHANGED <<handlerVars, callerVars, pipeVars, resp, part, offered, delivered, sent, failing, verdict, trailerVars>>

ReadFails ==
    /\ Reads
    /\ ~IsFutureCanceled
    /\ upload.kind = "reader"
    /\ Abort
    /\ pc' = "set_result"
    /\ setting' = "bodyError"
    /\ after' = "curl"
    /\ UNCHANGED <<sender, result, status, headers, upload, callerVars, pipeVars, resp, part, offered, delivered, sent, paused, verdict, trailerVars>>

(* seek: curl must send the body again from its start; only a buffer can.   *)
Seek ==
    /\ InCallback
    /\ sent.chunks > 0
    /\ sender
    /\ IF upload.kind = "reader"
       THEN Abort /\ UNCHANGED <<upload, sent>>
       ELSE /\ upload' = [upload EXCEPT !.left = UploadChunks]
            /\ sent' = [chunks |-> 0, eof |-> FALSE]
            /\ UNCHANGED failing
    /\ UNCHANGED <<pc, after, setting, sender, result, status, headers, callerVars, pipeVars, resp, part, offered, delivered, paused, verdict, trailerVars>>

----------------------------------------------------------------------------
(* curl is done with the transfer, and the agent's complete_request calls   *)
(* set_result, then drops the handler.                                      *)

TransferSucceeds == ~failing /\ resp = Responses /\ delivered = offered

TransferEnds(v) ==
    /\ pc = "curl"
    /\ v = "ok" => TransferSucceeds
    /\ verdict' = v
    /\ setting' = v
    /\ after' = "drop_sender"
    /\ pc' = "set_result"
    /\ UNCHANGED <<sender, result, status, headers, upload, callerVars, pipeVars, resp, part, offered, delivered, sent, paused, failing, trailerVars>>

(* mutant: the last result stays *)
SetResultAgain ==
    /\ pc = "set_result"
    /\ result' = setting
    /\ pc' = "flush"
    /\ UNCHANGED <<after, setting, sender, status, headers, upload, callerVars, pipeVars, curlVars, trailerVars>>

(* set_result: the first result stays; then the trailer, then the future. *)
SetResult ==
    /\ pc = "set_result"
    /\ result' = IF result = "none" THEN setting ELSE result
    /\ pc' = "flush"
    /\ UNCHANGED <<after, setting, sender, status, headers, upload, callerVars, pipeVars, curlVars, trailerVars>>

(* mutant: set_result leaves the trailer to the handler's drop *)
FlushTrailerLater ==
    /\ pc = "flush"
    /\ pc' = "answer"
    /\ UNCHANGED <<after, setting, sender, result, status, headers, upload, callerVars, pipeVars, curlVars, trailerVars>>

FlushTrailer ==
    /\ pc = "flush"
    /\ IF ownHeaders # Unset
       THEN FlushPublish /\ pc' = "notify"
       ELSE pc' = "answer" /\ UNCHANGED trailerVars
    /\ UNCHANGED <<after, setting, sender, result, status, headers, upload, callerVars, pipeVars, curlVars>>

NotifyTrailer ==
    /\ pc = "notify"
    /\ FlushNotify
    /\ pc' = "answer"
    /\ UNCHANGED <<after, setting, sender, result, status, headers, upload, callerVars, pipeVars, curlVars>>

Answer ==
    /\ pc = "answer"
    /\ CompleteResponseFuture
    /\ pc' = after
    /\ UNCHANGED <<after, setting, result, status, caller, got, pipeVars, curlVars, trailerVars>>

----------------------------------------------------------------------------
(* The handler is dropped: after its result was set, or because the agent   *)
(* closes or fails, or never got it into curl.  Fields go in the order they *)
(* are declared: sender, pipe writer, trailer writer.                       *)

AgentDropsHandler ==
    /\ pc \in {"queued", "curl"}
    /\ pc' = "drop_sender"
    /\ UNCHANGED <<after, setting, sender, result, status, headers, upload, callerVars, pipeVars, curlVars, trailerVars>>

DropSender ==
    /\ pc = "drop_sender"
    /\ sender' = FALSE
    /\ reply' = IF sender THEN [kind |-> "error", cause |-> "dropped"] ELSE reply
    /\ pc' = "drop_writer"
    /\ UNCHANGED <<after, setting, result, status, headers, upload, caller, got, pipeVars, curlVars, trailerVars>>

DropWriter ==
    /\ pc = "drop_writer"
    /\ writerOpen' = FALSE
    /\ pc' = "drop_trailer"
    /\ UNCHANGED <<after, setting, sender, result, status, headers, upload, callerVars, pipe, readerOpen, curlVars, trailerVars>>

DropTrailer ==
    /\ pc = "drop_trailer"
    /\ IF ownHeaders # Unset
       THEN FlushPublish /\ pc' = "notify_dropped"
       ELSE pc' = "gone" /\ UNCHANGED trailerVars
    /\ UNCHANGED <<after, setting, sender, result, status, headers, upload, callerVars, pipeVars, curlVars>>

NotifyDropped ==
    /\ pc = "notify_dropped"
    /\ FlushNotify
    /\ pc' = "gone"
    /\ UNCHANGED <<after, setting, sender, result, status, headers, upload, callerVars, pipeVars, curlVars>>

----------------------------------------------------------------------------
CallerStep == ReceiveReply \/ ReadChunk \/ ReadEof \/ CheckResult

Trailers ==
    /\ \E w \in AnyWaiter : WaiterStep(w) \/ WaitTimesOut(w)
    /\ UNCHANGED <<handlerVars, callerVars, pipeVars, curlVars>>

Callback ==
    \/ HeaderCanceled \/ StatusLine \/ ReceiveHeader \/ ReceiveTrailer
    \/ Write \/ ReadCanceled \/ ReadBody \/ ReadPending \/ ReadFails \/ Seek

(* What the agent thread does without waiting for anybody. *)
HandlerStep ==
    \/ PollWrite \/ SetResult \/ FlushTrailer \/ NotifyTrailer \/ Answer
    \/ DropSender \/ DropWriter \/ DropTrailer \/ NotifyDropped

(* The exchange is over and everybody has seen its end. *)
Over ==
    /\ pc = "gone"
    /\ caller \notin {"waiting", "reading", "atEof"}
    /\ \A w \in AnyWaiter : waiterPc[w] \in {"idle", "got", "timedOut"}
    /\ UNCHANGED vars

Next ==
    \/ CallerStep \/ CancelFuture \/ DropBody
    \/ \E w \in AnyWaiter : WaitForTrailer(w)
    \/ Trailers
    \/ Begin \/ Callback \/ \E d \in {"read", "write"} : Unpause(d)
    \/ \E v \in {"ok", "curlError"} : TransferEnds(v)
    \/ AgentDropsHandler \/ HandlerStep
    \/ Over

Spec == Init /\ [][Next]_vars

(* The agent thread finishes what it has begun, an aborted transfer ends,   *)
(* and threads that wait run when they can.  Nothing is assumed of the      *)
(* server.                                                                  *)
LiveSpec ==
    /\ Spec
    /\ WF_vars(HandlerStep)
    /\ WF_vars(failing /\ TransferEnds("curlError"))
    /\ WF_vars(CallerStep)
    /\ \A w \in AnyWaiter : WF_vars(WaiterStep(w) /\ UNCHANGED <<handlerVars, callerVars, pipeVars, curlVars>>)

----------------------------------------------------------------------------
(* The response is the final one of the exchange, and no header of an       *)
(* earlier response (a redirect, a challenge, 100 Continue) is left in it;  *)
(* a trailer field may stand among the headers only if there was no body.   *)
HeadersOfFinalResponse ==
    reply.kind = "response" =>
        /\ reply.status = Responses
        /\ reply.headers \subseteq {Responses, TrailerLine}
        /\ TrailerLine \in reply.headers => offered = 0

(* A caller that reads to a clean end of file has the whole body, in order, *)
(* of a transfer that curl finished successfully.                           *)
NoSilentTruncation ==
    caller = "clean" =>
        /\ verdict = "ok"
        /\ got = [i \in 1..offered |-> i]

(* After a clean end of file no trailer field the server sent is lost, and  *)
(* there is no need to wait for one: the trailer is published, and after a  *)
(* body that was not empty it is complete.  trailer.rs:15-17 guarantees     *)
(* that whatever the body; the code does not: with an empty body the fields *)
(* arrive before the future is answered, and `header` puts them among the   *)
(* response's headers, so that the trailer is published without them.       *)
TrailerReadyAtEof ==
    caller = "clean" =>
        /\ trailer # Unset
        /\ offered > 0 => trailer = IF part = "trailers" THEN {TrailerLine} ELSE {}
        /\ offered = 0 /\ part = "trailers" => TrailerLine \in reply.headers

(* The caller's error is the first one: a request body that could not be    *)
(* read is reported as such, not as the abort it makes curl end with, and   *)
(* the future and the shared result tell the same story.                    *)
ErrorIsTheFirst ==
    reply.kind = "error" => reply.cause = IF result = "none" THEN "dropped" ELSE result

(* The future is answered once, the result set once, whatever callbacks     *)
(* follow.                                                                  *)
SettledOnce ==
    [][ /\ reply # NoReply => reply' = reply
        /\ result # "none" => result' = result ]_vars

(* When the handler is gone, nobody is left waiting: not the caller for the *)
(* response or for the body, not a thread for the trailer.                  *)
EverybodyIsReleased ==
    pc = "gone" ~> /\ caller \notin {"waiting", "reading", "atEof"}
                   /\ \A w \in AnyWaiter : waiterPc[w] \in {"idle", "got", "timedOut"}

(* What build_response relies on when it gives the request body away ("     *)
(* otherwise we're just going to drop it later"): nobody reads it any more, *)
(* so an end of body seen by curl is the end of the whole body.             *)
UploadIsWhole == sent.eof => sent.chunks = UploadChunks
=============================================================================
