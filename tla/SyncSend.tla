------------------------------ MODULE SyncSend ------------------------------
(***************************************************************************)
(* HttpClient::send of src/src/client.rs with a body that is a reader: one  *)
(* thread polls the response future and copies the reader into a pipe       *)
(* (Writer of src/src/body/sync.rs), both inside try_zip, while the agent   *)
(* thread empties the pipe and answers.                                     *)
(*                                                                          *)
(* External: the reader, the server, and the pipe, which holds a bounded    *)
(* number of chunks and keeps a waker for each of its ends.  The agent      *)
(* resumes a paused upload (module Agent): here it does so at once.         *)
(***************************************************************************)
EXTENDS Naturals

CONSTANTS
    Chunks,       \* chunks the reader gives
    PipeSize,     \* bound: chunks the pipe holds
    EarlyAnswer   \* may the server answer before it has read the whole body?

ASSUME BoundsAssumption == Chunks \in Nat /\ PipeSize \in Nat \ {0} /\ EarlyAnswer \in BOOLEAN

VARIABLES
    \* the calling thread
    main,          \* where it is in try_zip
    woken,         \* block_on's waker has been called
    kept,          \* try_zip keeps the response
    left,          \* chunks the reader still has
    returned,      \* what send returned
    \* the pipe
    pipe,          \* chunks in it
    writer,        \* its writer: "open", "finished", or "failed" when the reader did
    body,          \* who owns its reader: the handler, the response, or nobody
    writerWaits,   \* a waker kept for the writer
    \* the agent thread
    transfer,      \* where the transfer is
    sent,          \* chunks curl has read
    eof,           \* curl has seen the end of the request body
    paused,        \* the upload is paused
    reply          \* what the response future's channel carries

mainVars == <<main, woken, kept, left, returned>>
pipeVars == <<pipe, writer, body, writerWaits>>
agentVars == <<transfer, sent, eof, paused, reply>>
vars == <<mainVars, pipeVars, agentVars>>

TypeOK ==
    /\ main \in {"poll", "read", "write", "parked", "dropping", "returned"}
    /\ woken \in BOOLEAN /\ kept \in BOOLEAN
    /\ left \in 0..Chunks
    /\ returned \in {"nothing", "response", "transferError", "readerError", "pipeError"}
    /\ pipe \in 0..PipeSize
    /\ writer \in {"open", "finished", "failed"}
    /\ body \in {"handler", "response", "nobody"}
    /\ writerWaits \in BOOLEAN
    /\ transfer \in {"new", "running", "failed", "over"}
    /\ sent \in 0..Chunks
    /\ eof \in BOOLEAN /\ paused \in BOOLEAN
    /\ reply \in {"none", "response", "error", "canceled"}

Init ==
    /\ main = "poll" /\ woken = FALSE /\ kept = FALSE
    /\ left = Chunks /\ returned = "nothing"
    /\ pipe = 0 /\ writer = "open" /\ body = "handler" /\ writerWaits = FALSE
    /\ transfer = "new" /\ sent = 0
    /\ eof = FALSE /\ paused = FALSE
    /\ reply = "none"

----------------------------------------------------------------------------
(* The calling thread.  try_zip polls the response future first, then the   *)
(* copy, each of them as long as it is not done.  What the copy did last    *)
(* tells where it goes on: with a chunk in hand, or with the reader.        *)

Holding == Chunks - left > sent + pipe

(* The next part of a poll of try_zip, given whether the response is there. *)
Continue(gotIt) ==
    IF writer = "open"
    THEN main' = (IF Holding THEN "write" ELSE "read") /\ UNCHANGED returned
    ELSE IF gotIt
    THEN main' = "returned" /\ returned' = "response"
    ELSE main' = "parked" /\ UNCHANGED returned

(* mutant: await the response, then copy *)
AwaitFirst ==
    /\ main = "poll"
    /\ ~kept /\ reply = "none"
    /\ transfer' = IF transfer = "new" THEN "running" ELSE transfer
    /\ main' = "parked"
    /\ UNCHANGED <<woken, kept, left, returned, pipeVars, sent, eof, paused, reply>>

(* The first poll of the response future submits the request. *)
PollPending ==
    /\ main = "poll"
    /\ ~kept /\ reply = "none"
    /\ transfer' = IF transfer = "new" THEN "running" ELSE transfer
    /\ Continue(FALSE)
    /\ UNCHANGED <<woken, kept, left, pipeVars, sent, eof, paused, reply>>

PollReady ==
    /\ main = "poll"
    /\ kept \/ reply = "response"
    /\ kept' = TRUE
    /\ Continue(TRUE)
    /\ UNCHANGED <<woken, left, pipeVars, agentVars>>

(* An error of either future ends try_zip, and drops the other one.         *)
PollError ==
    /\ main = "poll"
    /\ ~kept /\ reply = "error"
    /\ main' = "returned"
    /\ returned' = "transferError"
    /\ writer' = IF writer = "open" THEN "failed" ELSE writer
    /\ UNCHANGED <<woken, kept, left, pipe, body, writerWaits, agentVars>>

(* The end of the copy drops the pipe's writer: a paused upload is resumed. *)
EndWriter(how) ==
    /\ writer' = how
    /\ paused' = FALSE
    /\ UNCHANGED <<pipe, body, writerWaits>>

(* mutant: an interrupted read ends the copy *)
InterruptedIsEnd ==
    /\ main = "read"
    /\ EndWriter("finished")
    /\ IF kept THEN main' = "returned" /\ returned' = "response"
       ELSE main' = "parked" /\ UNCHANGED returned
    /\ UNCHANGED <<woken, kept, left, transfer, sent, eof, reply>>

(* Writer::write: reads block, on this thread.                              *)
ReadChunk ==
    /\ main = "read"
    /\ left > 0
    /\ left' = left - 1
    /\ main' = "write"
    /\ UNCHANGED <<woken, kept, returned, pipeVars, agentVars>>

ReadInterrupted ==
    /\ main = "read"
    /\ main' = "poll"
    /\ UNCHANGED <<woken, kept, left, returned, pipeVars, agentVars>>

ReadEnd ==
    /\ main = "read"
    /\ left = 0
    /\ EndWriter("finished")
    /\ IF kept THEN main' = "returned" /\ returned' = "response"
       ELSE main' = "parked" /\ UNCHANGED returned
    /\ UNCHANGED <<woken, kept, left, transfer, sent, eof, reply>>

ReadFails ==
    /\ main = "read"
    /\ EndWriter("failed")
    /\ main' = "dropping"
    /\ returned' = "readerError"
    /\ UNCHANGED <<woken, kept, left, transfer, sent, eof, reply>>

WriteChunk ==
    /\ main = "write"
    /\ body # "nobody"
    /\ pipe < PipeSize
    /\ pipe' = pipe + 1
    /\ paused' = FALSE
    /\ main' = "read"
    /\ UNCHANGED <<woken, kept, left, returned, writer, body, writerWaits, transfer, sent, eof, reply>>

WritePending ==
    /\ main = "write"
    /\ body # "nobody"
    /\ pipe = PipeSize
    /\ writerWaits' = TRUE
    /\ main' = "parked"
    /\ UNCHANGED <<woken, kept, left, returned, pipe, writer, body, agentVars>>

WriteFails ==
    /\ main = "write"
    /\ body = "nobody"
    /\ EndWriter("failed")
    /\ main' = "dropping"
    /\ returned' = "pipeError"
    /\ UNCHANGED <<woken, kept, left, transfer, sent, eof, reply>>

(* After the copy failed, the response future or the response is dropped.   *)
DropResponse ==
    /\ main = "dropping"
    /\ main' = "returned"
    /\ reply' = IF reply = "none" THEN "canceled" ELSE reply
    /\ body' = IF body = "response" THEN "nobody" ELSE body
    /\ UNCHANGED <<woken, kept, left, returned, pipe, writer, writerWaits, transfer, sent, eof, paused>>

Unpark ==
    /\ main = "parked"
    /\ woken
    /\ woken' = FALSE
    /\ main' = "poll"
    /\ UNCHANGED <<kept, left, returned, pipeVars, agentVars>>

----------------------------------------------------------------------------
(* The agent thread.  curl reads the request body until it has seen its     *)
(* end; a body that went into the response reads as empty.                  *)

Uploads == transfer = "running" /\ ~eof /\ ~paused /\ reply # "canceled"

UploadChunk ==
    /\ Uploads
    /\ body = "handler"
    /\ pipe > 0
    /\ pipe' = pipe - 1
    /\ sent' = sent + 1
    /\ woken' = (woken \/ writerWaits)
    /\ writerWaits' = FALSE
    /\ UNCHANGED <<main, kept, left, returned, writer, body, transfer, eof, paused, reply>>

UploadEnds ==
    /\ Uploads
    /\ body = "handler" => pipe = 0 /\ writer # "open"
    /\ eof' = TRUE
    /\ UNCHANGED <<mainVars, pipeVars, transfer, sent, paused, reply>>

UploadPauses ==
    /\ Uploads
    /\ body = "handler" /\ pipe = 0 /\ writer = "open"
    /\ paused' = TRUE
    /\ UNCHANGED <<mainVars, pipeVars, transfer, sent, eof, reply>>

UploadAborts ==
    /\ transfer = "running"
    /\ reply = "canceled"
    /\ transfer' = "failed"
    /\ UNCHANGED <<mainVars, pipeVars, sent, eof, paused, reply>>

(* complete_response_future: the response takes the request body along.     *)
Answer ==
    /\ transfer = "running"
    /\ eof \/ EarlyAnswer
    /\ reply = "none"
    /\ reply' = "response"
    /\ body' = "response"
    /\ woken' = TRUE
    /\ UNCHANGED <<main, kept, left, returned, pipe, writer, writerWaits, transfer, sent, eof, paused>>

Fail ==
    /\ transfer = "running"
    /\ transfer' = "failed"
    /\ reply' = IF reply = "none" THEN "error" ELSE reply
    /\ woken' = TRUE
    /\ UNCHANGED <<main, kept, left, returned, pipeVars, sent, eof, paused>>

Succeed ==
    /\ transfer = "running"
    /\ reply = "response"
    /\ transfer' = "over"
    /\ UNCHANGED <<mainVars, pipeVars, sent, eof, paused, reply>>

(* The handler is dropped, with the request body if it still has it; a      *)
(* writer that waits is woken.                                              *)
DropHandler ==
    /\ transfer = "failed"
    /\ transfer' = "over"
    /\ body' = IF body = "handler" THEN "nobody" ELSE body
    /\ woken' = (woken \/ (writerWaits /\ body = "handler"))
    /\ UNCHANGED <<main, kept, left, returned, pipe, writer, writerWaits, sent, eof, paused, reply>>

----------------------------------------------------------------------------
MainStep ==
    \/ PollPending \/ PollReady \/ PollError
    \/ ReadChunk \/ ReadEnd
    \/ WriteChunk \/ WritePending \/ WriteFails
    \/ DropResponse \/ Unpark

Upload == UploadChunk \/ UploadEnds \/ UploadPauses

Next ==
    \/ MainStep \/ ReadInterrupted \/ ReadFails
    \/ Upload \/ UploadAborts
    \/ Answer \/ Fail \/ Succeed \/ DropHandler

Spec == Init /\ [][Next]_vars

(* The calling thread runs, the reader neither blocks nor is interrupted    *)
(* for ever, curl sends what it is given, the agent cleans up.  Nothing is  *)
(* assumed of the server: it may never answer.                              *)
LiveSpec ==
    /\ Spec
    /\ WF_vars(MainStep) /\ SF_vars(ReadChunk \/ ReadEnd \/ ReadFails)
    /\ WF_vars(Upload) /\ WF_vars(UploadAborts) /\ WF_vars(DropHandler)

----------------------------------------------------------------------------
(* A request body that ends has ended where its reader did: with every      *)
(* chunk sent, whatever interruptions and full pipes the copy met.  Said of *)
(* bodies that are still the handler's and whose reader did not fail.       *)
UploadIsWhole == eof /\ body = "handler" /\ writer # "failed" => sent = Chunks

(* "The Response is returned as soon as the HTTP response headers are       *)
(* received" (HttpClient::send), and so is an error.                        *)
AnswerIsReturned == reply \in {"response", "error"} ~> main = "returned"

(* One thread does both halves, and neither waits for the other, though the *)
(* pipe is smaller than the body: curl gets the whole body unless the       *)
(* reader or the transfer fails, and once there is an answer or an error,   *)
(* send returns.                                                            *)
SendReturns == <>(eof \/ reply # "none" \/ main = "returned") /\ AnswerIsReturned
=============================================================================
