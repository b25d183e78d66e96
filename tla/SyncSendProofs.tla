--------------------------- MODULE SyncSendProofs ---------------------------
(***************************************************************************)
(* Proofs about SyncSend, for bodies and pipes of any size and a server     *)
(* that may answer early: a chunk the reader gave is in the hand of the     *)
(* copy, in the pipe, or with curl, and none of them is lost.               *)
(***************************************************************************)
EXTENDS SyncSend, TLAPS

(* The type invariant in three parts, which different provers are good at.  *)
Flags ==
    /\ woken \in BOOLEAN /\ kept \in BOOLEAN /\ writerWaits \in BOOLEAN
    /\ eof \in BOOLEAN /\ paused \in BOOLEAN

Places ==
    /\ main \in {"poll", "read", "write", "parked", "dropping", "returned"}
    /\ returned \in {"nothing", "response", "transferError", "readerError", "pipeError"}
    /\ writer \in {"open", "finished", "failed"}
    /\ body \in {"handler", "response", "nobody"}
    /\ transfer \in {"new", "running", "failed", "over"}
    /\ reply \in {"none", "response", "error", "canceled"}

Counts == left \in 0..Chunks /\ pipe \in 0..PipeSize /\ sent \in 0..Chunks

(* Chunks are conserved: one that is in neither place nor sent is in the    *)
(* hand of the copy, which is then about to write it.                       *)
Conserved ==
    /\ sent + pipe <= Chunks - left /\ Chunks - left <= sent + pipe + 1
    /\ main = "read" => sent + pipe = Chunks - left
    /\ main = "write" => sent + pipe + 1 = Chunks - left
    /\ writer = "finished" => left = 0 /\ sent + pipe = Chunks

(* The copy is under way only as long as its writer is open.                *)
Copying == main \in {"read", "write"} => writer = "open"

(* The handler's body ends when its writer has finished and the pipe is     *)
(* empty, unless the reader failed.                                         *)
Ended == eof /\ body = "handler" /\ writer # "failed" => writer = "finished" /\ pipe = 0

LEMMA Typing == TypeOK <=> Flags /\ Places /\ Counts
  BY DEF TypeOK, Flags, Places, Counts

IInv == Flags /\ Places /\ Counts /\ Conserved /\ Copying /\ Ended

LEMMA IInvInit == Init => IInv
<1>. SUFFICES ASSUME Init PROVE IInv
  OBVIOUS
<1>1. Flags /\ Places /\ Copying /\ Ended
  BY DEF Init, Flags, Places, Copying, Ended
<1>2. Counts /\ Conserved
  BY BoundsAssumption DEF Init, Counts, Conserved
<1>. QED  BY <1>1, <1>2 DEF IInv

LEMMA FlagsStep == ASSUME Flags, Next PROVE Flags'
<1>. USE DEF Flags, mainVars, pipeVars, agentVars, Continue, EndWriter
<1>1. CASE MainStep \/ ReadInterrupted \/ ReadFails
  BY <1>1 DEF MainStep, PollPending, PollReady, PollError, ReadChunk, ReadEnd, WriteChunk,
              WritePending, WriteFails, DropResponse, Unpark, ReadInterrupted, ReadFails
<1>2. CASE Upload \/ UploadAborts \/ Answer \/ Fail \/ Succeed \/ DropHandler
  BY <1>2 DEF Upload, UploadChunk, UploadEnds, UploadPauses, UploadAborts, Answer, Fail, Succeed, DropHandler
<1>. QED  BY <1>1, <1>2 DEF Next

LEMMA PlacesStep == ASSUME Places, Copying, Next PROVE Places' /\ Copying'
<1>. USE DEF Places, Copying, mainVars, pipeVars, agentVars, Continue, EndWriter
<1>1. CASE MainStep \/ ReadInterrupted \/ ReadFails
  BY <1>1 DEF MainStep, PollPending, PollReady, PollError, ReadChunk, ReadEnd, WriteChunk,
              WritePending, WriteFails, DropResponse, Unpark, ReadInterrupted, ReadFails
<1>2. CASE Upload \/ UploadAborts \/ Answer \/ Fail \/ Succeed \/ DropHandler
  BY <1>2 DEF Upload, UploadChunk, UploadEnds, UploadPauses, UploadAborts, Answer, Fail, Succeed, DropHandler
<1>. QED  BY <1>1, <1>2 DEF Next

LEMMA CountsStep == ASSUME Places, Counts, Conserved, Copying, Next PROVE Counts' /\ Conserved'
<1>. USE BoundsAssumption DEF Places, Counts, Conserved, Copying, Holding, Continue, EndWriter, mainVars, pipeVars, agentVars
<1>1. CASE PollPending
  BY <1>1 DEF PollPending
<1>2. CASE PollReady
  BY <1>2 DEF PollReady
<1>3. CASE PollError
  BY <1>3 DEF PollError
<1>4. CASE ReadChunk
  BY <1>4 DEF ReadChunk
<1>5. CASE ReadEnd
  BY <1>5 DEF ReadEnd
<1>6. CASE WriteChunk
  BY <1>6 DEF WriteChunk
<1>7. CASE WritePending \/ WriteFails
  BY <1>7 DEF WritePending, WriteFails
<1>8. CASE DropResponse \/ Unpark
  BY <1>8 DEF DropResponse, Unpark
<1>9. CASE ReadInterrupted \/ ReadFails
  BY <1>9 DEF ReadInterrupted, ReadFails
<1>10. CASE UploadChunk
  BY <1>10 DEF UploadChunk
<1>11. CASE UploadEnds \/ UploadPauses \/ UploadAborts \/ Answer \/ Fail \/ Succeed \/ DropHandler
  BY <1>11 DEF UploadEnds, UploadPauses, UploadAborts, Answer, Fail, Succeed, DropHandler
<1>. QED  BY <1>1, <1>2, <1>3, <1>4, <1>5, <1>6, <1>7, <1>8, <1>9, <1>10, <1>11 DEF Next, MainStep, Upload

LEMMA EndedStep == ASSUME Places, Copying, Ended, Next PROVE Ended'
<1>. USE DEF Places, Copying, Ended, mainVars, pipeVars, agentVars, Continue, EndWriter
<1>1. CASE MainStep \/ ReadInterrupted \/ ReadFails
  BY <1>1 DEF MainStep, PollPending, PollReady, PollError, ReadChunk, ReadEnd, WriteChunk,
              WritePending, WriteFails, DropResponse, Unpark, ReadInterrupted, ReadFails
<1>2. CASE Upload
  BY <1>2 DEF Upload, UploadChunk, UploadEnds, UploadPauses, Uploads
<1>3. CASE UploadAborts \/ Answer \/ Fail \/ Succeed \/ DropHandler
  BY <1>3 DEF UploadAborts, Answer, Fail, Succeed, DropHandler
<1>. QED  BY <1>1, <1>2, <1>3 DEF Next

THEOREM Invariant == Spec => []IInv
<1>1. ASSUME IInv, Next PROVE IInv'
  BY <1>1, FlagsStep, PlacesStep, CountsStep, EndedStep DEF IInv
<1>2. ASSUME IInv, UNCHANGED vars PROVE IInv'
  BY <1>2 DEF IInv, Flags, Places, Counts, Conserved, Copying, Ended, vars, mainVars, pipeVars, agentVars
<1>. QED  BY <1>1, <1>2, IInvInit, PTL DEF Spec

(* Types are kept: in particular the pipe never holds more than PipeSize    *)
(* chunks, and curl never reads more than the reader gave.                  *)
THEOREM TypeCorrect == Spec => []TypeOK
<1>1. IInv => TypeOK
  BY Typing DEF IInv
<1>. QED  BY <1>1, Invariant, PTL

(* A request body that ends, while the handler has it and its reader did    *)
(* not fail, has been sent with all its chunks.                             *)
THEOREM UploadsAreWhole == Spec => []UploadIsWhole
<1>1. ASSUME IInv, eof, body = "handler", writer # "failed" PROVE sent = Chunks
  <2>1. writer = "finished" /\ pipe = 0
    BY <1>1 DEF IInv, Ended
  <2>. QED  BY <1>1, <2>1, BoundsAssumption DEF IInv, Counts, Conserved
<1>2. IInv => UploadIsWhole
  BY <1>1 DEF UploadIsWhole
<1>. QED  BY <1>2, Invariant, PTL
=============================================================================
