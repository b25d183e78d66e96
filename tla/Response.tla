------------------------------- MODULE Response -------------------------------
(***************************************************************************)
(* The end of an exchange: the body that invoke (client.rs) makes of a      *)
(* response, and the readers of response.rs and text.rs, chunk by chunk.    *)
(*                                                                          *)
(* A byte is "a", "lead" or "cont": in UTF-8 "a" is a character and the     *)
(* other two make one together; in windows-1252 each is a character.        *)
(* External: encoding_rs, and what curl delivers (Deliverable).             *)
(***************************************************************************)
EXTENDS Errors, Naturals, Sequences, SequencesExt

CONSTANTS
    Reply,        \* what a server and curl may answer
    ChunkSize     \* bound on the bytes of one read

Byte == {"a", "lead", "cont"}
Consumer == {"copy_to", "bytes", "consume", "text"}

(* Two character sets, and a name that is none. *)
ASSUME ReplyAssumption ==
    /\ Reply \subseteq [length : Nat \cup {None}, encoding : STRING \cup {None},
                       charset : {None, "unheard-of", "utf-8", "windows-1252"},
                       bytes : Seq(Byte), fate : STRING]
    /\ None \notin Consumer /\ ChunkSize \in Nat

VARIABLES
    reply,        \* the response, None until its headers are there
    body,         \* AsyncBody: its kind and the length it tells
    reader,       \* the method that consumes the body
    decoder,      \* encoding, text so far, and whether a lead byte is pending
    taken,        \* bytes read
    answer        \* what the method returned

responseVars == <<reply, body, reader, decoder, taken, answer>>

NoDecoder == [encoding |-> None, text |-> <<>>, pending |-> FALSE]

ResponseInit ==
    /\ reply = None /\ body = None /\ reader = None
    /\ decoder = NoDecoder /\ taken = 0 /\ answer = None

(* A reply is [length, encoding, charset, bytes, fate]: two headers, the    *)
(* charset of a third, what curl delivers, and how the transfer ends, "ok", *)
(* "unfinished" or a code of curl.  Without decoding, a whole transfer has  *)
(* the length its header says; a response to HEAD has no bytes.             *)
Deliverable(r, head, decodes) ==
    /\ head => r.bytes = <<>>
    /\ ~head /\ r.fate = "ok" /\ r.length # None /\ ~(decodes /\ r.encoding \notin {None, "identity"})
           => Len(r.bytes) = r.length

(* mutant: the length of the header is always passed on *)
KnownLengthUnfiltered(r, decompression) == r.length

KnownLength(r, decompression) ==
    IF decompression /\ r.encoding \notin {None, "identity"} THEN None ELSE r.length

Respond(r, head, decompression) ==
    /\ reply = None
    /\ reply' = r
    /\ body' = IF head THEN [kind |-> "empty", length |-> 0]
               ELSE [kind |-> "reader", length |-> KnownLength(r, decompression)]
    /\ UNCHANGED <<reader, decoder, taken, answer>>

(* Decoder::for_response *)
Encoding(charset) == IF charset \in {None, "unheard-of"} THEN "utf-8" ELSE charset

Consume(method) ==
    /\ reply # None /\ reader = None
    /\ reader' = method
    /\ decoder' = IF method = "text" THEN [NoDecoder EXCEPT !.encoding = Encoding(reply.charset)] ELSE NoDecoder
    /\ UNCHANGED <<reply, body, taken, answer>>

Alone(b) == CASE b = "a" -> <<"a">> [] b = "lead" -> <<>> [] b = "cont" -> <<"replacement">>

Decode(d, b) ==
    CASE d.encoding = "windows-1252" -> [d EXCEPT !.text = Append(@, b)]
      [] d.encoding = "utf-8" /\ d.pending /\ b = "cont" -> [d EXCEPT !.text = Append(@, "character"), !.pending = FALSE]
      [] OTHER -> [d EXCEPT !.text = @ \o (IF d.pending THEN <<"replacement">> ELSE <<>>) \o Alone(b),
                            !.pending = b = "lead"]

Finish(d) == d.text \o IF d.pending THEN <<"replacement">> ELSE <<>>

(* mutant: what is pending at the end of a chunk is not a part of the next  *)
PushWhole(d, chunk) ==
    LET pushed == FoldLeft(Decode, d, chunk) IN [pushed EXCEPT !.text = Finish(pushed), !.pending = FALSE]

(* Decoder::push: encoding_rs takes the whole chunk. *)
Push(d, chunk) == FoldLeft(Decode, d, chunk)

Rest == IF body.kind = "empty" THEN <<>> ELSE SubSeq(reply.bytes, taken + 1, Len(reply.bytes))

Read(n) ==
    /\ reader # None /\ answer = None /\ n <= Len(Rest)
    /\ taken' = taken + n
    /\ decoder' = IF reader = "text" THEN Push(decoder, SubSeq(Rest, 1, n)) ELSE decoder
    /\ UNCHANGED <<reply, body, reader, answer>>

(* ResponseBodyReader::poll_read at the end of the pipe. *)
EndOfPipe ==
    CASE reply.fate = "ok" \/ body.kind = "empty" -> None
      [] reply.fate = "unfinished" /\ body.kind # "empty" -> Aborted
      [] OTHER -> ToIo(KindOf(reply.fate))

ReadEof ==
    /\ reader # None /\ answer = None /\ Rest = <<>>
    /\ EndOfPipe = None
    /\ answer' = [ok |-> TRUE, count |-> taken, text |-> Finish(decoder), kind |-> None]
    /\ UNCHANGED <<reply, body, reader, decoder, taken>>

(* The io::Error of the method, made an Error by the caller's "?". *)
ReadFails ==
    /\ reader # None /\ answer = None /\ Rest = <<>>
    /\ EndOfPipe # None
    /\ answer' = [ok |-> FALSE, count |-> taken, text |-> <<>>, kind |-> FromIo(EndOfPipe)]
    /\ UNCHANGED <<reply, body, reader, decoder, taken>>

Receive ==
    \/ \E method \in Consumer : Consume(method)
    \/ \E n \in 1..ChunkSize : Read(n)
    \/ ReadEof \/ ReadFails

----------------------------------------------------------------------------
(* The text of a whole body, by position, whatever its chunks were.         *)
Symbol(bytes, i) ==
    CASE bytes[i] = "a" -> <<"a">>
      [] bytes[i] = "lead" -> IF i < Len(bytes) /\ bytes[i + 1] = "cont" THEN <<"character">> ELSE <<"replacement">>
      [] bytes[i] = "cont" -> IF i > 1 /\ bytes[i - 1] = "lead" THEN <<>> ELSE <<"replacement">>

TextOf(bytes, encoding) ==
    IF encoding = "windows-1252" THEN bytes
    ELSE FlattenSeq([i \in 1..Len(bytes) |-> Symbol(bytes, i)])

Answered == answer # None

(* A reader that succeeds has read the whole body of a transfer that ended  *)
(* well, and its text is the text of that body: no chunk boundary is seen.  *)
AnswerIsWhole ==
    Answered /\ answer.ok /\ body.kind # "empty" =>
        /\ reply.fate = "ok" /\ answer.count = Len(reply.bytes)
        /\ reader = "text" => answer.text = TextOf(reply.bytes, Encoding(reply.charset))

(* The length a body tells is the number of bytes it gives, even when curl  *)
(* decompresses them.                                                       *)
LengthIsRead == Answered /\ answer.ok /\ body.length # None => answer.count = body.length

(* An error that ends a body reaches the caller with the kind it had, after *)
(* a conversion to io::Error and back; only a body cut off has none.        *)
ErrorKeepsKind ==
    Answered /\ ~answer.ok =>
        answer.kind = IF reply.fate = "unfinished" THEN "Io" ELSE KindOf(reply.fate)
=============================================================================
