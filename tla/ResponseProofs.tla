--------------------------- MODULE ResponseProofs ----------------------------
(****************************************************************************)
(* Proofs about the readers of a response and about metrics, as steps of    *)
(* Client: for every reply, every size of the chunks and every interleaving *)
(* of the observer with the transfer.                                       *)
(*                                                                          *)
(* FoldLeft and FlattenSeq are defined by recursive functions: that these   *)
(* exist, and what they are at each number, is proved by SetInduction.      *)
(****************************************************************************)
EXTENDS ConfigureProofs

(* The stages of a transfer, and the cells their times are stored in.       *)
LEMMA Stages ==
    /\ Cell = {"namelookup", "connect", "appconnect", "starttransfer", "total"}
    /\ Len(Stage) = 5
    /\ Stage[1] = "namelookup" /\ Stage[2] = "connect" /\ Stage[3] = "appconnect"
    /\ Stage[4] = "starttransfer" /\ Stage[5] = "total"
<1>1. Len(Stage) = 5 /\ DOMAIN Stage = 1..5
  BY DEF Stage
<1>2. /\ Stage[1] = "namelookup" /\ Stage[2] = "connect" /\ Stage[3] = "appconnect"
      /\ Stage[4] = "starttransfer" /\ Stage[5] = "total"
  BY DEF Stage
<1> QED
  BY <1>1, <1>2 DEF Cell

(* The types of the clock.                                                  *)
ClockTypes ==
    /\ times \in [Cell -> Nat] /\ cells \in [Cell -> Nat] /\ stored \in 0..4 /\ tls \in BOOLEAN
    /\ observer \in [of : Duration \cup {"none"}, first : Nat, result : Nat]

(* The invariant behind DurationsAreNotNegative: a cell has its stage's     *)
(* time or nothing, a stage of TLS comes after the connection, and an       *)
(* observer that saw the end of TLS will see the connection, because        *)
(* progress stores the cells in the order of the stages.                    *)
Clock ==
    /\ ClockTypes
    /\ \A c \in Cell : times[c] <= times["total"] /\ cells[c] <= times[c]
    /\ times["appconnect"] # 0 => times["connect"] # 0 /\ times["connect"] <= times["appconnect"]
    /\ \A c \in Cell \ {"total"} : cells[c] \in {0, times[c]}
    /\ \A i \in 1..stored : cells[Stage[i]] = times[Stage[i]]
    /\ cells["appconnect"] # 0 => cells["connect"] = times["connect"]
    /\ observer.of = "secure_connect_time" =>
           observer.first # 0 /\ observer.first = times["appconnect"] /\ cells["connect"] = times["connect"]

(* A stage that is reached takes the latest time.                           *)
LEMMA AdvanceKeepsClock ==
    ASSUME Clock, NEW reached \in 0..4, Advance(reached)
    PROVE  Clock'
<1> DEFINE now == times["total"] + 1
           hit == {i \in 1..reached : times[Stage[i]] = 0 /\ (tls \/ Stage[i] # "appconnect")}
           Hit(c) == \E i \in hit : Stage[i] = c
<1>1. /\ stored = 0 /\ UNCHANGED <<cells, stored, tls, observer>>
      /\ times' = [c \in Cell |-> IF c = "total" \/ Hit(c) THEN now ELSE times[c]]
  BY DEF Advance
<1>2. /\ \A c \in Cell : Hit(c) => times[c] = 0 /\ c # "total"
      /\ Hit("appconnect") => Hit("connect") \/ times["connect"] # 0
  BY Stages
<1>3. now \in Nat /\ times' \in [Cell -> Nat] /\ \A c \in Cell : times[c] < now
  BY <1>1, Stages DEF Clock, ClockTypes
<1> HIDE DEF now, Hit, hit
<1>4. /\ times'["total"] = now
      /\ \A c \in Cell : times'[c] = now \/ (times'[c] = times[c] /\ ~Hit(c))
      /\ \A c \in Cell : c # "total" /\ times'[c] # times[c] => times[c] = 0 /\ times'[c] = now /\ Hit(c)
  BY <1>1, <1>2, <1>3, Stages
<1>5. ClockTypes'
  BY <1>1, <1>3 DEF Clock, ClockTypes
<1>6. \A c \in Cell : times'[c] <= times'["total"] /\ cells'[c] <= times'[c]
  BY <1>1, <1>3, <1>4, Stages DEF Clock, ClockTypes
<1>7. times'["appconnect"] # 0 => times'["connect"] # 0 /\ times'["connect"] <= times'["appconnect"]
  BY <1>1, <1>2, <1>3, <1>4, Stages DEF Clock, ClockTypes
<1>8. \A c \in Cell \ {"total"} : cells'[c] \in {0, times'[c]}
  BY <1>1, <1>3, <1>4, Stages DEF Clock, ClockTypes
<1>9. cells'["appconnect"] # 0 => cells'["connect"] = times'["connect"]
  BY <1>1, <1>3, <1>4, Stages DEF Clock, ClockTypes
<1>10. observer'.of = "secure_connect_time" =>
           observer'.first # 0 /\ observer'.first = times'["appconnect"] /\ cells'["connect"] = times'["connect"]
  BY <1>1, <1>3, <1>4, Stages DEF Clock, ClockTypes
<1> QED
  BY <1>1, <1>5, <1>6, <1>7, <1>8, <1>9, <1>10 DEF Clock

(* One store of progress: the cell of the connection is stored before that  *)
(* of TLS.                                                                  *)
LEMMA StoreKeepsClock ==
    ASSUME Clock, Store
    PROVE  Clock'
<1> DEFINE c == Stage[stored + 1]
<1>1. UNCHANGED <<times, tls, observer>> /\ cells' = [cells EXCEPT ![c] = times[c]]
  BY DEF Store
<1>2. stored' = IF stored = 4 THEN 0 ELSE stored + 1
  BY Stages DEF Store, Clock, ClockTypes
<1>3. c \in Cell /\ (c = "appconnect" => stored = 2)
  BY Stages DEF Clock, ClockTypes
<1>4. ClockTypes'
  BY <1>1, <1>2, <1>3 DEF Clock, ClockTypes
<1>5. \A i \in 1..stored' : cells'[Stage[i]] = times'[Stage[i]]
  BY <1>1, <1>2, <1>3, Stages DEF Clock, ClockTypes
<1>6. \A d \in Cell : cells'[d] = IF d = c THEN times[d] ELSE cells[d]
  BY <1>1, <1>3 DEF Clock, ClockTypes
<1> HIDE DEF c
<1>7. \A d \in Cell : times'[d] <= times'["total"] /\ cells'[d] <= times'[d]
  BY <1>1, <1>6, Stages DEF Clock, ClockTypes
<1>8. \A d \in Cell \ {"total"} : cells'[d] \in {0, times'[d]}
  BY <1>1, <1>6 DEF Clock
<1>9. cells'["appconnect"] # 0 => cells'["connect"] = times'["connect"]
  BY <1>1, <1>3, <1>6, Stages DEF Clock
<1>10. cells["connect"] = times["connect"] => cells'["connect"] = times'["connect"]
  BY <1>1, <1>6, Stages
<1> QED
  BY <1>1, <1>4, <1>5, <1>7, <1>8, <1>9, <1>10 DEF Clock

(* The first load of a duration: that of TLS is taken only when it is not   *)
(* zero.                                                                    *)
LEMMA LoadKeepsClock ==
    ASSUME Clock, NEW duration \in Duration, Load(duration)
    PROVE  Clock'
<1> DEFINE c == CASE duration = "connect_time" -> "connect"
                  [] duration = "secure_connect_time" -> "appconnect"
                  [] duration = "transfer_time" -> "total"
<1>1. /\ UNCHANGED <<times, cells, stored, tls>>
      /\ observer' = IF duration = "secure_connect_time" /\ cells[c] = 0
                     THEN [observer EXCEPT !.result = 0]
                     ELSE [observer EXCEPT !.of = duration, !.first = cells[c]]
      /\ observer.of = "none"
  BY DEF Load
<1>2. c \in Cell /\ (duration = "secure_connect_time" => c = "appconnect")
  BY Stages DEF Duration
<1> HIDE DEF c
<1>3. observer' \in [of : Duration \cup {"none"}, first : Nat, result : Nat]
  BY <1>1, <1>2 DEF Clock, ClockTypes
<1>4. observer'.of = "secure_connect_time" => duration = "secure_connect_time" /\ cells[c] # 0 /\ observer'.first = cells[c]
  BY <1>1, <1>2 DEF Clock, ClockTypes
<1>5. observer'.of = "secure_connect_time" =>
          observer'.first # 0 /\ observer'.first = times'["appconnect"] /\ cells'["connect"] = times'["connect"]
  BY <1>1, <1>2, <1>4, Stages DEF Clock
<1> QED
  BY <1>1, <1>3, <1>5 DEF Clock, ClockTypes

(* The second load: the time of the connection is there, and is not later   *)
(* than that of TLS; the other differences saturate.                        *)
LEMMA ComputeKeepsClock ==
    ASSUME Clock, Compute
    PROVE  Clock'
<1> DEFINE c == CASE observer.of = "connect_time" -> "namelookup"
                  [] observer.of = "secure_connect_time" -> "connect"
                  [] observer.of = "transfer_time" -> "starttransfer"
           difference == Difference(observer.of, observer.first, cells[c])
<1>1. /\ UNCHANGED <<times, cells, stored, tls>>
      /\ observer' = [of |-> "none", first |-> 0, result |-> difference]
      /\ observer.of # "none"
  BY DEF Compute
<1>2. c \in Cell /\ (observer.of = "secure_connect_time" => c = "connect") /\ observer.first \in Nat /\ cells[c] \in Nat
  BY <1>1, Stages DEF Duration, Clock, ClockTypes
<1> HIDE DEF c
<1>3. observer.of = "secure_connect_time" => cells[c] <= observer.first
  BY <1>2, Stages DEF Clock, ClockTypes
<1>4. difference \in Nat
  BY <1>2, <1>3 DEF Difference
<1> HIDE DEF difference
<1> QED
  BY <1>1, <1>4 DEF Clock, ClockTypes

(* Every step of the client keeps Clock.                                    *)
LEMMA ClockStep == Clock /\ [Next]_clientVars => Clock'
<1> SUFFICES ASSUME Clock, [Next]_clientVars PROVE Clock'
  OBVIOUS
<1>1. CASE UNCHANGED metricsVars
  BY <1>1 DEF metricsVars, Clock, ClockTypes
<1>2. ASSUME NEW secure \in BOOLEAN, Watch(secure) PROVE Clock'
  BY <1>2 DEF Watch, Clock, ClockTypes
<1>3. CASE Observe
  BY <1>3, AdvanceKeepsClock, StoreKeepsClock, LoadKeepsClock, ComputeKeepsClock DEF Observe
<1> QED
  BY <1>1, <1>2, <1>3 DEF Next, Submit, ExchangeFails, HeadersCome, clientVars

(* A duration read from another thread while the transfer updates the       *)
(* metrics is never negative, which Duration::from_secs_f64 panics on       *)
(* (metrics.rs), for every interleaving of the stores of progress with the  *)
(* two loads of an observer, and for any length of the transfer.            *)
THEOREM DurationsAreTaken == Spec => []DurationsAreNotNegative
<1>1. Init => Clock
  <2> SUFFICES ASSUME Init PROVE Clock
    OBVIOUS
  <2>1. /\ times = [c \in Cell |-> 0] /\ cells = [c \in Cell |-> 0] /\ stored = 0 /\ tls = FALSE
        /\ observer = [of |-> "none", first |-> 0, result |-> 0]
    BY DEF Init, MetricsInit
  <2>2. ClockTypes
    <3>1. observer.of \in Duration \cup {"none"} /\ observer = [of |-> observer.of, first |-> 0, result |-> 0]
      BY <2>1
    <3>2. observer \in [of : Duration \cup {"none"}, first : Nat, result : Nat]
      BY <3>1
    <3>3. times \in [Cell -> Nat] /\ cells \in [Cell -> Nat] /\ stored \in 0..4
      BY <2>1
    <3>4. tls \in BOOLEAN
      BY <2>1
    <3> QED
      BY <3>2, <3>3, <3>4 DEF ClockTypes
  <2>3. \A c \in Cell : times[c] = 0 /\ cells[c] = 0
    BY <2>1
  <2> QED
    BY <2>1, <2>2, <2>3, Stages DEF Clock
<1>2. Clock => DurationsAreNotNegative
  BY DEF Clock, ClockTypes, DurationsAreNotNegative
<1> QED
  BY <1>1, <1>2, ClockStep, PTL DEF Spec

----------------------------------------------------------------------------
(* A body is made of a reply that curl can deliver, and tells the length of *)
(* its header unless it decompresses.                                       *)
Responded ==
    reply # None =>
        /\ reply \in Reply
        /\ \E head, decodes, decompression \in BOOLEAN :
              /\ decodes => decompression
              /\ Deliverable(reply, head, decodes)
              /\ body = IF head THEN [kind |-> "empty", length |-> 0]
                        ELSE [kind |-> "reader", length |-> KnownLength(reply, decompression)]

(* The bytes that a body gives.                                             *)
Available == IF body.kind = "empty" THEN 0 ELSE Len(reply.bytes)

(* A reader has taken no more bytes than there are, and all of them when it *)
(* answers, with what the end of the pipe says.                             *)
Reads ==
    /\ taken \in Nat /\ (reader \notin {None, "watch"} => reply # None /\ taken <= Available)
    /\ reader \in {None, "watch"} => answer = None /\ taken = 0
    /\ answer # None =>
           /\ taken = Available
           /\ answer = IF EndOfPipe = None THEN [ok |-> TRUE, count |-> taken, text |-> Finish(decoder), kind |-> None]
                       ELSE [ok |-> FALSE, count |-> taken, text |-> <<>>, kind |-> FromIo(EndOfPipe)]

(* The rest of a body is as long as what has not been taken.                *)
LEMMA RestLength ==
    ASSUME Responded, Reads, reader \notin {None, "watch"}
    PROVE  Rest \in Seq(Byte) /\ Len(Rest) = Available - taken /\ Available \in Nat
<1>1. reply \in Reply /\ reply # None
  BY DEF Responded, Reads
<1>2. reply.bytes \in Seq(Byte)
  BY <1>1, ReplyAssumption
<1>3. CASE body.kind = "empty"
  BY <1>3 DEF Rest, Available, Reads
<1>4. CASE body.kind # "empty"
  <2>1. taken \in Nat /\ taken <= Len(reply.bytes)
    BY <1>4 DEF Available, Reads
  <2> QED
    BY <1>2, <1>4, <2>1 DEF Rest, Available
<1> QED
  BY <1>3, <1>4

(* Every step of the client keeps Responded.                                *)
LEMMA RespondedStep == Framed /\ Responded /\ [Next]_clientVars => Responded'
<1> SUFFICES ASSUME Framed, Responded, [Next]_clientVars PROVE Responded'
  OBVIOUS
<1>1. CASE UNCHANGED <<reply, body>>
  BY <1>1 DEF Responded, Deliverable, KnownLength
<1>2. ASSUME NEW r \in Reply, HeadersCome(r) PROVE Responded'
  <2> DEFINE head == http.method = "HEAD"
             decodes == http.decodes
             decompression == http.decompression
  <2>1. /\ Deliverable(r, head, decodes) /\ reply' = r
        /\ body' = IF head THEN [kind |-> "empty", length |-> 0]
                   ELSE [kind |-> "reader", length |-> KnownLength(r, decompression)]
    BY <1>2 DEF HeadersCome, Respond
  <2>2. head \in BOOLEAN /\ decodes \in BOOLEAN /\ decompression \in BOOLEAN /\ (decodes => decompression)
    BY <1>2 DEF HeadersCome, Framed
  <2> HIDE DEF head, decodes, decompression
  <2> QED
    BY <2>1, <2>2 DEF Responded
<1>3. ASSUME NEW method, Consume(method) PROVE Responded'
  BY <1>1, <1>3 DEF Consume
<1>4. ASSUME NEW n, Read(n) PROVE Responded'
  BY <1>1, <1>4 DEF Read
<1>5. CASE ReadEof \/ ReadFails
  BY <1>1, <1>5 DEF ReadEof, ReadFails
<1> QED
  BY <1>1, <1>2, <1>3, <1>4, <1>5 DEF Next, Submit, ExchangeFails, Watch, Receive, clientVars, responseVars

(* Every step of the client keeps Reads.                                    *)
LEMMA ReadsStep == Responded /\ Reads /\ [Next]_clientVars => Reads'
<1> SUFFICES ASSUME Responded, Reads, [Next]_clientVars PROVE Reads'
  OBVIOUS
<1>1. CASE UNCHANGED <<reply, body, reader, decoder, taken, answer>>
  BY <1>1 DEF Reads, Available, EndOfPipe
<1>2. ASSUME NEW r, HeadersCome(r) PROVE Reads'
  <2>1. UNCHANGED <<reader, decoder, taken, answer>> /\ reader \in {None, "watch"}
    BY <1>2 DEF HeadersCome, Respond, Reads
  <2> QED
    BY <2>1 DEF Reads
<1>3. ASSUME NEW method, method # None, Consume(method) PROVE Reads'
  BY <1>3 DEF Consume, Reads, Available
<1>4. ASSUME NEW n \in 1..ChunkSize, Read(n), reader # "watch" PROVE Reads'
  <2>1. n <= Len(Rest) /\ taken' = taken + n /\ UNCHANGED <<reply, body, reader, answer>> /\ answer = None /\ reader # None
    BY <1>4 DEF Read
  <2>2. Available' = Available
    BY <2>1 DEF Available
  <2>3. n \in Nat
    BY ReplyAssumption
  <2>4. Len(Rest) = Available - taken /\ Available \in Nat
    BY <1>4, <2>1, RestLength
  <2> QED
    BY <1>4, <2>1, <2>2, <2>3, <2>4 DEF Reads
<1>5. CASE (ReadEof \/ ReadFails) /\ reader # "watch"
  <2>1. Rest = <<>> /\ reader # None /\ UNCHANGED <<reply, body, reader, decoder, taken>>
    BY <1>5 DEF ReadEof, ReadFails
  <2>2. taken = Available
    <3>1. Len(Rest) = Available - taken /\ Available \in Nat /\ Len(Rest) = 0
      BY <1>5, <2>1, RestLength
    <3> QED
      BY <3>1 DEF Reads
  <2>3. answer' = IF EndOfPipe = None THEN [ok |-> TRUE, count |-> taken, text |-> Finish(decoder), kind |-> None]
                  ELSE [ok |-> FALSE, count |-> taken, text |-> <<>>, kind |-> FromIo(EndOfPipe)]
    BY <1>5 DEF ReadEof, ReadFails
  <2> QED
    BY <1>5, <2>1, <2>2, <2>3 DEF Reads, Available, EndOfPipe
<1>6. ASSUME NEW secure, Watch(secure) PROVE Reads'
  BY <1>6 DEF Watch, Reads, Available
<1>7. \A method \in Consumer : method # None
  BY ReplyAssumption
<1> QED
  BY <1>1, <1>2, <1>3, <1>4, <1>5, <1>6, <1>7 DEF Next, Submit, ExchangeFails, Receive, clientVars, responseVars

(* A code of curl becomes one of the kinds of Error.                        *)
LEMMA KindsAreKinds == ASSUME NEW code PROVE KindOf(code) \in ErrorKind
BY DEF KindOf, ErrorKind

(* An error of a body is an io::Error, and the two conversions keep its     *)
(* kind.                                                                    *)
LEMMA IoErrors ==
    /\ Aborted # None /\ FromIo(Aborted) = "Io"
    /\ \A kind \in ErrorKind : ToIo(kind) # None /\ FromIo(ToIo(kind)) = kind
<1>1. /\ None \notin ErrorKind
      /\ None \notin [io : IoKind, inner : ErrorKind \cup {None}]
  BY NoneAssumption
<1>2. Aborted \in [io : IoKind, inner : ErrorKind \cup {None}]
  BY DEF Aborted, IoKind
<1>3. ASSUME NEW kind \in ErrorKind PROVE ToIo(kind) \in [io : IoKind, inner : ErrorKind \cup {None}]
  BY DEF ToIo, IoKind
<1>4. FromIo(Aborted) = "Io"
  BY DEF FromIo, Aborted
<1>5. ASSUME NEW kind \in ErrorKind PROVE FromIo(ToIo(kind)) = kind
  BY <1>1 DEF FromIo, ToIo
<1> QED
  BY <1>1, <1>2, <1>3, <1>4, <1>5

(* How a body ends, and what has been read by then.                         *)
LEMMA Ending ==
    ASSUME Responded, Reads, Answered
    PROVE  /\ reader \notin {None, "watch"} /\ reply # None /\ taken = Available
           /\ answer.ok => /\ answer.count = taken /\ answer.text = Finish(decoder)
                           /\ reply.fate = "ok" \/ body.kind = "empty"
           /\ ~answer.ok => /\ body.kind # "empty"
                            /\ answer.kind = IF reply.fate = "unfinished" THEN "Io" ELSE KindOf(reply.fate)
<1>1. /\ reader \notin {None, "watch"} /\ reply # None /\ taken = Available
      /\ answer = IF EndOfPipe = None THEN [ok |-> TRUE, count |-> taken, text |-> Finish(decoder), kind |-> None]
                  ELSE [ok |-> FALSE, count |-> taken, text |-> <<>>, kind |-> FromIo(EndOfPipe)]
  BY DEF Reads, Answered
<1>2. EndOfPipe = None <=> reply.fate = "ok" \/ body.kind = "empty"
  BY IoErrors, KindsAreKinds DEF EndOfPipe
<1>3. EndOfPipe # None => FromIo(EndOfPipe) = IF reply.fate = "unfinished" THEN "Io" ELSE KindOf(reply.fate)
  BY <1>2, IoErrors, KindsAreKinds DEF EndOfPipe
<1>4. CASE EndOfPipe = None
  BY <1>1, <1>2, <1>4
<1>5. CASE EndOfPipe # None
  BY <1>1, <1>2, <1>3, <1>5
<1> QED
  BY <1>4, <1>5

(* A reader keeps to its body.                                              *)
LEMMA ReadsInvariant == Spec => [](Responded /\ Reads)
<1>1. Init => Responded /\ Reads
  BY DEF Init, ResponseInit, Responded, Reads
<1>2. Framed /\ Responded /\ Reads /\ [Next]_clientVars => Responded' /\ Reads'
  BY RespondedStep, ReadsStep
<1> QED
  BY <1>1, <1>2, FramedInvariant, PTL DEF Spec

(* An error that ends a body reaches the caller of any of the readers with  *)
(* the kind that curl gave it, for every reply and every size of the        *)
(* chunks, though it is made an io::Error on the way and then an Error      *)
(* again (error.rs, response.rs); a body cut off without a code is an Io    *)
(* error.                                                                   *)
THEOREM ErrorsKeepKind == Spec => []ErrorKeepsKind
<1>1. Responded /\ Reads => ErrorKeepsKind
  BY Ending DEF ErrorKeepsKind
<1> QED
  BY <1>1, ReadsInvariant, PTL

(* A reader that succeeds has read as many bytes as the body told its       *)
(* length was, for every reply: invoke (client.rs) tells no length that     *)
(* decompression would make wrong, and an empty one for HEAD.               *)
THEOREM LengthsAreRead == Spec => []LengthIsRead
<1>1. ASSUME Responded, Reads, Answered, answer.ok, body.length # None
      PROVE  answer.count = body.length
  <2>1. /\ answer.count = Available /\ reply # None
        /\ reply.fate = "ok" \/ body.kind = "empty"
    BY <1>1, Ending
  <2>2. PICK head, decodes, decompression \in BOOLEAN :
            /\ decodes => decompression
            /\ Deliverable(reply, head, decodes)
            /\ body = IF head THEN [kind |-> "empty", length |-> 0]
                      ELSE [kind |-> "reader", length |-> KnownLength(reply, decompression)]
    BY <1>1, <2>1 DEF Responded
  <2>3. CASE head
    BY <2>1, <2>2, <2>3 DEF Available
  <2>4. CASE ~head
    <3>1. body.kind = "reader" /\ body.length = KnownLength(reply, decompression)
      BY <2>2, <2>4
    <3>2. reply.length # None /\ body.length = reply.length /\ ~(decodes /\ reply.encoding \notin {None, "identity"})
      BY <1>1, <2>2, <3>1 DEF KnownLength
    <3>3. Len(reply.bytes) = reply.length
      BY <2>1, <2>2, <2>4, <3>1, <3>2 DEF Deliverable
    <3> QED
      BY <2>1, <3>1, <3>2, <3>3 DEF Available
  <2> QED
    BY <2>3, <2>4
<1>2. Responded /\ Reads => LengthIsRead
  BY <1>1 DEF LengthIsRead
<1> QED
  BY <1>2, ReadsInvariant, PTL
----------------------------------------------------------------------------

(* The induction over numbers, for sets.                                    *)
LEMMA SetInduction ==
    ASSUME NEW S, 0 \in S, \A n \in Nat : n \in S => n + 1 \in S
    PROVE  \A n \in Nat : n \in S
<1> SUFFICES ASSUME NEW m \in Nat, m \notin S PROVE FALSE
  OBVIOUS
<1> DEFINE T == {n \in Nat : n \notin S}
<1>1. T \subseteq Nat /\ m \in T
  OBVIOUS
<1>2. PICK n \in T : \A k \in T : n <= k
  <2> HIDE DEF T
  <2> QED
    BY <1>1, LeastNumber
<1>3. n \in Nat /\ n \notin S
  OBVIOUS
<1>4. n # 0
  BY <1>3
<1>5. n - 1 \in Nat /\ n - 1 \notin T
  <2> HIDE DEF T
  <2> QED
    BY <1>2, <1>3, <1>4
<1>6. n - 1 \in S /\ (n - 1) + 1 = n
  BY <1>3, <1>5
<1> QED
  BY <1>3, <1>5, <1>6

(* G joins the first sequences of s, up to n of them.                       *)
Sums(G, s, n) == G = [i \in 0..n |-> IF i = 0 THEN <<>> ELSE G[i - 1] \o s[i]]

(* The function that joins them.                                            *)
Total(s, n) == CHOOSE G : Sums(G, s, n)

(* There is such a function.                                                *)
LEMMA SumsExist == ASSUME NEW s, NEW n \in Nat PROVE Sums(Total(s, n), s, n)
<1> DEFINE S == {k \in Nat : \E G : Sums(G, s, k)}
<1>1. 0 \in S
  <2> DEFINE G == [i \in 0..0 |-> <<>>]
  <2>1. G = [i \in 0..0 |-> IF i = 0 THEN <<>> ELSE G[i - 1] \o s[i]]
    OBVIOUS
  <2> HIDE DEF G
  <2> QED
    BY <2>1 DEF Sums
<1>2. ASSUME NEW k \in Nat, k \in S PROVE k + 1 \in S
  <2>1. PICK G : Sums(G, s, k)
    BY <1>2
  <2> DEFINE H == [i \in 0..(k + 1) |-> IF i = k + 1 THEN G[k] \o s[k + 1] ELSE G[i]]
  <2>2. \A i \in 0..k : G[i] = IF i = 0 THEN <<>> ELSE G[i - 1] \o s[i]
    BY <2>1 DEF Sums
  <2>3. ASSUME NEW i \in 0..(k + 1) PROVE H[i] = IF i = 0 THEN <<>> ELSE H[i - 1] \o s[i]
    <3>1. CASE i = k + 1
      <4>1. H[i] = G[k] \o s[k + 1] /\ H[k] = G[k] /\ i - 1 = k /\ i # 0
        BY <3>1
      <4> QED
        BY <3>1, <4>1
    <3>2. CASE i # k + 1
      BY <2>2, <3>2
    <3> QED
      BY <3>1, <3>2
  <2>4. H = [i \in 0..(k + 1) |-> IF i = 0 THEN <<>> ELSE H[i - 1] \o s[i]]
    BY <2>3
  <2> HIDE DEF H
  <2>5. Sums(H, s, k + 1)
    BY <2>4 DEF Sums
  <2> QED
    BY <2>5
<1> HIDE DEF S
<1>3. n \in S
  BY <1>1, <1>2, SetInduction
<1> QED
  BY <1>3 DEF S, Total

(* It begins with nothing and adds one sequence of s at each number.        *)
LEMMA TotalIs ==
    ASSUME NEW s, NEW n \in Nat
    PROVE  /\ Total(s, n)[0] = <<>>
           /\ \A i \in 1..n : Total(s, n)[i] = Total(s, n)[i - 1] \o s[i]
<1> DEFINE G == Total(s, n)
<1>1. G = [i \in 0..n |-> IF i = 0 THEN <<>> ELSE G[i - 1] \o s[i]]
  BY SumsExist DEF Sums
<1> HIDE DEF G
<1>2. \A i \in 0..n : G[i] = IF i = 0 THEN <<>> ELSE G[i - 1] \o s[i]
  BY <1>1
<1>3. G[0] = <<>>
  BY <1>2
<1>4. ASSUME NEW i \in 1..n PROVE G[i] = G[i - 1] \o s[i]
  <2>1. i \in 0..n /\ i # 0
    OBVIOUS
  <2> QED
    BY <1>2, <2>1
<1> QED
  BY <1>3, <1>4 DEF G

(* What it joins are sequences of what those are sequences of.              *)
LEMMA TotalType ==
    ASSUME NEW S, NEW n \in Nat, NEW s, \A i \in 1..n : s[i] \in Seq(S)
    PROVE  \A i \in 0..n : Total(s, n)[i] \in Seq(S)
<1> DEFINE P == {k \in Nat : k <= n => Total(s, n)[k] \in Seq(S)}
<1>1. 0 \in P
  <2>1. Total(s, n)[0] = <<>>
    BY TotalIs
  <2>2. <<>> \in Seq(S)
    OBVIOUS
  <2> QED
    BY <2>1, <2>2
<1>2. ASSUME NEW k \in Nat, k \in P PROVE k + 1 \in P
  <2> SUFFICES ASSUME k + 1 <= n PROVE Total(s, n)[k + 1] \in Seq(S)
    OBVIOUS
  <2>1. k + 1 \in 1..n /\ Total(s, n)[k] \in Seq(S)
    BY <1>2
  <2>2. Total(s, n)[k + 1] = Total(s, n)[k] \o s[k + 1]
    <3>1. Total(s, n)[k + 1] = Total(s, n)[(k + 1) - 1] \o s[k + 1]
      BY <2>1, TotalIs
    <3>2. (k + 1) - 1 = k
      OBVIOUS
    <3> QED
      BY <3>1, <3>2
  <2> QED
    BY <2>1, <2>2
<1> HIDE DEF P
<1>3. \A k \in Nat : k \in P
  BY <1>1, <1>2, SetInduction
<1> QED
  BY <1>3 DEF P

(* The function that FlattenSeq is defined by.                              *)
Flattens(f, s) == f = [i \in 1..Len(s) |-> IF i = 1 THEN s[i] ELSE f[i - 1] \o s[i]]

(* FlattenSeq joins all the sequences of s.                                 *)
LEMMA Flattened ==
    ASSUME NEW S, NEW s \in Seq(Seq(S))
    PROVE  FlattenSeq(s) = Total(s, Len(s))[Len(s)]
<1> DEFINE n == Len(s)
           G == Total(s, n)
<1>1. n \in Nat /\ \A i \in 1..n : s[i] \in Seq(S)
  OBVIOUS
<1>2. CASE n = 0
  <2>1. s = <<>> /\ FlattenSeq(s) = s
    BY <1>2 DEF FlattenSeq
  <2>2. Total(s, 0)[0] = <<>>
    BY TotalIs
  <2> QED
    BY <1>2, <2>1, <2>2
<1>3. CASE n # 0
  <2>1. FlattenSeq(s) = (CHOOSE f : Flattens(f, s))[n]
    BY <1>3, Zenon DEF FlattenSeq, Flattens
  <2>2. \E f : Flattens(f, s)
    <3> DEFINE f == [i \in 1..n |-> G[i]]
    <3>1. ASSUME NEW i \in 1..n PROVE f[i] = IF i = 1 THEN s[i] ELSE f[i - 1] \o s[i]
      <4>1. G[0] = <<>> /\ G[i] = G[i - 1] \o s[i] /\ f[i] = G[i]
        BY <1>1, TotalIs
      <4> HIDE DEF G
      <4>2. CASE i = 1
        <5>1. <<>> \o s[i] = s[i]
          BY <1>1
        <5>2. i - 1 = 0
          BY <4>2
        <5> QED
          BY <4>1, <4>2, <5>1, <5>2
      <4>3. CASE i # 1
        <5>1. i - 1 \in 1..n
          BY <1>1, <4>3
        <5>2. f[i - 1] = G[i - 1]
          BY <5>1
        <5> HIDE DEF f
        <5> QED
          BY <4>1, <4>3, <5>2
      <4> QED
        BY <4>2, <4>3
    <3>2. f = [i \in 1..n |-> IF i = 1 THEN s[i] ELSE f[i - 1] \o s[i]]
      BY <3>1
    <3> HIDE DEF f, G
    <3> QED
      BY <3>2 DEF Flattens
  <2> DEFINE f == CHOOSE f : Flattens(f, s)
  <2>3. \A i \in 1..n : f[i] = IF i = 1 THEN s[i] ELSE f[i - 1] \o s[i]
    <3>1. Flattens(f, s)
      BY <2>2
    <3> HIDE DEF f
    <3> QED
      BY <3>1 DEF Flattens
  <2> HIDE DEF f
  <2> DEFINE P == {k \in Nat : k + 1 \in 1..n => f[k + 1] = G[k + 1]}
  <2>4. 0 \in P
    <3> SUFFICES ASSUME 1 \in 1..n PROVE f[1] = G[1]
      OBVIOUS
    <3>1. f[1] = s[1]
      BY <2>3
    <3>3. G[0] = <<>> /\ G[1] = G[0] \o s[1]
      <4>1. G[0] = <<>> /\ \A i \in 1..n : G[i] = G[i - 1] \o s[i]
        BY <1>1, TotalIs
      <4> HIDE DEF G
      <4>2. 1 - 1 = 0
        OBVIOUS
      <4> QED
        BY <4>1, <4>2
    <3>2. <<>> \o s[1] = s[1]
      BY <1>1
    <3> QED
      BY <3>1, <3>2, <3>3
  <2>5. ASSUME NEW k \in Nat, k \in P PROVE k + 1 \in P
    <3> SUFFICES ASSUME k + 2 \in 1..n PROVE f[k + 2] = G[k + 2]
      OBVIOUS
    <3>1. f[k + 1] = G[k + 1]
      BY <2>5
    <3>2. f[k + 2] = f[k + 1] \o s[k + 2]
      <4>1. f[k + 2] = IF k + 2 = 1 THEN s[k + 2] ELSE f[(k + 2) - 1] \o s[k + 2]
        BY <2>3
      <4>2. (k + 2) - 1 = k + 1 /\ k + 2 # 1
        OBVIOUS
      <4> QED
        BY <4>1, <4>2
    <3>3. G[k + 2] = G[k + 1] \o s[k + 2]
      <4>1. G[k + 2] = G[(k + 2) - 1] \o s[k + 2]
        BY <1>1, TotalIs
      <4>2. (k + 2) - 1 = k + 1
        OBVIOUS
      <4> QED
        BY <4>1, <4>2
    <3> QED
      BY <3>1, <3>2, <3>3
  <2>6. n - 1 \in P
    <3> HIDE DEF P, n, G
    <3>1. \A k \in Nat : k \in P
      BY <2>4, <2>5, SetInduction
    <3> QED
      BY <1>1, <1>3, <3>1
  <2>7. f[n] = G[n]
    BY <1>1, <1>3, <2>6
  <2> QED
    BY <2>1, <2>7 DEF f
<1> QED
  BY <1>2, <1>3

----------------------------------------------------------------------------

(* The function that FoldLeft is defined by, over the first k bytes.        *)
FoldsTo(f, d, seq, k) ==
    f = [T \in SUBSET (1..k) |-> IF T = {} THEN d ELSE Decode(f[T \ {Max(T)}], seq[Max(T)])]

(* A bound that is in the set is its maximum.                               *)
LEMMA MaxIs ==
    ASSUME NEW T, NEW k \in Nat, k \in T, T \subseteq 1..k
    PROVE  Max(T) = k
<1>1. \A y \in T : k >= y
  OBVIOUS
<1>2. \A x \in T : (\A y \in T : x >= y) => x = k
  OBVIOUS
<1> QED
  BY <1>1, <1>2 DEF Max

(* There is such a function.                                                *)
LEMMA FoldExists ==
    ASSUME NEW d, NEW seq, NEW n \in Nat
    PROVE  \E f : FoldsTo(f, d, seq, n)
<1> DEFINE S == {k \in Nat : \E f : FoldsTo(f, d, seq, k)}
<1>1. 0 \in S
  <2> DEFINE f == [T \in SUBSET (1..0) |-> d]
  <2>1. \A T \in SUBSET (1..0) : T = {}
    OBVIOUS
  <2>2. f = [T \in SUBSET (1..0) |-> IF T = {} THEN d ELSE Decode(f[T \ {Max(T)}], seq[Max(T)])]
    BY <2>1
  <2> HIDE DEF f
  <2> QED
    BY <2>2 DEF FoldsTo
<1>2. ASSUME NEW k \in Nat, k \in S PROVE k + 1 \in S
  <2>1. PICK g : FoldsTo(g, d, seq, k)
    BY <1>2
  <2> DEFINE f == [T \in SUBSET (1..(k + 1)) |-> IF k + 1 \in T THEN Decode(g[T \ {k + 1}], seq[k + 1]) ELSE g[T]]
  <2>2. \A T \in SUBSET (1..k) : g[T] = IF T = {} THEN d ELSE Decode(g[T \ {Max(T)}], seq[Max(T)])
    BY <2>1 DEF FoldsTo
  <2>3. \A T \in SUBSET (1..k) : T \in SUBSET (1..(k + 1)) /\ k + 1 \notin T
    OBVIOUS
  <2>4. \A T \in SUBSET (1..k) : f[T] = g[T]
    BY <2>3
  <2>5. \A T \in SUBSET (1..(k + 1)) : k + 1 \in T => f[T] = Decode(g[T \ {k + 1}], seq[k + 1])
    OBVIOUS
  <2>6. ASSUME NEW T \in SUBSET (1..(k + 1))
        PROVE  f[T] = IF T = {} THEN d ELSE Decode(f[T \ {Max(T)}], seq[Max(T)])
    <3> HIDE DEF f
    <3>1. CASE k + 1 \in T
      <4>1. Max(T) = k + 1
        <5>1. k + 1 \in Nat
          OBVIOUS
        <5> QED
          BY <3>1, <5>1, MaxIs
      <4>2. T \ {k + 1} \in SUBSET (1..k)
        OBVIOUS
      <4>3. f[T] = Decode(f[T \ {k + 1}], seq[k + 1])
        BY <2>4, <2>5, <3>1, <4>2
      <4> QED
        BY <3>1, <4>1, <4>3
    <3>2. CASE k + 1 \notin T
      <4>1. T \in SUBSET (1..k) /\ T \ {Max(T)} \in SUBSET (1..k)
        <5>1. \A y \in T : y \in 1..k
          BY <3>2
        <5> QED
          BY <5>1
      <4>2. f[T] = g[T] /\ f[T \ {Max(T)}] = g[T \ {Max(T)}]
        BY <2>4, <4>1
      <4> QED
        BY <2>2, <4>1, <4>2
    <3> QED
      BY <3>1, <3>2
  <2>7. f = [T \in SUBSET (1..(k + 1)) |-> IF T = {} THEN d ELSE Decode(f[T \ {Max(T)}], seq[Max(T)])]
    BY <2>6
  <2> HIDE DEF f
  <2> QED
    <3>1. FoldsTo(f, d, seq, k + 1)
      BY <2>7 DEF FoldsTo
    <3> QED
      BY <3>1
<1> HIDE DEF S
<1>3. n \in S
  BY <1>1, <1>2, SetInduction
<1> QED
  BY <1>3 DEF S

(* FoldLeft decodes byte by byte.                                           *)
LEMMA Folded ==
    ASSUME NEW d, NEW B, NEW seq \in Seq(B)
    PROVE  \E f : /\ f[{}] = d
                  /\ \A k \in 1..Len(seq) : f[1..k] = Decode(f[1..(k - 1)], seq[k])
                  /\ f[1..Len(seq)] = FoldLeft(Decode, d, seq)
<1> DEFINE n == Len(seq)
           f == CHOOSE f : FoldsTo(f, d, seq, n)
<1>1. n \in Nat /\ DOMAIN seq = 1..n
  OBVIOUS
<1>2. FoldLeft(Decode, d, seq) = (CHOOSE g : g = [T \in SUBSET DOMAIN seq |-> IF T = {} THEN d ELSE Decode(g[T \ {Max(T)}], seq[Max(T)])])[DOMAIN seq]
  BY Zenon DEF FoldLeft, MapThenFoldSet
<1>3. FoldLeft(Decode, d, seq) = f[1..n]
  BY <1>1, <1>2, Zenon DEF FoldsTo
<1>4. FoldsTo(f, d, seq, n)
  BY <1>1, FoldExists
<1> HIDE DEF f
<1>5. \A T \in SUBSET (1..n) : f[T] = IF T = {} THEN d ELSE Decode(f[T \ {Max(T)}], seq[Max(T)])
  BY <1>4 DEF FoldsTo
<1>6. f[{}] = d
  BY <1>5
<1>7. ASSUME NEW k \in 1..n PROVE f[1..k] = Decode(f[1..(k - 1)], seq[k])
  <2>1. Max(1..k) = k
    BY <1>1, MaxIs
  <2>2. 1..k \in SUBSET (1..n) /\ 1..k # {}
    <3>1. k \in 1..k
      BY <1>1
    <3>2. \A i \in 1..k : i \in 1..n
      BY <1>1
    <3> QED
      BY <3>1, <3>2
  <2>3. (1..k) \ {k} = 1..(k - 1)
    <3>1. \A i : i \in (1..k) \ {k} <=> i \in 1..(k - 1)
      BY <1>1
    <3> QED
      BY <3>1
  <2> QED
    BY <1>5, <2>1, <2>2, <2>3
<1> QED
  BY <1>3, <1>6, <1>7

----------------------------------------------------------------------------
(* What a text is made of.                                                  *)
Character == Byte \cup {"character", "replacement"}
Symbols(bytes) == [i \in 1..Len(bytes) |-> Symbol(bytes, i)]

(* The decoder d has decoded the first k bytes: a lead byte at the end of   *)
(* them is pending, and the text is that of what is before.                 *)
DecodedTo(d, bytes, k) ==
    /\ d \in [encoding : {"utf-8", "windows-1252"}, text : Seq(Character), pending : BOOLEAN]
    /\ d.encoding = "windows-1252" => d.text = SubSeq(bytes, 1, k) /\ ~d.pending
    /\ d.encoding = "utf-8" =>
           /\ d.pending <=> k > 0 /\ bytes[k] = "lead"
           /\ d.text = Total(Symbols(bytes), Len(bytes))[IF d.pending THEN k - 1 ELSE k]

(* Each byte gives a text.                                                  *)
LEMMA SymbolTypes ==
    ASSUME NEW bytes \in Seq(Byte)
    PROVE  \A i \in 1..Len(bytes) :
              Symbols(bytes)[i] = Symbol(bytes, i) /\ Symbol(bytes, i) \in Seq(Character)
<1> SUFFICES ASSUME NEW i \in 1..Len(bytes)
             PROVE  Symbols(bytes)[i] = Symbol(bytes, i) /\ Symbol(bytes, i) \in Seq(Character)
  OBVIOUS
<1>1. <<"a">> \in Seq(Character) /\ <<"character">> \in Seq(Character) /\ <<"replacement">> \in Seq(Character) /\ <<>> \in Seq(Character)
  BY DEF Character, Byte
<1>2. bytes[i] \in Byte
  OBVIOUS
<1>3. Symbol(bytes, i) \in {<<"a">>, <<"character">>, <<"replacement">>, <<>>}
  BY <1>2, Zenon DEF Symbol, Byte
<1> QED
  BY <1>1, <1>3 DEF Symbols

(* One more byte: whatever it is, and whether a lead byte was pending, the  *)
(* decoder has decoded one byte more.                                       *)
LEMMA DecodeStep ==
    ASSUME NEW bytes \in Seq(Byte), NEW k \in Nat, k < Len(bytes), NEW d, DecodedTo(d, bytes, k)
    PROVE  DecodedTo(Decode(d, bytes[k + 1]), bytes, k + 1) /\ Decode(d, bytes[k + 1]).encoding = d.encoding
<1> DEFINE b == bytes[k + 1]
           n == Len(bytes)
           G == Total(Symbols(bytes), n)
           e == Decode(d, b)
<1>1. n \in Nat /\ k + 1 \in 1..n /\ b \in Byte /\ (k > 0 => k \in 1..n)
  OBVIOUS
<1>2. d \in [encoding : {"utf-8", "windows-1252"}, text : Seq(Character), pending : BOOLEAN]
  BY DEF DecodedTo
<1>3. \A i \in 0..n : G[i] \in Seq(Character)
  BY <1>1, SymbolTypes, TotalType
<1>4. \A i \in 1..n : G[i] = G[i - 1] \o Symbol(bytes, i)
  BY <1>1, SymbolTypes, TotalIs
<1>5. CASE d.encoding = "windows-1252"
  <2>1. e = [d EXCEPT !.text = Append(@, b)]
    BY <1>5 DEF Decode
  <2>2. d.text = SubSeq(bytes, 1, k) /\ ~d.pending
    BY <1>5 DEF DecodedTo
  <2>3. Append(SubSeq(bytes, 1, k), b) = SubSeq(bytes, 1, k + 1)
    BY <1>1
  <2>4. e.text = SubSeq(bytes, 1, k + 1) /\ ~e.pending /\ e.encoding = "windows-1252"
    BY <1>2, <1>5, <2>1, <2>2, <2>3
  <2>5. e \in [encoding : {"utf-8", "windows-1252"}, text : Seq(Character), pending : BOOLEAN]
    <3>1. b \in Character /\ d.text \in Seq(Character)
      BY <1>1, <1>2 DEF Character
    <3> HIDE DEF b
    <3>2. Append(d.text, b) \in Seq(Character)
      BY <3>1
    <3> QED
      BY <1>2, <2>1, <3>2
  <2> QED
    BY <1>5, <2>4, <2>5 DEF DecodedTo
<1>6. CASE d.encoding = "utf-8"
  <2>1. /\ d.pending <=> k > 0 /\ bytes[k] = "lead"
        /\ d.text = G[IF d.pending THEN k - 1 ELSE k]
    BY <1>6 DEF DecodedTo
  <2>2. G[k + 1] = G[k] \o Symbol(bytes, k + 1)
    <3>1. G[k + 1] = G[(k + 1) - 1] \o Symbol(bytes, k + 1)
      BY <1>1, <1>4
    <3>2. (k + 1) - 1 = k
      OBVIOUS
    <3> QED
      BY <3>1, <3>2
  <2>3. d.pending => G[k] = G[k - 1] \o Symbol(bytes, k)
    BY <1>1, <1>4, <2>1
  <2>4. G[k] \in Seq(Character) /\ (d.pending => G[k - 1] \in Seq(Character))
    BY <1>1, <1>3, <2>1
  <2> HIDE DEF G
  <2>5. (k + 1) - 1 = k /\ k + 1 > 0 /\ (k + 1 > 1 <=> k > 0)
    OBVIOUS
  <2>6. \A s \in Seq(Character) : s \o <<>> = s /\ Append(s, "character") = s \o <<"character">>
    BY DEF Character
  <2>7. d.text \in Seq(Character)
    BY <1>2
  <2>8. /\ Symbol(bytes, k + 1) = CASE b = "a" -> <<"a">>
                                    [] b = "lead" -> IF k + 1 < n /\ bytes[(k + 1) + 1] = "cont" THEN <<"character">> ELSE <<"replacement">>
                                    [] b = "cont" -> IF d.pending THEN <<>> ELSE <<"replacement">>
        /\ d.pending => Symbol(bytes, k) = IF b = "cont" THEN <<"character">> ELSE <<"replacement">>
    BY <1>1, <2>1, <2>5 DEF Symbol
  <2>9. CASE d.pending /\ b = "cont"
    <3>1. e = [d EXCEPT !.text = Append(@, "character"), !.pending = FALSE]
      BY <1>6, <2>9 DEF Decode
    <3>2. Append(d.text, "character") = G[k + 1]
      BY <2>1, <2>2, <2>3, <2>4, <2>6, <2>8, <2>9
    <3>3. e.text = G[k + 1] /\ e.pending = FALSE /\ e.encoding = "utf-8"
      BY <1>2, <1>6, <3>1, <3>2
    <3>4. e \in [encoding : {"utf-8", "windows-1252"}, text : Seq(Character), pending : BOOLEAN]
      <4>1. "character" \in Character
        BY DEF Character
      <4>2. Append(d.text, "character") \in Seq(Character)
        BY <2>7, <4>1
      <4> QED
        BY <1>2, <3>1, <4>2
    <3> QED
      BY <1>6, <2>9, <3>3, <3>4 DEF DecodedTo, G
  <2>10. CASE ~(d.pending /\ b = "cont")
    <3> DEFINE t == (d.text \o (IF d.pending THEN <<"replacement">> ELSE <<>>)) \o Alone(b)
               p == b = "lead"
    <3>1. e = [d EXCEPT !.text = t, !.pending = p]
      BY <1>6, <2>10 DEF Decode
    <3>2. t = G[IF p THEN k ELSE k + 1]
      <4>1. d.text \o (IF d.pending THEN <<"replacement">> ELSE <<>>) = G[k]
        BY <2>1, <2>3, <2>4, <2>6, <2>8, <2>10
      <4>2. t = G[k] \o Alone(b)
        BY <4>1
      <4>3. CASE b = "a"
        BY <2>2, <2>8, <4>2, <4>3 DEF Alone
      <4>4. CASE b = "lead"
        BY <2>4, <2>6, <4>2, <4>4 DEF Alone
      <4>5. CASE b = "cont"
        BY <2>2, <2>8, <2>10, <4>2, <4>5 DEF Alone
      <4> QED
        BY <1>1, <4>3, <4>4, <4>5 DEF Byte
    <3>3. t \in Seq(Character)
      <4>1. k + 1 \in 0..n /\ k \in 0..n
        BY <1>1
      <4> QED
        BY <1>3, <3>2, <4>1 DEF G
    <3> HIDE DEF t, p
    <3>4. p \in BOOLEAN
      BY DEF p
    <3>5. e.text = t /\ (e.pending <=> p) /\ e.encoding = "utf-8"
      BY <1>2, <1>6, <3>1
    <3>6. e \in [encoding : {"utf-8", "windows-1252"}, text : Seq(Character), pending : BOOLEAN]
      BY <1>2, <3>1, <3>3, <3>4
    <3>7. e.pending <=> k + 1 > 0 /\ bytes[k + 1] = "lead"
      BY <2>5, <3>5 DEF p
    <3>8. e.text = G[IF e.pending THEN (k + 1) - 1 ELSE k + 1]
      BY <2>5, <3>2, <3>5
    <3> QED
      BY <1>6, <3>5, <3>6, <3>7, <3>8 DEF DecodedTo, G
  <2> QED
    BY <2>9, <2>10
<1> QED
  BY <1>2, <1>5, <1>6

(* The invariant behind AnswerIsWhole: a text reader has decoded what has   *)
(* been taken, with the character set of the reply.                         *)
Decoded ==
    reader = "text" => decoder.encoding = Encoding(reply.charset) /\ DecodedTo(decoder, reply.bytes, taken)

(* A reply has bytes, and a character set or the default.                   *)
LEMMA ReplyTypes ==
    ASSUME Responded, reply # None
    PROVE  reply.bytes \in Seq(Byte) /\ Encoding(reply.charset) \in {"utf-8", "windows-1252"}
<1>1. reply \in Reply
  BY DEF Responded
<1>2. reply.bytes \in Seq(Byte) /\ reply.charset \in {None, "unheard-of", "utf-8", "windows-1252"}
  BY <1>1, ReplyAssumption
<1> QED
  BY <1>2 DEF Encoding

(* A new decoder has decoded nothing.                                       *)
LEMMA DecoderStarts ==
    ASSUME NEW bytes \in Seq(Byte), NEW encoding \in {"utf-8", "windows-1252"}
    PROVE  DecodedTo([NoDecoder EXCEPT !.encoding = encoding], bytes, 0)
<1> DEFINE d == [NoDecoder EXCEPT !.encoding = encoding]
<1>1. d.encoding = encoding /\ d.text = <<>> /\ d.pending = FALSE
  BY DEF NoDecoder
<1>2. DOMAIN d = {"encoding", "text", "pending"} /\ d = [field \in DOMAIN d |-> d[field]]
  BY DEF NoDecoder
<1>3. d \in [encoding : {"utf-8", "windows-1252"}, text : Seq(Character), pending : BOOLEAN]
  <2>1. <<>> \in Seq(Character) /\ FALSE \in BOOLEAN
    OBVIOUS
  <2> HIDE DEF d
  <2>2. d = [encoding |-> d.encoding, text |-> d.text, pending |-> d.pending]
    BY <1>2
  <2>3. d = [encoding |-> encoding, text |-> <<>>, pending |-> FALSE]
    BY <1>1, <2>2
  <2> QED
    BY <2>1, <2>3
<1>4. SubSeq(bytes, 1, 0) = <<>>
  OBVIOUS
<1>5. Total(Symbols(bytes), Len(bytes))[0] = <<>>
  <2>1. Len(bytes) \in Nat
    OBVIOUS
  <2> QED
    BY <2>1, TotalIs
<1> HIDE DEF d
<1>6. d.pending <=> 0 > 0 /\ bytes[0] = "lead"
  BY <1>1
<1>7. DecodedTo(d, bytes, 0)
  BY <1>1, <1>3, <1>4, <1>5, <1>6 DEF DecodedTo
<1> QED
  BY <1>7 DEF d

(* A chunk is the n bytes of a body after its first k.                      *)
Piece(chunk, bytes, k, n) ==
    chunk \in Seq(Byte) /\ Len(chunk) = n /\ \A j \in 1..n : chunk[j] = bytes[k + j]

(* One chunk: the decoder has decoded its bytes too, wherever it begins and *)
(* ends.                                                                    *)
LEMMA PushDecodes ==
    ASSUME NEW bytes \in Seq(Byte), NEW k \in Nat, NEW n \in Nat, k + n <= Len(bytes),
           NEW chunk, Piece(chunk, bytes, k, n), NEW d, DecodedTo(d, bytes, k)
    PROVE  DecodedTo(Push(d, chunk), bytes, k + n) /\ Push(d, chunk).encoding = d.encoding
<1>1. PICK f : /\ f[{}] = d
               /\ \A j \in 1..n : f[1..j] = Decode(f[1..(j - 1)], chunk[j])
               /\ f[1..n] = FoldLeft(Decode, d, chunk)
  <2>1. chunk \in Seq(Byte) /\ Len(chunk) = n
    BY DEF Piece
  <2>2. \E f : /\ f[{}] = d
               /\ \A j \in 1..Len(chunk) : f[1..j] = Decode(f[1..(j - 1)], chunk[j])
               /\ f[1..Len(chunk)] = FoldLeft(Decode, d, chunk)
    BY Folded, <2>1, Zenon
  <2> QED
    BY <2>1, <2>2
<1> DEFINE P == {j \in Nat : j <= n => DecodedTo(f[1..j], bytes, k + j) /\ f[1..j].encoding = d.encoding}
<1>2. 0 \in P
  <2>1. 1..0 = {} /\ k + 0 = k
    OBVIOUS
  <2>2. f[1..0] = d
    BY <1>1, <2>1
  <2> QED
    BY <2>1, <2>2
<1>3. ASSUME NEW j \in Nat, j \in P PROVE j + 1 \in P
  <2> SUFFICES ASSUME j + 1 <= n
               PROVE  DecodedTo(f[1..(j + 1)], bytes, k + (j + 1)) /\ f[1..(j + 1)].encoding = d.encoding
    OBVIOUS
  <2>1. j + 1 \in 1..n /\ (j + 1) - 1 = j /\ (k + j) + 1 = k + (j + 1) /\ k + j \in Nat /\ k + j < Len(bytes)
    OBVIOUS
  <2>2. f[1..(j + 1)] = Decode(f[1..j], bytes[(k + j) + 1])
    <3>1. chunk[j + 1] = bytes[(k + j) + 1]
      BY <2>1 DEF Piece
    <3> QED
      BY <1>1, <2>1, <3>1
  <2>3. DecodedTo(f[1..j], bytes, k + j) /\ f[1..j].encoding = d.encoding
    BY <1>3, <2>1
  <2>4. DecodedTo(Decode(f[1..j], bytes[(k + j) + 1]), bytes, (k + j) + 1)
        /\ Decode(f[1..j], bytes[(k + j) + 1]).encoding = f[1..j].encoding
    BY <2>1, <2>3, DecodeStep
  <2> QED
    BY <2>1, <2>2, <2>3, <2>4
<1> HIDE DEF P
<1>4. n \in P
  BY <1>2, <1>3, SetInduction
<1> QED
  BY <1>1, <1>4 DEF P, Push

(* Every step of the client keeps Decoded.                                  *)
LEMMA DecodedStep == Responded /\ Reads /\ Decoded /\ [Next]_clientVars => Decoded'
<1> SUFFICES ASSUME Responded, Reads, Decoded, [Next]_clientVars PROVE Decoded'
  OBVIOUS
<1>0. None # "text"
  BY ReplyAssumption DEF Consumer
<1>1. CASE UNCHANGED <<reply, reader, decoder, taken>>
  BY <1>1 DEF Decoded
<1>2. ASSUME NEW r, HeadersCome(r) PROVE Decoded'
  <2>1. reader' \in {None, "watch"}
    BY <1>2 DEF HeadersCome, Respond, Reads
  <2> QED
    BY <1>0, <2>1 DEF Decoded
<1>3. ASSUME NEW secure, Watch(secure) PROVE Decoded'
  BY <1>3 DEF Watch, Decoded
<1>4. ASSUME NEW method, Consume(method) PROVE Decoded'
  <2> SUFFICES ASSUME method = "text" PROVE Decoded'
    BY <1>4 DEF Consume, Decoded
  <2>1. /\ reply # None /\ reply' = reply /\ taken' = taken /\ taken = 0 /\ reader' = "text"
        /\ decoder' = [NoDecoder EXCEPT !.encoding = Encoding(reply.charset)]
    BY <1>4 DEF Consume, Reads
  <2>2. decoder'.encoding = Encoding(reply.charset)
    BY <2>1 DEF NoDecoder
  <2>3. DecodedTo(decoder', reply.bytes, 0)
    BY <2>1, ReplyTypes, DecoderStarts
  <2> QED
    BY <2>1, <2>2, <2>3 DEF Decoded
<1>5. ASSUME NEW n \in 1..ChunkSize, Read(n), reader # "watch" PROVE Decoded'
  <2> SUFFICES ASSUME reader = "text" PROVE Decoded'
    BY <1>5 DEF Read, Decoded
  <2>1. /\ n <= Len(Rest) /\ taken' = taken + n /\ UNCHANGED <<reply, reader>>
        /\ decoder' = Push(decoder, SubSeq(Rest, 1, n)) /\ n \in Nat /\ n > 0
    BY <1>5, ReplyAssumption DEF Read
  <2>2. reply # None /\ taken \in Nat /\ Rest \in Seq(Byte) /\ Len(Rest) = Available - taken /\ Available \in Nat
    BY <1>0, <1>5, RestLength DEF Reads
  <2>3. reply.bytes \in Seq(Byte)
    BY <2>2, ReplyTypes
  <2>4. body.kind # "empty"
    BY <2>1, <2>2 DEF Rest
  <2>5. Available = Len(reply.bytes) /\ Rest = SubSeq(reply.bytes, taken + 1, Len(reply.bytes))
    BY <2>4 DEF Available, Rest
  <2> DEFINE chunk == SubSeq(Rest, 1, n)
             bytes == reply.bytes
  <2>6. chunk \in Seq(Byte) /\ Len(chunk) = n
    BY <2>1, <2>2
  <2>7. \A j \in 1..n : chunk[j] = bytes[taken + j]
    <3> SUFFICES ASSUME NEW j \in 1..n PROVE chunk[j] = bytes[taken + j]
      OBVIOUS
    <3>1. chunk[j] = Rest[j] /\ j \in 1..Len(Rest)
      BY <2>1, <2>2
    <3>2. Rest[j] = bytes[(taken + 1) + j - 1]
      BY <2>2, <2>3, <2>5, <3>1
    <3>3. (taken + 1) + j - 1 = taken + j
      BY <2>2
    <3> QED
      BY <3>1, <3>2, <3>3
  <2>8. taken + n <= Len(bytes)
    BY <2>1, <2>2, <2>5
  <2>9. decoder.encoding = Encoding(reply.charset) /\ DecodedTo(decoder, bytes, taken)
    BY DEF Decoded
  <2> HIDE DEF chunk, bytes
  <2>10. DecodedTo(Push(decoder, chunk), bytes, taken + n) /\ Push(decoder, chunk).encoding = decoder.encoding
    <3>1. bytes \in Seq(Byte)
      BY <2>3 DEF bytes
    <3>2. n \in Nat /\ taken \in Nat
      BY <2>1, <2>2
    <3>3. DecodedTo(decoder, bytes, taken)
      BY <2>9
    <3>4. Piece(chunk, bytes, taken, n)
      BY <2>6, <2>7 DEF Piece
    <3> QED
      BY <2>8, <3>1, <3>2, <3>3, <3>4, PushDecodes
  <2> QED
    BY <2>1, <2>9, <2>10 DEF Decoded, chunk, bytes
<1>6. CASE ReadEof \/ ReadFails
  BY <1>1, <1>6 DEF ReadEof, ReadFails
<1> QED
  BY <1>1, <1>2, <1>3, <1>4, <1>5, <1>6 DEF Next, Submit, ExchangeFails, Receive, clientVars, responseVars

(* At the end of a body, the decoder gives the text of the body.            *)
LEMMA FinishIsTextOf ==
    ASSUME NEW bytes \in Seq(Byte), NEW d, DecodedTo(d, bytes, Len(bytes))
    PROVE  Finish(d) = TextOf(bytes, d.encoding)
<1> DEFINE n == Len(bytes)
           G == Total(Symbols(bytes), n)
<1>1. n \in Nat /\ d \in [encoding : {"utf-8", "windows-1252"}, text : Seq(Character), pending : BOOLEAN]
  BY DEF DecodedTo
<1>2. CASE d.encoding = "windows-1252"
  <2>1. d.text = SubSeq(bytes, 1, n) /\ ~d.pending
    BY <1>2 DEF DecodedTo
  <2>2. SubSeq(bytes, 1, n) = bytes /\ bytes \o <<>> = bytes
    OBVIOUS
  <2> QED
    BY <1>2, <2>1, <2>2 DEF Finish, TextOf
<1>3. CASE d.encoding = "utf-8"
  <2>1. /\ d.pending <=> n > 0 /\ bytes[n] = "lead"
        /\ d.text = G[IF d.pending THEN n - 1 ELSE n]
    BY <1>3 DEF DecodedTo
  <2>2. TextOf(bytes, d.encoding) = G[n]
    <3>1. \A i \in 1..n : Symbols(bytes)[i] \in Seq(Character)
      BY SymbolTypes
    <3>2. Symbols(bytes) \in Seq(Seq(Character)) /\ Len(Symbols(bytes)) = n
      <4>1. Symbols(bytes) = [i \in 1..n |-> Symbols(bytes)[i]]
        BY DEF Symbols
      <4> QED
        BY <1>1, <3>1, <4>1
    <3>3. TextOf(bytes, d.encoding) = FlattenSeq(Symbols(bytes))
      BY <1>3 DEF TextOf, Symbols
    <3> QED
      BY <3>2, <3>3, Flattened
  <2>3. CASE d.pending
    <3>1. n \in 1..n /\ bytes[n] = "lead"
      BY <1>1, <2>1, <2>3
    <3>2. Symbol(bytes, n) = <<"replacement">>
      BY <1>1, <3>1 DEF Symbol
    <3>3. G[n] = G[n - 1] \o Symbols(bytes)[n] /\ Symbols(bytes)[n] = Symbol(bytes, n)
      BY <1>1, <3>1, TotalIs, SymbolTypes
    <3> QED
      BY <2>1, <2>2, <2>3, <3>2, <3>3 DEF Finish
  <2>4. CASE ~d.pending
    <3>1. d.text = G[n] /\ d.text \in Seq(Character)
      BY <1>1, <2>1, <2>4
    <3>2. d.text \o <<>> = d.text
      BY <3>1
    <3> QED
      BY <2>2, <2>4, <3>1, <3>2 DEF Finish
  <2> QED
    BY <2>3, <2>4
<1> QED
  BY <1>1, <1>2, <1>3

(* A text reader keeps Decoded.                                             *)
LEMMA DecodedInvariant == Spec => []Decoded
<1>1. Init => Decoded
  BY ReplyAssumption DEF Init, ResponseInit, Decoded, Consumer
<1> QED
  BY <1>1, DecodedStep, ReadsInvariant, PTL DEF Spec

(* A reader that succeeds has read the whole body of a transfer that ended  *)
(* well, and the text of text() is that of the body, for every body and     *)
(* every way of cutting it into chunks: Decoder::push keeps a lead byte for *)
(* the next chunk and Decoder::finish replaces one that has no next         *)
(* (text.rs).                                                               *)
THEOREM AnswersAreWhole == Spec => []AnswerIsWhole
<1>1. ASSUME Responded, Reads, Decoded, Answered, answer.ok, body.kind # "empty"
      PROVE  /\ reply.fate = "ok" /\ answer.count = Len(reply.bytes)
             /\ reader = "text" => answer.text = TextOf(reply.bytes, Encoding(reply.charset))
  <2>1. reply # None /\ answer.count = taken /\ answer.text = Finish(decoder) /\ reply.fate = "ok" /\ taken = Len(reply.bytes)
    BY <1>1, Ending DEF Available
  <2>2. ASSUME reader = "text" PROVE Finish(decoder) = TextOf(reply.bytes, Encoding(reply.charset))
    BY <1>1, <2>1, <2>2, ReplyTypes, FinishIsTextOf DEF Decoded
  <2> QED
    BY <2>1, <2>2
<1>2. Responded /\ Reads /\ Decoded => AnswerIsWhole
  BY <1>1 DEF AnswerIsWhole
<1> QED
  BY <1>2, ReadsInvariant, DecodedInvariant, PTL
==============================================================================
