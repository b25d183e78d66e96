------------------------------- MODULE Agent -------------------------------
(***************************************************************************)
(* The agent of src/src/agent/mod.rs: one background thread that runs every *)
(* request of a client on curl's multi handle, the handle through which     *)
(* other threads submit requests to it, and the wakers by which a paused    *)
(* transfer is resumed.                                                     *)
(*                                                                          *)
(* Every thread that talks to the agent does so in two steps: it pushes a   *)
(* message on the unbounded channel, then it notifies the poller.  The      *)
(* agent checks the channel and goes to sleep in two steps as well.         *)
(*                                                                          *)
(* curl, the poller and the channel are not part of the repository.  curl   *)
(* is represented by the transfers it may pause, call back or finish; the   *)
(* poller by one sticky notification; the channel by a sequence that keeps  *)
(* its messages when its receiver is dropped.                               *)
(***************************************************************************)
EXTENDS Integers, Sequences, FiniteSets

CONSTANTS
    Request,    \* the requests callers may submit, each at most once
    Key,        \* keys of the slab; at least as many as requests
    None,       \* "no key", "no request"
    Dir,        \* the directions modelled, both in the code
    MaxQueue,   \* bound: a waker nobody waits for fires only on a channel shorter than this
    MayFail     \* may a fallible step of the agent thread (a `?` in run) fail?

ASSUME NoneAssumption == None \notin Key \cup Request

(* The two directions a transfer is paused in: "read" is curl reading the   *)
(* request body, "write" is curl writing the response body.                 *)
ASSUME DirAssumption == Dir \subseteq {"read", "write"}

ASSUME BoundAssumption == MaxQueue \in Nat /\ MayFail \in BOOLEAN

Slot == Request \X Dir

Execute(r) == [type |-> "Execute", req |-> r]
Unpause(d, k) == [type |-> "Unpause", dir |-> d, token |-> k]
Close == [type |-> "Close"]

Message == {Execute(r) : r \in Request} \cup {Unpause(d, k) : d \in Dir, k \in Key} \cup {Close}

VARIABLES
    queue,           \* the message channel
    notified,        \* the poller's notification, consumed by the next wait
    caller,          \* what the caller of each request is doing
    wakerPc,         \* the threads that are firing a waker
    handlePc,        \* the thread that builds, then drops the Handle
    agentPc,         \* where the agent thread is
    closeRequested,
    requests,        \* the slab: Key -> Request or None
    wakerKey,        \* the key captured by the wakers of each request, None before init
    paused,          \* curl: directions in which each transfer is paused
    armed,           \* wakers held by a pipe or a body that promised to fire them
    outcome,         \* curl: how each transfer finished, "none" before
    batch,           \* multi_messages: (token, result) pairs being completed
    future,          \* the response future, as the handler's sender leaves it
    result,          \* Shared.result of the handler
    exit             \* what the agent thread returned

callerVars == <<caller, wakerPc, handlePc>>
agentVars  == <<agentPc, closeRequested, requests, wakerKey, batch, exit>>
curlVars   == <<paused, armed, outcome>>
replyVars  == <<future, result>>
vars == <<queue, notified, callerVars, agentVars, curlVars, replyVars>>

Outcome == {"ok", "error"}

TypeOK ==
    /\ queue \in Seq(Message)
    /\ notified \in BOOLEAN
    /\ caller \in [Request -> {"idle", "pushed", "waiting", "reading", "finished", "cancelled", "panicked"}]
    /\ wakerPc \in [Slot -> {"idle", "pushed"}]
    /\ handlePc \in {"spawning", "open", "pushed", "joining", "dropped", "panicked"}
    /\ agentPc \in {"starting", "messages", "select", "drive", "complete", "clearing", "closing", "exited"}
    /\ closeRequested \in BOOLEAN
    /\ requests \in [Key -> Request \cup {None}]
    /\ wakerKey \in [Request -> Key \cup {None}]
    /\ paused \in [Request -> SUBSET Dir]
    /\ armed \in SUBSET Slot
    /\ outcome \in [Request -> Outcome \cup {"none"}]
    /\ batch \in SUBSET [token : Key, result : Outcome]
    /\ future \in [Request -> {"pending", "response", "error", "lost"}]
    /\ result \in [Request -> Outcome \cup {"none"}]
    /\ exit \in {"none", "ok", "error"}

(* Requests the slab owns. *)
Running == {r \in Request : \E k \in Key : requests[k] = r}

(* The receiver lives in the AgentContext; when it is dropped the channel   *)
(* is closed, but keeps what it holds.                                      *)
ChannelOpen == agentPc # "exited"

Init ==
    /\ queue = <<>>
    /\ notified = FALSE
    /\ caller = [r \in Request |-> "idle"]
    /\ wakerPc = [s \in Slot |-> "idle"]
    /\ handlePc = "spawning"
    /\ agentPc = "starting"
    /\ closeRequested = FALSE
    /\ requests = [k \in Key |-> None]
    /\ wakerKey = [r \in Request |-> None]
    /\ paused = [r \in Request |-> {}]
    /\ armed = {}
    /\ outcome = [r \in Request |-> "none"]
    /\ batch = {}
    /\ future = [r \in Request |-> "pending"]
    /\ result = [r \in Request |-> "none"]
    /\ exit = "none"

----------------------------------------------------------------------------
(* AgentBuilder::spawn waits for the thread to report, or to give up: a     *)
(* thread that fails before its loop also releases the wait group.          *)

StartAgent ==
    /\ agentPc = "starting"
    /\ agentPc' = "messages"
    /\ UNCHANGED <<queue, notified, callerVars, closeRequested, requests, wakerKey, batch, exit, curlVars, replyVars>>

StartFails ==
    /\ MayFail
    /\ agentPc = "starting"
    /\ agentPc' = "exited"
    /\ exit' = "error"
    /\ UNCHANGED <<queue, notified, callerVars, closeRequested, requests, wakerKey, batch, curlVars, replyVars>>

SpawnReturns ==
    /\ handlePc = "spawning"
    /\ agentPc # "starting"
    /\ handlePc' = "open"
    /\ UNCHANGED <<queue, notified, caller, wakerPc, agentVars, curlVars, replyVars>>

----------------------------------------------------------------------------
(* Callers.  send_message pushes, then wakes the agent; on a closed channel *)
(* it joins the thread and panics.                                          *)

SubmitPush(r) ==
    /\ handlePc = "open"
    /\ caller[r] = "idle"
    /\ ChannelOpen
    /\ queue' = Append(queue, Execute(r))
    /\ caller' = [caller EXCEPT ![r] = "pushed"]
    /\ UNCHANGED <<notified, wakerPc, handlePc, agentVars, curlVars, replyVars>>

(* mutant: the poller is not notified after the push *)
SubmitWakeForgotten(r) ==
    /\ caller[r] = "pushed"
    /\ caller' = [caller EXCEPT ![r] = "waiting"]
    /\ UNCHANGED <<queue, notified, wakerPc, handlePc, agentVars, curlVars, replyVars>>

SubmitWake(r) ==
    /\ caller[r] = "pushed"
    /\ caller' = [caller EXCEPT ![r] = "waiting"]
    /\ notified' = TRUE
    /\ UNCHANGED <<queue, wakerPc, handlePc, agentVars, curlVars, replyVars>>

SubmitPanics(r) ==
    /\ handlePc = "open"
    /\ caller[r] = "idle"
    /\ ~ChannelOpen
    /\ caller' = [caller EXCEPT ![r] = "panicked"]
    /\ UNCHANGED <<queue, notified, wakerPc, handlePc, agentVars, curlVars, replyVars>>

(* The caller's future resolves.  A response still holds a clone of the     *)
(* client inside its body.                                                  *)
ReceiveResponse(r) ==
    /\ caller[r] = "waiting"
    /\ future[r] # "pending"
    /\ caller' = [caller EXCEPT ![r] = IF future[r] = "response" THEN "reading" ELSE "finished"]
    /\ UNCHANGED <<queue, notified, wakerPc, handlePc, agentVars, curlVars, replyVars>>

DropBody(r) ==
    /\ caller[r] = "reading"
    /\ caller' = [caller EXCEPT ![r] = "finished"]
    /\ UNCHANGED <<queue, notified, wakerPc, handlePc, agentVars, curlVars, replyVars>>

CancelFuture(r) ==
    /\ caller[r] = "waiting"
    /\ caller' = [caller EXCEPT ![r] = "cancelled"]
    /\ UNCHANGED <<queue, notified, wakerPc, handlePc, agentVars, curlVars, replyVars>>

----------------------------------------------------------------------------
(* The wakers begin_request makes: push Unpause with the key they captured, *)
(* then notify.  A body may fire its waker at any time, also for a request  *)
(* that is over.                                                            *)

(* mutant: a waker pushes only when the channel is empty *)
FirePushIfEmpty(r, d) ==
    /\ wakerKey[r] # None
    /\ wakerPc[<<r, d>>] = "idle"
    /\ <<r, d>> \in armed \/ Len(queue) < MaxQueue
    /\ ChannelOpen
    /\ armed' = armed \ {<<r, d>>}
    /\ queue' = IF queue = <<>> THEN <<Unpause(d, wakerKey[r])>> ELSE queue
    /\ wakerPc' = [wakerPc EXCEPT ![<<r, d>>] = "pushed"]
    /\ UNCHANGED <<notified, caller, handlePc, agentVars, paused, outcome, replyVars>>

FirePush(r, d) ==
    /\ wakerKey[r] # None
    /\ wakerPc[<<r, d>>] = "idle"
    /\ <<r, d>> \in armed \/ Len(queue) < MaxQueue
    /\ ChannelOpen
    /\ armed' = armed \ {<<r, d>>}
    /\ queue' = Append(queue, Unpause(d, wakerKey[r]))
    /\ wakerPc' = [wakerPc EXCEPT ![<<r, d>>] = "pushed"]
    /\ UNCHANGED <<notified, caller, handlePc, agentVars, paused, outcome, replyVars>>

(* mutant: the message is pushed, but the poller not notified *)
FireNotifyForgotten(r, d) ==
    /\ wakerPc[<<r, d>>] = "pushed"
    /\ wakerPc' = [wakerPc EXCEPT ![<<r, d>>] = "idle"]
    /\ UNCHANGED <<queue, notified, caller, handlePc, agentVars, curlVars, replyVars>>

FireNotify(r, d) ==
    /\ wakerPc[<<r, d>>] = "pushed"
    /\ wakerPc' = [wakerPc EXCEPT ![<<r, d>>] = "idle"]
    /\ notified' = TRUE
    /\ UNCHANGED <<queue, caller, handlePc, agentVars, curlVars, replyVars>>

(* "agent went away while resuming": only a warning. *)
FireTooLate(r, d) ==
    /\ <<r, d>> \in armed
    /\ ~ChannelOpen
    /\ armed' = armed \ {<<r, d>>}
    /\ UNCHANGED <<queue, notified, callerVars, agentVars, paused, outcome, replyVars>>

----------------------------------------------------------------------------
(* Handle::drop, once no caller holds a clone of the client.                *)

(* mutant: response bodies hold no clone of the client *)
ReleasedByReaders ==
    \A r \in Request : caller[r] \in {"idle", "reading", "finished", "cancelled", "panicked"}

Released == \A r \in Request : caller[r] \in {"idle", "finished", "cancelled", "panicked"}

DropPush ==
    /\ handlePc = "open"
    /\ Released
    /\ ChannelOpen
    /\ queue' = Append(queue, Close)
    /\ handlePc' = "pushed"
    /\ UNCHANGED <<notified, caller, wakerPc, agentVars, curlVars, replyVars>>

(* mutant: Close is pushed and the thread joined without waking it *)
DropNotifyForgotten ==
    /\ handlePc = "pushed"
    /\ handlePc' = "joining"
    /\ UNCHANGED <<queue, notified, caller, wakerPc, agentVars, curlVars, replyVars>>

DropNotify ==
    /\ handlePc = "pushed"
    /\ handlePc' = "joining"
    /\ notified' = TRUE
    /\ UNCHANGED <<queue, caller, wakerPc, agentVars, curlVars, replyVars>>

DropJoin ==
    /\ handlePc = "joining"
    /\ agentPc = "exited"
    /\ handlePc' = "dropped"
    /\ UNCHANGED <<queue, notified, caller, wakerPc, agentVars, curlVars, replyVars>>

DropPanics ==
    /\ handlePc = "open"
    /\ Released
    /\ ~ChannelOpen
    /\ handlePc' = "panicked"
    /\ UNCHANGED <<queue, notified, caller, wakerPc, agentVars, curlVars, replyVars>>

----------------------------------------------------------------------------
(* poll_messages and handle_message.                                        *)

Receives(m) ==
    /\ agentPc = "messages"
    /\ ~closeRequested
    /\ queue # <<>>
    /\ Head(queue) = m
    /\ queue' = Tail(queue)

(* begin_request: a vacant key, two wakers made with it, curl's add2.       *)
BeginRequest(r, k) ==
    /\ Receives(Execute(r))
    /\ requests[k] = None
    /\ requests' = [requests EXCEPT ![k] = r]
    /\ wakerKey' = [wakerKey EXCEPT ![r] = k]
    /\ UNCHANGED <<notified, callerVars, agentPc, closeRequested, batch, exit, curlVars, replyVars>>

(* add2 or set_token fails: the handler is dropped and run returns.         *)
BeginFails(r) ==
    /\ MayFail
    /\ Receives(Execute(r))
    /\ future' = [future EXCEPT ![r] = "lost"]
    /\ agentPc' = "clearing"
    /\ exit' = "error"
    /\ UNCHANGED <<notified, callerVars, closeRequested, requests, wakerKey, batch, curlVars, result>>

(* curl resumes the transfer, or calls back inline and is paused again,     *)
(* which arms the waker again.  Resuming a transfer that is not paused does *)
(* nothing.                                                                 *)
UnpauseRequest(d, k) ==
    /\ Receives(Unpause(d, k))
    /\ requests[k] # None
    /\ \/ paused' = [paused EXCEPT ![requests[k]] = @ \ {d}] /\ UNCHANGED armed
       \/ /\ d \in paused[requests[k]]
          /\ armed' = armed \cup {<<requests[k], d>>}
          /\ UNCHANGED paused
    /\ UNCHANGED <<notified, callerVars, agentVars, outcome, replyVars>>

UnpauseUnknown(d, k) ==
    /\ Receives(Unpause(d, k))
    /\ requests[k] = None
    /\ UNCHANGED <<notified, callerVars, agentVars, curlVars, replyVars>>

RequestClose ==
    /\ Receives(Close)
    /\ closeRequested' = TRUE
    /\ UNCHANGED <<notified, callerVars, agentPc, requests, wakerKey, batch, exit, curlVars, replyVars>>

(* With no request to run the thread stays in the blocking recv; otherwise  *)
(* an empty channel ends poll_messages.                                     *)
PollMessagesEnds ==
    /\ agentPc = "messages"
    /\ ~closeRequested
    /\ queue = <<>>
    /\ Running # {}
    /\ agentPc' = "select"
    /\ UNCHANGED <<queue, notified, callerVars, closeRequested, requests, wakerKey, batch, exit, curlVars, replyVars>>

----------------------------------------------------------------------------
(* poll: the selector returns for a notification, for socket activity of a  *)
(* transfer, or because at most one second has passed.                      *)

Wake ==
    /\ agentPc = "select"
    /\ agentPc' = "drive"
    /\ notified' = FALSE
    /\ UNCHANGED <<queue, callerVars, closeRequested, requests, wakerKey, batch, exit, curlVars, replyVars>>

SelectNotified == notified /\ Wake
SelectActivity == (\E r \in Running : paused[r] # Dir) /\ Wake
SelectTimeout  == Wake

(* curl's callbacks run inside multi.action and multi.timeout.  A callback  *)
(* whose pipe or body is not ready leaves its waker there and pauses the    *)
(* transfer; the write callback completes the response future first.        *)
Callable(r, d) ==
    /\ agentPc = "drive"
    /\ r \in Running
    /\ outcome[r] = "none"
    /\ d \in Dir
    /\ d \notin paused[r]

PausesTransfer(r, d) ==
    /\ paused' = [paused EXCEPT ![r] = @ \cup {d}]
    /\ armed' = armed \cup {<<r, d>>}

ReadPending(r) ==
    /\ Callable(r, "read")
    /\ PausesTransfer(r, "read")
    /\ UNCHANGED <<queue, notified, callerVars, agentVars, outcome, replyVars>>

(* mutant: the sender is not taken when the future is completed *)
CompleteFutureTwice(r, reply) ==
    future' = [future EXCEPT ![r] = reply]

CompleteFuture(r, reply) ==
    future' = [future EXCEPT ![r] = IF @ = "pending" THEN reply ELSE @]

WriteReady(r) ==
    /\ Callable(r, "write")
    /\ future[r] = "pending"
    /\ CompleteFuture(r, "response")
    /\ UNCHANGED <<queue, notified, callerVars, agentVars, curlVars, result>>

WritePending(r) ==
    /\ Callable(r, "write")
    /\ CompleteFuture(r, "response")
    /\ PausesTransfer(r, "write")
    /\ UNCHANGED <<queue, notified, callerVars, agentVars, outcome, result>>

(* curl finishes a transfer.  A paused one can only fail.                   *)
TransferEnds(r, o) ==
    /\ agentPc = "drive"
    /\ r \in Running
    /\ outcome[r] = "none"
    /\ o = "ok" => paused[r] = {}
    /\ outcome' = [outcome EXCEPT ![r] = o]
    /\ UNCHANGED <<queue, notified, callerVars, agentVars, paused, armed, replyVars>>

(* run collects curl's completion messages by token. *)
CollectMessages ==
    /\ agentPc = "drive"
    /\ batch' = {[token |-> k, result |-> outcome[requests[k]]] :
                   k \in {key \in Key : requests[key] # None /\ outcome[requests[key]] # "none"}}
    /\ agentPc' = "complete"
    /\ UNCHANGED <<queue, notified, callerVars, closeRequested, requests, wakerKey, exit, curlVars, replyVars>>

(* The selector, curl or a socket registration fails.                       *)
PollFails ==
    /\ MayFail
    /\ agentPc \in {"select", "drive"}
    /\ agentPc' = "clearing"
    /\ exit' = "error"
    /\ UNCHANGED <<queue, notified, callerVars, closeRequested, requests, wakerKey, batch, curlVars, replyVars>>

----------------------------------------------------------------------------
(* complete_request: out of the slab and of curl, then set_result, which    *)
(* publishes the result and completes the future if it is still pending.    *)

(* mutant: the entry stays in the slab *)
CompleteKeepsEntry(m) ==
    /\ agentPc = "complete"
    /\ m \in batch
    /\ requests[m.token] # None
    /\ batch' = batch \ {m}
    /\ result' = [result EXCEPT ![requests[m.token]] = m.result]
    /\ CompleteFuture(requests[m.token], IF m.result = "ok" THEN "response" ELSE "error")
    /\ UNCHANGED <<queue, notified, callerVars, agentPc, closeRequested, requests, wakerKey, exit, curlVars>>

CompleteRequest(m) ==
    /\ agentPc = "complete"
    /\ m \in batch
    /\ requests[m.token] # None
    /\ batch' = batch \ {m}
    /\ requests' = [requests EXCEPT ![m.token] = None]
    /\ paused' = [paused EXCEPT ![requests[m.token]] = {}]
    /\ result' = [result EXCEPT ![requests[m.token]] = m.result]
    /\ CompleteFuture(requests[m.token], IF m.result = "ok" THEN "response" ELSE "error")
    /\ UNCHANGED <<queue, notified, callerVars, agentPc, closeRequested, wakerKey, exit, armed, outcome>>

(* remove2 fails: the handle is dropped with its handler, run returns.      *)
CompleteFails(m) ==
    /\ MayFail
    /\ agentPc = "complete"
    /\ m \in batch
    /\ requests[m.token] # None
    /\ batch' = {}
    /\ requests' = [requests EXCEPT ![m.token] = None]
    /\ CompleteFuture(requests[m.token], "lost")
    /\ agentPc' = "clearing"
    /\ exit' = "error"
    /\ paused' = [paused EXCEPT ![requests[m.token]] = {}]
    /\ UNCHANGED <<queue, notified, callerVars, closeRequested, wakerKey, armed, outcome, result>>

TurnEnds ==
    /\ agentPc = "complete"
    /\ batch = {}
    /\ agentPc' = "messages"
    /\ UNCHANGED <<queue, notified, callerVars, closeRequested, requests, wakerKey, batch, exit, curlVars, replyVars>>

----------------------------------------------------------------------------
(* The way out: the loop breaks on close_requested; on this path and on     *)
(* every error the requests are dropped, then the receiver.                 *)

LoopBreaks ==
    /\ agentPc = "messages"
    /\ closeRequested
    /\ agentPc' = "clearing"
    /\ exit' = "ok"
    /\ UNCHANGED <<queue, notified, callerVars, closeRequested, requests, wakerKey, batch, curlVars, replyVars>>

ClearRequests ==
    /\ agentPc = "clearing"
    /\ agentPc' = "closing"
    /\ requests' = [k \in Key |-> None]
    /\ future' = [r \in Request |-> IF r \in Running /\ future[r] = "pending" THEN "lost" ELSE future[r]]
    /\ paused' = [r \in Request |-> {}]
    /\ UNCHANGED <<queue, notified, callerVars, closeRequested, wakerKey, batch, exit, armed, outcome, result>>

DropReceiver ==
    /\ agentPc = "closing"
    /\ agentPc' = "exited"
    /\ UNCHANGED <<queue, notified, callerVars, closeRequested, requests, wakerKey, batch, exit, curlVars, replyVars>>

----------------------------------------------------------------------------
(* Everybody is gone. *)
Gone ==
    /\ handlePc \in {"dropped", "panicked"}
    /\ agentPc = "exited"
    /\ UNCHANGED vars

HandleThread == SpawnReturns \/ DropPush \/ DropNotify \/ DropJoin \/ DropPanics

CallerThread ==
    \E r \in Request : SubmitPush(r) \/ SubmitWake(r) \/ SubmitPanics(r)
                       \/ ReceiveResponse(r) \/ DropBody(r) \/ CancelFuture(r)

WakerThread == \E r \in Request, d \in Dir : FirePush(r, d) \/ FireNotify(r, d) \/ FireTooLate(r, d)

HandleMessage ==
    \/ \E r \in Request : (\E k \in Key : BeginRequest(r, k)) \/ BeginFails(r)
    \/ \E d \in Dir, k \in Key : UnpauseRequest(d, k) \/ UnpauseUnknown(d, k)
    \/ RequestClose

Poll == SelectNotified \/ SelectActivity \/ SelectTimeout \/ PollFails

Callback == \E r \in Request : ReadPending(r) \/ WriteReady(r) \/ WritePending(r)

Curl == Callback \/ \E r \in Request, o \in Outcome : TransferEnds(r, o)

Complete == \E m \in batch : CompleteRequest(m) \/ CompleteFails(m)

AgentThread ==
    \/ StartAgent \/ StartFails
    \/ HandleMessage \/ PollMessagesEnds \/ Poll \/ Curl
    \/ CollectMessages \/ Complete \/ TurnEnds
    \/ LoopBreaks \/ ClearRequests \/ DropReceiver

Next == HandleThread \/ CallerThread \/ WakerThread \/ AgentThread \/ Gone

Spec == Init /\ [][Next]_vars

(* Threads that have work to do are scheduled.  Nothing is assumed of the   *)
(* server, of the bodies, of the callers, or of the timeout of one second   *)
(* that would wake the agent anyway.                                        *)
AgentStep ==
    \/ StartAgent \/ HandleMessage \/ PollMessagesEnds \/ SelectNotified
    \/ CollectMessages \/ Complete \/ TurnEnds
    \/ LoopBreaks \/ ClearRequests \/ DropReceiver

ThreadFairness ==
    /\ WF_vars(AgentStep)
    /\ WF_vars(SpawnReturns \/ DropNotify \/ DropJoin)
    /\ \A r \in Request : WF_vars(SubmitWake(r))
    /\ \A r \in Request, d \in Dir : WF_vars(FireNotify(r, d))

LiveSpec == Spec /\ ThreadFairness

----------------------------------------------------------------------------
(* A message pushed while the agent sleeps does not wait for the timeout:   *)
(* either the poller is notified, or whoever pushed is about to notify it   *)
(* (send_message and the two wakers push first, then wake).                 *)
NoStrandedMessage ==
    agentPc = "select" /\ queue # <<>> =>
        \/ notified
        \/ \E r \in Request : caller[r] = "pushed"
        \/ \E s \in Slot : wakerPc[s] = "pushed"
        \/ handlePc = "pushed"

(* No wake-up of a paused transfer is lost, whatever key it runs under and  *)
(* whoever ran under that key before: as long as the transfer runs, its     *)
(* waker is still held by somebody, or the channel carries the message that *)
(* resumes it.                                                              *)
NoLostUnpause ==
    \A r \in Running : \A d \in paused[r] :
        <<r, d>> \in armed \/ \E i \in DOMAIN queue : queue[i] = Unpause(d, wakerKey[r])

(* A completion message is applied to the request it is about: its token    *)
(* still names an occupied entry of the slab (Slab::remove would panic), and *)
(* what the caller is told is how curl finished that very transfer.         *)
OwnResult ==
    /\ \A m \in batch : requests[m.token] # None
    /\ \A r \in Request :
         /\ result[r] # "none" => result[r] = outcome[r] /\ r \notin Running
         /\ future[r] = "error" => outcome[r] = "error"

(* Closing is clean: an agent that was asked to close leaves nobody waiting *)
(* and no request behind in the channel.                                    *)
CleanShutdown ==
    agentPc = "exited" /\ exit = "ok" =>
        /\ \A r \in Request : caller[r] \notin {"pushed", "waiting", "reading"}
        /\ \A i \in DOMAIN queue : queue[i].type # "Execute"
        /\ Running = {}

(* The agent keeps the contract of AgentContract with its callers. *)
PhaseSeen ==
    [r \in Request |->
        IF caller[r] = "idle" THEN "new"
        ELSE IF caller[r] = "panicked" THEN "refused"
        ELSE IF caller[r] = "cancelled" THEN "cancelled"
        ELSE future[r]]

AgentSeen == IF agentPc = "exited" THEN exit ELSE "up"

Contract == INSTANCE AgentContract WITH phase <- PhaseSeen, agent <- AgentSeen

KeepsContract == Contract!Spec

(* Dropping the handle ends, whatever the transfers are doing: Close wakes  *)
(* a sleeping agent, and nothing else is waited for.                        *)
DropEnds == handlePc = "joining" ~> handlePc = "dropped"

(* No message stays in the channel: as long as there is one, the agent      *)
(* comes back to it, without help from the timeout.  Together with          *)
(* NoLostUnpause: whoever fires the waker of a paused transfer resumes it.  *)
MessagesAreHandled ==
    []<>(queue = <<>> \/ agentPc = "exited") \/ []<><<HandleMessage>>_vars

(* Whoever fires the waker of a paused transfer resumes it: the transfer is *)
(* tried again or is over, whatever else the channel holds, and the agent   *)
(* does not need a timeout or socket activity for it.                       *)
FiredWakerResumes ==
    \A r \in Request, d \in Dir :
        r \in Running /\ d \in paused[r] /\ <<r, d>> \notin armed
            ~> r \notin Running \/ d \notin paused[r] \/ <<r, d>> \in armed

(* What INTERNALS.md promises of an agent that fails: its errors reach the  *)
(* thread that waits for it.  A request pushed before the receiver is       *)
(* dropped stays in the channel, and its future stays pending.              *)
FailureReachesCallers ==
    agentPc = "exited" => \A r \in Request : caller[r] = "waiting" => future[r] # "pending"
=============================================================================
