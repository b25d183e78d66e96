---------------------------- MODULE AgentProofs ----------------------------
(***************************************************************************)
(* Proofs about the agent, for any set of requests and keys: its types, the *)
(* invariant of AgentInvariant and the safety properties that follow, and   *)
(* that every step keeps the contract of AgentContract.                     *)
(***************************************************************************)
EXTENDS AgentInvariant, TLAPS

(* The initial state, in which nothing is submitted and the agent starts,   *)
(* has the types. *)
LEMMA InitTypeOK == Init => TypeOK
<1> SUFFICES ASSUME Init PROVE TypeOK
  OBVIOUS
<1> USE DEF Init
<1>1. queue \in Seq(Message) /\ batch \in SUBSET [token : Key, result : Outcome]
  OBVIOUS
<1>2. /\ wakerPc \in [Slot -> {"idle", "pushed"}]
      /\ requests \in [Key -> Request \cup {None}]
      /\ wakerKey \in [Request -> Key \cup {None}]
  OBVIOUS
<1>3. paused \in [Request -> SUBSET Dir] /\ armed \in SUBSET Slot
  OBVIOUS
<1>4. /\ outcome \in [Request -> Outcome \cup {"none"}]
      /\ result \in [Request -> Outcome \cup {"none"}]
  OBVIOUS
<1>5. notified \in BOOLEAN /\ closeRequested \in BOOLEAN
  OBVIOUS
<1> QED
  BY <1>1, <1>2, <1>3, <1>4, <1>5 DEF TypeOK

(* Every step keeps the types: one case per action. *)
LEMMA StepTypeOK == TypeOK /\ [Next]_vars => TypeOK'
<1> SUFFICES ASSUME TypeOK, [Next]_vars PROVE TypeOK'
  OBVIOUS
<1> USE DEF TypeOK, agentVars, callerVars, curlVars, replyVars
<1>1. CASE StartAgent
  BY <1>1 DEF StartAgent
<1>2. CASE StartFails
  BY <1>2 DEF StartFails
<1>3. CASE SpawnReturns
  BY <1>3 DEF SpawnReturns
<1>4. CASE DropPush
  BY <1>4 DEF DropPush, Message
<1>5. CASE DropNotify
  BY <1>5 DEF DropNotify
<1>6. CASE DropJoin
  BY <1>6 DEF DropJoin
<1>7. CASE DropPanics
  BY <1>7 DEF DropPanics
<1>8. CASE RequestClose
  BY <1>8 DEF RequestClose, Receives
<1>9. CASE PollMessagesEnds
  BY <1>9 DEF PollMessagesEnds
<1>10. CASE SelectNotified
  BY <1>10 DEF SelectNotified, Wake
<1>11. CASE SelectActivity
  BY <1>11 DEF SelectActivity, Wake
<1>12. CASE SelectTimeout
  BY <1>12 DEF SelectTimeout, Wake
<1>13. CASE PollFails
  BY <1>13 DEF PollFails
<1>14. CASE CollectMessages
  BY <1>14 DEF CollectMessages
<1>15. CASE TurnEnds
  BY <1>15 DEF TurnEnds
<1>16. CASE LoopBreaks
  BY <1>16 DEF LoopBreaks
<1>17. CASE ClearRequests
  BY <1>17 DEF ClearRequests
<1>18. CASE DropReceiver
  BY <1>18 DEF DropReceiver
<1>19. ASSUME NEW r \in Request, SubmitPush(r) PROVE TypeOK'
  BY <1>19 DEF SubmitPush, Message
<1>20. ASSUME NEW r \in Request, SubmitWake(r) PROVE TypeOK'
  BY <1>20 DEF SubmitWake
<1>21. ASSUME NEW r \in Request, SubmitPanics(r) PROVE TypeOK'
  BY <1>21 DEF SubmitPanics
<1>22. ASSUME NEW r \in Request, ReceiveResponse(r) PROVE TypeOK'
  BY <1>22 DEF ReceiveResponse
<1>23. ASSUME NEW r \in Request, DropBody(r) PROVE TypeOK'
  BY <1>23 DEF DropBody
<1>24. ASSUME NEW r \in Request, CancelFuture(r) PROVE TypeOK'
  BY <1>24 DEF CancelFuture
<1>25. ASSUME NEW r \in Request, BeginFails(r) PROVE TypeOK'
  BY <1>25 DEF BeginFails, Receives
<1>26. ASSUME NEW r \in Request, ReadPending(r) PROVE TypeOK'
  BY <1>26 DEF ReadPending, Callable, PausesTransfer, Slot
<1>27. ASSUME NEW r \in Request, WriteReady(r) PROVE TypeOK'
  BY <1>27 DEF WriteReady, Callable, CompleteFuture
<1>28. ASSUME NEW r \in Request, WritePending(r) PROVE TypeOK'
  BY <1>28 DEF WritePending, Callable, PausesTransfer, CompleteFuture, Slot
<1>29. ASSUME NEW r \in Request, NEW d \in Dir, FirePush(r, d) PROVE TypeOK'
  BY <1>29 DEF FirePush, Message, Slot, Unpause
<1>30. ASSUME NEW r \in Request, NEW d \in Dir, FireNotify(r, d) PROVE TypeOK'
  BY <1>30 DEF FireNotify, Slot
<1>31. ASSUME NEW r \in Request, NEW d \in Dir, FireTooLate(r, d) PROVE TypeOK'
  BY <1>31 DEF FireTooLate
<1>32. ASSUME NEW r \in Request, NEW k \in Key, BeginRequest(r, k) PROVE TypeOK'
  BY <1>32 DEF BeginRequest, Receives
<1>33. ASSUME NEW d \in Dir, NEW k \in Key, UnpauseRequest(d, k) PROVE TypeOK'
  BY <1>33 DEF UnpauseRequest, Receives, Slot
<1>34. ASSUME NEW d \in Dir, NEW k \in Key, UnpauseUnknown(d, k) PROVE TypeOK'
  BY <1>34 DEF UnpauseUnknown, Receives
<1>35. ASSUME NEW r \in Request, NEW o \in Outcome, TransferEnds(r, o) PROVE TypeOK'
  BY <1>35 DEF TransferEnds
<1>36. ASSUME NEW m \in batch, CompleteRequest(m) PROVE TypeOK'
  BY <1>36 DEF CompleteRequest, CompleteFuture
<1>37. ASSUME NEW m \in batch, CompleteFails(m) PROVE TypeOK'
  BY <1>37 DEF CompleteFails, CompleteFuture
<1>38. CASE Gone \/ UNCHANGED vars
  BY <1>38 DEF Gone, vars
<1> QED
  BY <1>1, <1>2, <1>3, <1>4, <1>5, <1>6, <1>7, <1>8, <1>9, <1>10, <1>11, <1>12, <1>13, <1>14, <1>15, <1>16, <1>17, <1>18, <1>19, <1>20, <1>21, <1>22, <1>23, <1>24, <1>25, <1>26, <1>27, <1>28, <1>29, <1>30, <1>31, <1>32, <1>33, <1>34, <1>35, <1>36, <1>37, <1>38
     DEF Next, HandleThread, CallerThread, WakerThread, AgentThread, HandleMessage, Poll, Callback, Curl, Complete

(* Type correctness of the agent, its channel, its slab and its callers, for *)
(* any requests and keys.                                                   *)
THEOREM TypeCorrect == Spec => []TypeOK
  BY InitTypeOK, StepTypeOK, PTL DEF Spec

----------------------------------------------------------------------------
(* No message is stranded.  The property is inductive as it stands: the     *)
(* agent goes to sleep on an empty channel only, every push puts its thread *)
(* between the push and the notification, and only the agent's waking up    *)
(* takes the notification back.                                             *)
THEOREM NothingStranded == Spec => []NoStrandedMessage
<1>1. Init => NoStrandedMessage
  BY DEF Init, NoStrandedMessage
<1>2. TypeOK /\ NoStrandedMessage /\ [Next]_vars => NoStrandedMessage'
  <2> SUFFICES ASSUME TypeOK, NoStrandedMessage, [Next]_vars PROVE NoStrandedMessage'
    OBVIOUS
  <2> USE DEF NoStrandedMessage, TypeOK, agentVars, callerVars
  <2>1. CASE HandleThread
    BY <2>1 DEF HandleThread, SpawnReturns, DropPush, DropNotify, DropJoin, DropPanics
  <2>2. CASE CallerThread
    BY <2>2 DEF CallerThread, SubmitPush, SubmitWake, SubmitPanics, ReceiveResponse, DropBody, CancelFuture
  <2>3. CASE WakerThread
    BY <2>3 DEF WakerThread, FirePush, FireNotify, FireTooLate, Slot
  <2>4. CASE AgentThread
    <3>1. agentPc' = "select" => /\ queue' = queue /\ notified' = notified
                                 /\ (agentPc = "select" \/ queue = <<>>)
      BY <2>4 DEF AgentThread, StartAgent, StartFails, HandleMessage, BeginRequest, BeginFails, UnpauseRequest,
                  UnpauseUnknown, RequestClose, Receives, PollMessagesEnds, Poll, SelectNotified, SelectActivity,
                  SelectTimeout, Wake, PollFails, Curl, Callback, ReadPending, WriteReady, WritePending, Callable,
                  TransferEnds, CollectMessages, Complete, CompleteRequest, CompleteFails, TurnEnds, LoopBreaks,
                  ClearRequests, DropReceiver
    <3>2. UNCHANGED callerVars
      BY <2>4 DEF AgentThread, StartAgent, StartFails, HandleMessage, BeginRequest, BeginFails, UnpauseRequest,
                  UnpauseUnknown, RequestClose, PollMessagesEnds, Poll, SelectNotified, SelectActivity,
                  SelectTimeout, Wake, PollFails, Curl, Callback, ReadPending, WriteReady, WritePending,
                  TransferEnds, CollectMessages, Complete, CompleteRequest, CompleteFails, TurnEnds, LoopBreaks,
                  ClearRequests, DropReceiver
    <3> QED
      BY <3>1, <3>2
  <2>5. CASE Gone \/ UNCHANGED vars
    BY <2>5 DEF Gone, vars
  <2> QED
    BY <2>1, <2>2, <2>3, <2>4, <2>5 DEF Next
<1> QED
  BY <1>1, <1>2, TypeCorrect, PTL DEF Spec

----------------------------------------------------------------------------
(* The invariant is inductive. *)

(* What a push does to the messages in the channel. *)
LEMMA QueuedAppend ==
    ASSUME TypeOK, NEW m \in Message, queue' = Append(queue, m)
    PROVE  \A x : Queued(x)' <=> Queued(x) \/ x = m
<1>1. queue \in Seq(Message)
  BY DEF TypeOK
<1> QED
  BY <1>1 DEF Queued

(* What a receive does to them: only the first one goes. *)
LEMMA QueuedTail ==
    ASSUME TypeOK, queue # <<>>, queue' = Tail(queue)
    PROVE  /\ \A x : Queued(x)' => Queued(x)
           /\ \A x : Queued(x) => x = Head(queue) \/ Queued(x)'
           /\ Queued(Head(queue))
<1>1. queue \in Seq(Message)
  BY DEF TypeOK
<1>2. Len(queue) \in Nat /\ Len(queue) > 0 /\ DOMAIN queue = 1..Len(queue)
  BY <1>1
<1>3. DOMAIN queue' = 1..(Len(queue) - 1) /\ \A i \in 1..(Len(queue) - 1) : queue'[i] = queue[i + 1]
  BY <1>1, <1>2
<1>4. ASSUME NEW x, Queued(x)' PROVE Queued(x)
  <2>1. PICK i \in DOMAIN queue' : queue'[i] = x
    BY <1>4 DEF Queued
  <2> QED
    BY <2>1, <1>2, <1>3 DEF Queued
<1>5. ASSUME NEW x, Queued(x), x # Head(queue) PROVE Queued(x)'
  <2>1. PICK i \in DOMAIN queue : queue[i] = x
    BY <1>5 DEF Queued
  <2>2. i # 1
    BY <2>1, <1>5, <1>1, <1>2
  <2>3. i - 1 \in DOMAIN queue' /\ queue'[i - 1] = x
    BY <2>1, <2>2, <1>2, <1>3
  <2> QED
    BY <2>3 DEF Queued
<1>6. Queued(Head(queue))
  BY <1>1, <1>2 DEF Queued
<1> QED
  BY <1>4, <1>5, <1>6

(* An Execute the agent receives is a new request, and the only one.        *)
LEMMA ReceivedExecute ==
    ASSUME TypeOK, KeysInv, NEW r \in Request, Receives(Execute(r))
    PROVE  /\ Untouched(r) /\ caller[r] \notin {"idle", "panicked"}
           /\ ~Queued(Execute(r))'
           /\ \A x : Queued(x)' => Queued(x)
<1>1. queue # <<>> /\ Head(queue) = Execute(r) /\ queue' = Tail(queue) /\ queue \in Seq(Message)
  BY DEF Receives, TypeOK
<1>2. Queued(Execute(r)) /\ \A x : Queued(x)' => Queued(x)
  BY <1>1, QueuedTail
<1>3. Untouched(r) /\ caller[r] \notin {"idle", "panicked"}
  BY <1>2 DEF KeysInv, QueuedIsUntouched
<1>4. ASSUME Queued(Execute(r))' PROVE FALSE
  <2>1. PICK i \in DOMAIN queue' : queue'[i] = Execute(r)
    BY <1>4 DEF Queued
  <2>2. /\ i \in Nat \ {0} /\ i + 1 \in DOMAIN queue /\ queue[i + 1] = Execute(r)
        /\ 1 \in DOMAIN queue /\ queue[1] = Execute(r)
    BY <1>1, <2>1
  <2>3. Execute(r).type = "Execute"
    BY DEF Execute
  <2>4. 1 = i + 1
    BY <2>2, <2>3 DEF KeysInv, QueuedOnce
  <2> QED
    BY <2>2, <2>4
<1> QED
  BY <1>2, <1>3, <1>4

(* A request that runs has a key. *)
LEMMA RunningHasKey ==
    ASSUME TypeOK, KeysMatch
    PROVE  /\ \A r \in Running : wakerKey[r] # None
           /\ \A k \in Key : requests[k] # None => requests[k] \in Running /\ wakerKey[requests[k]] # None
  BY NoneAssumption DEF TypeOK, KeysMatch, Running

(* Keys and wakers match: a key is taken by a request that never had one.   *)
LEMMA StepKeysMatch == TypeOK /\ KeysInv /\ [Next]_vars => KeysMatch'
<1> SUFFICES ASSUME TypeOK, KeysInv, [Next]_vars PROVE KeysMatch'
  OBVIOUS
<1> USE DEF TypeOK, KeysInv, KeysMatch, agentVars, callerVars, curlVars, replyVars
<1>1. CASE HandleThread
  BY <1>1 DEF HandleThread, SpawnReturns, DropPush, DropNotify, DropJoin, DropPanics
<1>2. CASE CallerThread
  BY <1>2 DEF CallerThread, SubmitPush, SubmitWake, SubmitPanics, ReceiveResponse, DropBody, CancelFuture
<1>3. CASE WakerThread
  BY <1>3 DEF WakerThread, FirePush, FireNotify, FireTooLate
<1>4. CASE StartAgent \/ StartFails
  BY <1>4 DEF StartAgent, StartFails
<1>5. ASSUME NEW r \in Request, NEW k \in Key, BeginRequest(r, k) PROVE KeysMatch'
  <2>1. wakerKey[r] = None
    BY <1>5, ReceivedExecute DEF BeginRequest, Untouched
  <2>2. requests[k] = None /\ requests' = [requests EXCEPT ![k] = r] /\ wakerKey' = [wakerKey EXCEPT ![r] = k]
    BY <1>5 DEF BeginRequest
  <2> QED
    BY <2>1, <2>2, NoneAssumption
<1>6. ASSUME NEW r \in Request, BeginFails(r) PROVE KeysMatch'
  BY <1>6 DEF BeginFails, Receives
<1>7. ASSUME NEW d \in Dir, NEW k \in Key, UnpauseRequest(d, k) PROVE KeysMatch'
  BY <1>7 DEF UnpauseRequest, Receives
<1>8. ASSUME NEW d \in Dir, NEW k \in Key, UnpauseUnknown(d, k) PROVE KeysMatch'
  BY <1>8 DEF UnpauseUnknown, Receives
<1>9. CASE RequestClose
  BY <1>9 DEF RequestClose, Receives
<1>10. CASE PollMessagesEnds \/ Poll
  BY <1>10 DEF Poll, PollMessagesEnds, SelectNotified, Wake, SelectActivity, SelectTimeout, PollFails
<1>11. CASE Curl
  BY <1>11 DEF Curl, Callback, ReadPending, Callable, PausesTransfer, WriteReady, CompleteFuture,
         WritePending, TransferEnds
<1>12. CASE Complete
  BY <1>12 DEF Complete, CompleteRequest, CompleteFuture, CompleteFails
<1>13. CASE CollectMessages \/ TurnEnds \/ LoopBreaks
  BY <1>13 DEF CollectMessages, TurnEnds, LoopBreaks
<1>14. CASE ClearRequests \/ DropReceiver
  BY <1>14 DEF ClearRequests, DropReceiver
<1>15. CASE Gone \/ UNCHANGED vars
  BY <1>15 DEF Gone, vars
<1> QED
  BY <1>1, <1>2, <1>3, <1>4, <1>5, <1>6, <1>7, <1>8, <1>9, <1>10, <1>11, <1>12, <1>13, <1>14, <1>15
     DEF Next, AgentThread, HandleMessage

(* Only requests the agent has are given keys and answers. *)
LEMMA StepIdleIsUntouched == TypeOK /\ KeysInv /\ [Next]_vars => IdleIsUntouched'
<1> SUFFICES ASSUME TypeOK, KeysInv, [Next]_vars PROVE IdleIsUntouched'
  OBVIOUS
<1>a. /\ \A r \in Running : wakerKey[r] # None
      /\ \A m \in batch : requests[m.token] # None => wakerKey[requests[m.token]] # None
  BY RunningHasKey DEF KeysInv, TypeOK
<1> USE DEF TypeOK, KeysInv, IdleIsUntouched, Untouched, agentVars, callerVars, curlVars, replyVars
<1>1. CASE HandleThread
  BY <1>1, <1>a DEF HandleThread, SpawnReturns, DropPush, DropNotify, DropJoin, DropPanics
<1>2. CASE CallerThread
  BY <1>2, <1>a DEF CallerThread, SubmitPush, SubmitWake, SubmitPanics, ReceiveResponse, DropBody,
         CancelFuture
<1>3. CASE WakerThread
  BY <1>3, <1>a DEF WakerThread, FirePush, FireNotify, FireTooLate
<1>4. CASE StartAgent \/ StartFails
  BY <1>4, <1>a DEF StartAgent, StartFails
<1>5. ASSUME NEW r \in Request, NEW k \in Key, BeginRequest(r, k) PROVE IdleIsUntouched'
  BY <1>5, ReceivedExecute DEF BeginRequest
<1>6. ASSUME NEW r \in Request, BeginFails(r) PROVE IdleIsUntouched'
  BY <1>6, ReceivedExecute DEF BeginFails
<1>7. ASSUME NEW d \in Dir, NEW k \in Key, UnpauseRequest(d, k) PROVE IdleIsUntouched'
  BY <1>7, <1>a DEF UnpauseRequest, Receives
<1>8. ASSUME NEW d \in Dir, NEW k \in Key, UnpauseUnknown(d, k) PROVE IdleIsUntouched'
  BY <1>8, <1>a DEF UnpauseUnknown, Receives
<1>9. CASE RequestClose
  BY <1>9, <1>a DEF RequestClose, Receives
<1>10. CASE PollMessagesEnds \/ Poll
  BY <1>10, <1>a DEF Poll, PollMessagesEnds, SelectNotified, Wake, SelectActivity, SelectTimeout, PollFails
<1>11. CASE Curl
  BY <1>11, <1>a DEF Curl, Callback, ReadPending, Callable, PausesTransfer, WriteReady, CompleteFuture,
         WritePending, TransferEnds
<1>12. CASE Complete
  BY <1>12, <1>a DEF Complete, CompleteRequest, CompleteFuture, CompleteFails
<1>13. CASE CollectMessages \/ TurnEnds \/ LoopBreaks
  BY <1>13, <1>a DEF CollectMessages, TurnEnds, LoopBreaks
<1>14. CASE ClearRequests \/ DropReceiver
  BY <1>14, <1>a DEF ClearRequests, DropReceiver
<1>15. CASE Gone \/ UNCHANGED vars
  BY <1>15, <1>a DEF Gone, vars
<1> QED
  BY <1>1, <1>2, <1>3, <1>4, <1>5, <1>6, <1>7, <1>8, <1>9, <1>10, <1>11, <1>12, <1>13, <1>14, <1>15
     DEF Next, AgentThread, HandleMessage

(* A request in the channel has neither key nor answer. *)
LEMMA StepQueuedIsUntouched == TypeOK /\ KeysInv /\ [Next]_vars => QueuedIsUntouched'
<1> SUFFICES ASSUME TypeOK, KeysInv, [Next]_vars PROVE QueuedIsUntouched'
  OBVIOUS
<1>a. /\ \A r \in Running : wakerKey[r] # None
      /\ \A m \in batch : requests[m.token] # None => wakerKey[requests[m.token]] # None
  BY RunningHasKey DEF KeysInv, TypeOK
<1> USE DEF TypeOK, KeysInv, QueuedIsUntouched, IdleIsUntouched, Untouched, agentVars, callerVars, curlVars, replyVars
<1>1. CASE SpawnReturns
  BY <1>1, <1>a DEF SpawnReturns, Queued
<1>2. CASE DropPush
  <2>1. \A x : Queued(x)' <=> Queued(x) \/ x = Close
    BY <1>2, QueuedAppend DEF DropPush, Message
  <2> QED
    BY <2>1, <1>2 DEF DropPush, Execute, Unpause, Close
<1>3. CASE DropNotify
  BY <1>3, <1>a DEF DropNotify, Queued
<1>4. CASE DropJoin
  BY <1>4, <1>a DEF DropJoin, Queued
<1>5. CASE DropPanics
  BY <1>5, <1>a DEF DropPanics, Queued
<1>6. ASSUME NEW r \in Request, SubmitPush(r) PROVE QueuedIsUntouched'
  <2>1. \A x : Queued(x)' <=> Queued(x) \/ x = Execute(r)
    BY <1>6, QueuedAppend DEF SubmitPush, Message
  <2> QED
    BY <2>1, <1>6 DEF SubmitPush, Execute, Unpause, Close
<1>7. ASSUME NEW r \in Request, SubmitWake(r) PROVE QueuedIsUntouched'
  BY <1>7, <1>a DEF SubmitWake, Queued
<1>8. ASSUME NEW r \in Request, SubmitPanics(r) PROVE QueuedIsUntouched'
  BY <1>8, <1>a DEF SubmitPanics, Queued
<1>9. ASSUME NEW r \in Request, ReceiveResponse(r) PROVE QueuedIsUntouched'
  BY <1>9, <1>a DEF ReceiveResponse, Queued
<1>10. ASSUME NEW r \in Request, DropBody(r) PROVE QueuedIsUntouched'
  BY <1>10, <1>a DEF DropBody, Queued
<1>11. ASSUME NEW r \in Request, CancelFuture(r) PROVE QueuedIsUntouched'
  BY <1>11, <1>a DEF CancelFuture, Queued
<1>12. ASSUME NEW r \in Request, NEW d \in Dir, FirePush(r, d) PROVE QueuedIsUntouched'
  <2>1. \A x : Queued(x)' <=> Queued(x) \/ x = Unpause(d, wakerKey[r])
    BY <1>12, QueuedAppend DEF FirePush, Message
  <2> QED
    BY <2>1, <1>12 DEF FirePush, Execute, Unpause, Close
<1>13. ASSUME NEW r \in Request, NEW d \in Dir, FireNotify(r, d) PROVE QueuedIsUntouched'
  BY <1>13, <1>a DEF FireNotify, Queued
<1>14. ASSUME NEW r \in Request, NEW d \in Dir, FireTooLate(r, d) PROVE QueuedIsUntouched'
  BY <1>14, <1>a DEF FireTooLate, Queued
<1>15. CASE StartAgent \/ StartFails
  BY <1>15, <1>a DEF StartAgent, StartFails, Queued
<1>16. ASSUME NEW r \in Request, NEW k \in Key, BeginRequest(r, k) PROVE QueuedIsUntouched'
  BY <1>16, ReceivedExecute DEF BeginRequest, Execute
<1>17. ASSUME NEW r \in Request, BeginFails(r) PROVE QueuedIsUntouched'
  BY <1>17, ReceivedExecute DEF BeginFails, Execute
<1>18. ASSUME NEW d \in Dir, NEW k \in Key, UnpauseRequest(d, k) PROVE QueuedIsUntouched'
  <2>1. \A x : Queued(x)' => Queued(x)
    BY <1>18, QueuedTail DEF UnpauseRequest, Receives
  <2> QED
    BY <2>1, <1>18 DEF UnpauseRequest
<1>19. ASSUME NEW d \in Dir, NEW k \in Key, UnpauseUnknown(d, k) PROVE QueuedIsUntouched'
  <2>1. \A x : Queued(x)' => Queued(x)
    BY <1>19, QueuedTail DEF UnpauseUnknown, Receives
  <2> QED
    BY <2>1, <1>19 DEF UnpauseUnknown
<1>20. CASE RequestClose
  <2>1. \A x : Queued(x)' => Queued(x)
    BY <1>20, QueuedTail DEF RequestClose, Receives
  <2> QED
    BY <2>1, <1>20 DEF RequestClose
<1>21. CASE PollMessagesEnds \/ Poll
  BY <1>21, <1>a DEF Poll, PollMessagesEnds, SelectNotified, Wake, SelectActivity, SelectTimeout, PollFails,
         Queued
<1>22. CASE Curl
  BY <1>22, <1>a DEF Curl, Callback, ReadPending, Callable, PausesTransfer, WriteReady, CompleteFuture,
         WritePending, TransferEnds, Queued
<1>23. CASE Complete
  BY <1>23, <1>a DEF Complete, CompleteRequest, CompleteFuture, CompleteFails, Queued
<1>24. CASE CollectMessages \/ TurnEnds \/ LoopBreaks
  BY <1>24, <1>a DEF CollectMessages, TurnEnds, LoopBreaks, Queued
<1>25. CASE ClearRequests \/ DropReceiver
  BY <1>25, <1>a DEF ClearRequests, DropReceiver, Queued
<1>26. CASE Gone \/ UNCHANGED vars
  BY <1>26, <1>a DEF Gone, vars, Queued
<1> QED
  BY <1>1, <1>2, <1>3, <1>4, <1>5, <1>6, <1>7, <1>8, <1>9, <1>10, <1>11, <1>12, <1>13, <1>14, <1>15, <1>16, <1>17, <1>18, <1>19, <1>20, <1>21, <1>22, <1>23, <1>24, <1>25, <1>26
     DEF Next, AgentThread, HandleThread, CallerThread, WakerThread, HandleMessage

(* A request is in the channel once. *)
LEMMA StepQueuedOnce == TypeOK /\ KeysInv /\ [Next]_vars => QueuedOnce'
<1> SUFFICES ASSUME TypeOK, KeysInv, [Next]_vars PROVE QueuedOnce'
  OBVIOUS
<1>t. ASSUME queue # <<>>, queue' = Tail(queue) PROVE QueuedOnce'
  <2>1. \A i \in DOMAIN queue' : i \in Int /\ i + 1 \in DOMAIN queue /\ queue'[i] = queue[i + 1]
    BY <1>t DEF TypeOK
  <2> QED
    BY <2>1 DEF KeysInv, QueuedOnce
<1> USE DEF TypeOK, KeysInv, QueuedIsUntouched, QueuedOnce, agentVars, callerVars, curlVars, replyVars
<1>1. CASE SpawnReturns
  BY <1>1 DEF SpawnReturns
<1>2. CASE DropPush
  BY <1>2 DEF DropPush, Close
<1>3. CASE DropNotify
  BY <1>3 DEF DropNotify
<1>4. CASE DropJoin
  BY <1>4 DEF DropJoin
<1>5. CASE DropPanics
  BY <1>5 DEF DropPanics
<1>6. ASSUME NEW r \in Request, SubmitPush(r) PROVE QueuedOnce'
  <2>1. ~Queued(Execute(r)) /\ queue' = Append(queue, Execute(r))
    BY <1>6 DEF SubmitPush
  <2> QED
    BY <2>1, <1>6 DEF Queued
<1>7. ASSUME NEW r \in Request, SubmitWake(r) PROVE QueuedOnce'
  BY <1>7 DEF SubmitWake
<1>8. ASSUME NEW r \in Request, SubmitPanics(r) PROVE QueuedOnce'
  BY <1>8 DEF SubmitPanics
<1>9. ASSUME NEW r \in Request, ReceiveResponse(r) PROVE QueuedOnce'
  BY <1>9 DEF ReceiveResponse
<1>10. ASSUME NEW r \in Request, DropBody(r) PROVE QueuedOnce'
  BY <1>10 DEF DropBody
<1>11. ASSUME NEW r \in Request, CancelFuture(r) PROVE QueuedOnce'
  BY <1>11 DEF CancelFuture
<1>12. ASSUME NEW r \in Request, NEW d \in Dir, FirePush(r, d) PROVE QueuedOnce'
  BY <1>12 DEF FirePush, Unpause
<1>13. ASSUME NEW r \in Request, NEW d \in Dir, FireNotify(r, d) PROVE QueuedOnce'
  BY <1>13 DEF FireNotify
<1>14. ASSUME NEW r \in Request, NEW d \in Dir, FireTooLate(r, d) PROVE QueuedOnce'
  BY <1>14 DEF FireTooLate
<1>15. CASE StartAgent \/ StartFails
  BY <1>15 DEF StartAgent, StartFails
<1>16. ASSUME NEW r \in Request, NEW k \in Key, BeginRequest(r, k) PROVE QueuedOnce'
  BY <1>16, <1>t DEF BeginRequest, Receives
<1>17. ASSUME NEW r \in Request, BeginFails(r) PROVE QueuedOnce'
  BY <1>17, <1>t DEF BeginFails, Receives
<1>18. ASSUME NEW d \in Dir, NEW k \in Key, UnpauseRequest(d, k) PROVE QueuedOnce'
  BY <1>18, <1>t DEF UnpauseRequest, Receives
<1>19. ASSUME NEW d \in Dir, NEW k \in Key, UnpauseUnknown(d, k) PROVE QueuedOnce'
  BY <1>19, <1>t DEF UnpauseUnknown, Receives
<1>20. CASE RequestClose
  BY <1>20, <1>t DEF RequestClose, Receives
<1>21. CASE PollMessagesEnds \/ Poll
  BY <1>21 DEF Poll, PollMessagesEnds, SelectNotified, Wake, SelectActivity, SelectTimeout, PollFails
<1>22. CASE Curl
  BY <1>22 DEF Curl, Callback, ReadPending, Callable, PausesTransfer, WriteReady, CompleteFuture,
         WritePending, TransferEnds
<1>23. CASE Complete
  BY <1>23 DEF Complete, CompleteRequest, CompleteFuture, CompleteFails
<1>24. CASE CollectMessages \/ TurnEnds \/ LoopBreaks
  BY <1>24 DEF CollectMessages, TurnEnds, LoopBreaks
<1>25. CASE ClearRequests \/ DropReceiver
  BY <1>25 DEF ClearRequests, DropReceiver
<1>26. CASE Gone \/ UNCHANGED vars
  BY <1>26 DEF Gone, vars
<1> QED
  BY <1>1, <1>2, <1>3, <1>4, <1>5, <1>6, <1>7, <1>8, <1>9, <1>10, <1>11, <1>12, <1>13, <1>14, <1>15, <1>16, <1>17, <1>18, <1>19, <1>20, <1>21, <1>22, <1>23, <1>24, <1>25, <1>26
     DEF Next, AgentThread, HandleThread, CallerThread, WakerThread, HandleMessage

(* Only transfers that run are paused, end, and have results. *)
LEMMA StepNeverRan == TypeOK /\ KeysInv /\ [Next]_vars => NeverRan'
<1> SUFFICES ASSUME TypeOK, KeysInv, [Next]_vars PROVE NeverRan'
  OBVIOUS
<1>a. /\ \A r \in Running : wakerKey[r] # None
      /\ \A m \in batch : requests[m.token] # None => wakerKey[requests[m.token]] # None
  BY RunningHasKey DEF KeysInv, TypeOK
<1> USE DEF TypeOK, KeysInv, NeverRan, Untouched, agentVars, callerVars, curlVars, replyVars
<1>1. CASE HandleThread
  BY <1>1, <1>a DEF HandleThread, SpawnReturns, DropPush, DropNotify, DropJoin, DropPanics
<1>2. CASE CallerThread
  BY <1>2, <1>a DEF CallerThread, SubmitPush, SubmitWake, SubmitPanics, ReceiveResponse, DropBody,
         CancelFuture
<1>3. CASE WakerThread
  BY <1>3, <1>a DEF WakerThread, FirePush, FireNotify, FireTooLate
<1>4. CASE StartAgent \/ StartFails
  BY <1>4, <1>a DEF StartAgent, StartFails
<1>5. ASSUME NEW r \in Request, NEW k \in Key, BeginRequest(r, k) PROVE NeverRan'
  BY <1>5, NoneAssumption DEF BeginRequest
<1>6. ASSUME NEW r \in Request, BeginFails(r) PROVE NeverRan'
  BY <1>6, <1>a DEF BeginFails, Receives
<1>7. ASSUME NEW d \in Dir, NEW k \in Key, UnpauseRequest(d, k) PROVE NeverRan'
  BY <1>7, <1>a DEF UnpauseRequest, Receives
<1>8. ASSUME NEW d \in Dir, NEW k \in Key, UnpauseUnknown(d, k) PROVE NeverRan'
  BY <1>8, <1>a DEF UnpauseUnknown, Receives
<1>9. CASE RequestClose
  BY <1>9, <1>a DEF RequestClose, Receives
<1>10. CASE PollMessagesEnds \/ Poll
  BY <1>10, <1>a DEF Poll, PollMessagesEnds, SelectNotified, Wake, SelectActivity, SelectTimeout, PollFails
<1>11. CASE Curl
  BY <1>11, <1>a DEF Curl, Callback, ReadPending, Callable, PausesTransfer, WriteReady, CompleteFuture,
         WritePending, TransferEnds
<1>12. CASE Complete
  BY <1>12, <1>a DEF Complete, CompleteRequest, CompleteFuture, CompleteFails
<1>13. CASE CollectMessages \/ TurnEnds \/ LoopBreaks
  BY <1>13, <1>a DEF CollectMessages, TurnEnds, LoopBreaks
<1>14. CASE ClearRequests \/ DropReceiver
  BY <1>14, <1>a DEF ClearRequests, DropReceiver
<1>15. CASE Gone \/ UNCHANGED vars
  BY <1>15, <1>a DEF Gone, vars
<1> QED
  BY <1>1, <1>2, <1>3, <1>4, <1>5, <1>6, <1>7, <1>8, <1>9, <1>10, <1>11, <1>12, <1>13, <1>14, <1>15
     DEF Next, AgentThread, HandleMessage

(* The slab is cleared on every way out. *)
LEMMA StepSlabEmpty == TypeOK /\ KeysInv /\ [Next]_vars => SlabEmpty'
<1> SUFFICES ASSUME TypeOK, KeysInv, [Next]_vars PROVE SlabEmpty'
  OBVIOUS
<1> USE DEF TypeOK, KeysInv, SlabEmpty, agentVars, callerVars, curlVars, replyVars
<1>1. CASE HandleThread
  BY <1>1 DEF HandleThread, SpawnReturns, DropPush, DropNotify, DropJoin, DropPanics
<1>2. CASE CallerThread
  BY <1>2 DEF CallerThread, SubmitPush, SubmitWake, SubmitPanics, ReceiveResponse, DropBody, CancelFuture
<1>3. CASE WakerThread
  BY <1>3 DEF WakerThread, FirePush, FireNotify, FireTooLate
<1>4. CASE StartAgent \/ StartFails
  BY <1>4 DEF StartAgent, StartFails
<1>5. CASE HandleMessage
  BY <1>5 DEF HandleMessage, BeginRequest, Receives, BeginFails, UnpauseRequest, UnpauseUnknown, RequestClose
<1>6. CASE PollMessagesEnds \/ Poll
  BY <1>6 DEF Poll, PollMessagesEnds, SelectNotified, Wake, SelectActivity, SelectTimeout, PollFails
<1>7. CASE Curl
  BY <1>7 DEF Curl, Callback, ReadPending, Callable, PausesTransfer, WriteReady, CompleteFuture, WritePending,
         TransferEnds
<1>8. CASE Complete
  BY <1>8 DEF Complete, CompleteRequest, CompleteFuture, CompleteFails
<1>9. CASE CollectMessages \/ TurnEnds \/ LoopBreaks
  BY <1>9 DEF CollectMessages, TurnEnds, LoopBreaks
<1>10. CASE ClearRequests \/ DropReceiver
  BY <1>10 DEF ClearRequests, DropReceiver
<1>11. CASE Gone \/ UNCHANGED vars
  BY <1>11 DEF Gone, vars
<1> QED
  BY <1>1, <1>2, <1>3, <1>4, <1>5, <1>6, <1>7, <1>8, <1>9, <1>10, <1>11
     DEF Next, AgentThread

(* No wake-up is lost.  It is enough to look at the keys: whatever runs       *)
(* under a key is the request whose wakers captured it.                     *)
LEMMA StepNoLostUnpause == TypeOK /\ KeysInv /\ [Next]_vars => NoLostUnpause'
<1> SUFFICES ASSUME TypeOK, KeysInv, [Next]_vars PROVE NoLostUnpause'
  OBVIOUS
<1> DEFINE Kept == \A k \in Key : requests[k] # None =>
                     \A d \in paused[requests[k]] : <<requests[k], d>> \in armed \/ Queued(Unpause(d, k))
<1>a. Kept
  BY DEF TypeOK, KeysInv, KeysMatch, NoLostUnpause, Running, Queued
<1>b. \A k \in Key : requests[k] # None => wakerKey[requests[k]] = k
  BY DEF KeysInv, KeysMatch
<1>c. queue' = queue => \A x : Queued(x)' <=> Queued(x)
  BY DEF Queued
<1>d. ASSUME Kept' PROVE NoLostUnpause'
  <2>1. TypeOK' /\ KeysMatch'
    BY StepTypeOK, StepKeysMatch
  <2>2. SUFFICES ASSUME NEW r \in Running', NEW d \in paused'[r]
                 PROVE  <<r, d>> \in armed' \/ Queued(Unpause(d, wakerKey[r]))'
    BY DEF NoLostUnpause, Queued
  <2>3. PICK k \in Key : requests'[k] = r
    BY DEF Running
  <2>4. wakerKey'[r] = k
    BY <2>1, <2>3, NoneAssumption DEF KeysMatch, Running
  <2> QED
    BY <2>3, <2>4, <1>d, NoneAssumption DEF Running
<1> SUFFICES Kept'
  BY <1>d
<1> USE DEF TypeOK, agentVars, callerVars, curlVars, replyVars
<1>1. CASE SpawnReturns
  BY <1>1, <1>a, <1>b, <1>c DEF SpawnReturns
<1>2. CASE DropPush
  <2>1. \A x : Queued(x)' <=> Queued(x) \/ x = Close
    BY <1>2, QueuedAppend DEF DropPush, Message
  <2> QED
    BY <2>1, <1>2, <1>a, <1>b DEF DropPush
<1>3. CASE DropNotify
  BY <1>3, <1>a, <1>b, <1>c DEF DropNotify
<1>4. CASE DropJoin
  BY <1>4, <1>a, <1>b, <1>c DEF DropJoin
<1>5. CASE DropPanics
  BY <1>5, <1>a, <1>b, <1>c DEF DropPanics
<1>6. ASSUME NEW r \in Request, SubmitPush(r) PROVE Kept'
  <2>1. \A x : Queued(x)' <=> Queued(x) \/ x = Execute(r)
    BY <1>6, QueuedAppend DEF SubmitPush, Message
  <2> QED
    BY <2>1, <1>6, <1>a, <1>b DEF SubmitPush
<1>7. ASSUME NEW r \in Request, SubmitWake(r) PROVE Kept'
  BY <1>7, <1>a, <1>b, <1>c DEF SubmitWake
<1>8. ASSUME NEW r \in Request, SubmitPanics(r) PROVE Kept'
  BY <1>8, <1>a, <1>b, <1>c DEF SubmitPanics
<1>9. ASSUME NEW r \in Request, ReceiveResponse(r) PROVE Kept'
  BY <1>9, <1>a, <1>b, <1>c DEF ReceiveResponse
<1>10. ASSUME NEW r \in Request, DropBody(r) PROVE Kept'
  BY <1>10, <1>a, <1>b, <1>c DEF DropBody
<1>11. ASSUME NEW r \in Request, CancelFuture(r) PROVE Kept'
  BY <1>11, <1>a, <1>b, <1>c DEF CancelFuture
<1>12. ASSUME NEW r \in Request, NEW d \in Dir, FirePush(r, d) PROVE Kept'
  <2>1. \A x : Queued(x)' <=> Queued(x) \/ x = Unpause(d, wakerKey[r])
    BY <1>12, QueuedAppend DEF FirePush, Message
  <2> QED
    BY <2>1, <1>12, <1>a, <1>b DEF FirePush
<1>13. ASSUME NEW r \in Request, NEW d \in Dir, FireNotify(r, d) PROVE Kept'
  BY <1>13, <1>a, <1>b, <1>c DEF FireNotify
<1>14. ASSUME NEW r \in Request, NEW d \in Dir, FireTooLate(r, d) PROVE Kept'
  BY <1>14, <1>a, <1>b, <1>c DEF FireTooLate, ChannelOpen, KeysInv, SlabEmpty
<1>15. CASE StartAgent \/ StartFails
  BY <1>15, <1>a, <1>b, <1>c DEF StartAgent, StartFails
<1>16. ASSUME NEW r \in Request, NEW k \in Key, BeginRequest(r, k) PROVE Kept'
  <2>1. \A x : Queued(x) => x = Execute(r) \/ Queued(x)'
    BY <1>16, QueuedTail DEF BeginRequest, Receives
  <2>2. paused[r] = {}
    BY <1>16, ReceivedExecute DEF BeginRequest, KeysInv, NeverRan, Untouched
  <2> QED
    BY <2>1, <2>2, <1>16, <1>a, NoneAssumption DEF BeginRequest, Execute, Unpause
<1>17. ASSUME NEW r \in Request, BeginFails(r) PROVE Kept'
  <2>1. \A x : Queued(x) => x = Execute(r) \/ Queued(x)'
    BY <1>17, QueuedTail DEF BeginFails, Receives
  <2> QED
    BY <2>1, <1>17, <1>a, <1>b DEF BeginFails, Execute, Unpause, Close
<1>18. ASSUME NEW d \in Dir, NEW k \in Key, UnpauseRequest(d, k) PROVE Kept'
  <2>1. \A x : Queued(x) => x = Unpause(d, k) \/ Queued(x)'
    BY <1>18, QueuedTail DEF UnpauseRequest, Receives
  <2> QED
    BY <2>1, <1>18, <1>a, <1>b DEF UnpauseRequest, Execute, Unpause, Close
<1>19. ASSUME NEW d \in Dir, NEW k \in Key, UnpauseUnknown(d, k) PROVE Kept'
  <2>1. \A x : Queued(x) => x = Unpause(d, k) \/ Queued(x)'
    BY <1>19, QueuedTail DEF UnpauseUnknown, Receives
  <2> QED
    BY <2>1, <1>19, <1>a, <1>b DEF UnpauseUnknown, Execute, Unpause, Close
<1>20. CASE RequestClose
  <2>1. \A x : Queued(x) => x = Close \/ Queued(x)'
    BY <1>20, QueuedTail DEF RequestClose, Receives
  <2> QED
    BY <2>1, <1>20, <1>a, <1>b DEF RequestClose, Execute, Unpause, Close
<1>21. CASE PollMessagesEnds \/ Poll
  BY <1>21, <1>a, <1>b, <1>c DEF Poll, PollMessagesEnds, SelectNotified, Wake, SelectActivity, SelectTimeout,
         PollFails
<1>22. CASE Curl
  BY <1>22, <1>a, <1>b, <1>c DEF Curl, Callback, ReadPending, Callable, PausesTransfer, WriteReady,
         CompleteFuture, WritePending, TransferEnds
<1>23. CASE Complete
  BY <1>23, <1>a, <1>b, <1>c DEF Complete, CompleteRequest, CompleteFuture, CompleteFails
<1>24. CASE CollectMessages \/ TurnEnds \/ LoopBreaks
  BY <1>24, <1>a, <1>b, <1>c DEF CollectMessages, TurnEnds, LoopBreaks
<1>25. CASE ClearRequests \/ DropReceiver
  BY <1>25, <1>a, <1>b, <1>c DEF ClearRequests, DropReceiver
<1>26. CASE Gone \/ UNCHANGED vars
  BY <1>26, <1>a, <1>b, <1>c DEF Gone, vars
<1> QED
  BY <1>1, <1>2, <1>3, <1>4, <1>5, <1>6, <1>7, <1>8, <1>9, <1>10, <1>11, <1>12, <1>13, <1>14, <1>15, <1>16, <1>17, <1>18, <1>19, <1>20, <1>21, <1>22, <1>23, <1>24, <1>25, <1>26
     DEF Next, AgentThread, HandleThread, CallerThread, WakerThread, HandleMessage

(* A batch stays true while it is worked off: what is completed first frees  *)
(* its own key only.                                                        *)
LEMMA StepBatchInv == TypeOK /\ KeysInv /\ ResultInv /\ [Next]_vars => BatchInv'
<1> SUFFICES ASSUME TypeOK, KeysInv, ResultInv, [Next]_vars PROVE BatchInv'
  OBVIOUS
<1>a. BatchInv
  BY DEF ResultInv
<1> USE DEF TypeOK, BatchInv, agentVars, callerVars, curlVars, replyVars
<1>1. CASE HandleThread
  BY <1>1, <1>a DEF HandleThread, SpawnReturns, DropPush, DropNotify, DropJoin, DropPanics
<1>2. CASE CallerThread
  BY <1>2, <1>a DEF CallerThread, SubmitPush, SubmitWake, SubmitPanics, ReceiveResponse, DropBody,
         CancelFuture
<1>3. CASE WakerThread
  BY <1>3, <1>a DEF WakerThread, FirePush, FireNotify, FireTooLate
<1>4. CASE StartAgent \/ StartFails
  BY <1>4, <1>a DEF StartAgent, StartFails
<1>5. CASE HandleMessage
  BY <1>5, <1>a DEF HandleMessage, BeginRequest, Receives, BeginFails, UnpauseRequest, UnpauseUnknown,
         RequestClose
<1>6. CASE PollMessagesEnds \/ Poll
  BY <1>6, <1>a DEF Poll, PollMessagesEnds, SelectNotified, Wake, SelectActivity, SelectTimeout, PollFails
<1>7. CASE Curl
  BY <1>7, <1>a DEF Curl, Callback, ReadPending, Callable, PausesTransfer, WriteReady, CompleteFuture,
         WritePending, TransferEnds
<1>8. ASSUME NEW m \in batch, CompleteRequest(m) PROVE BatchInv'
  <2>1. ASSUME NEW n \in batch, n.token = m.token PROVE n = m
    <3>1. n.result = m.result
      BY <1>a, <2>1
    <3>2. n = [token |-> n.token, result |-> n.result] /\ m = [token |-> m.token, result |-> m.result]
      OBVIOUS
    <3> QED
      BY <3>1, <3>2, <2>1
  <2> QED
    BY <2>1, <1>8, <1>a DEF CompleteRequest
<1>9. ASSUME NEW m \in batch, CompleteFails(m) PROVE BatchInv'
  BY <1>9, <1>a DEF CompleteFails, CompleteFuture
<1>10. CASE CollectMessages \/ TurnEnds \/ LoopBreaks
  BY <1>10, <1>a DEF CollectMessages, TurnEnds, LoopBreaks
<1>11. CASE ClearRequests \/ DropReceiver
  BY <1>11, <1>a DEF ClearRequests, DropReceiver
<1>12. CASE Gone \/ UNCHANGED vars
  BY <1>12, <1>a DEF Gone, vars
<1> QED
  BY <1>1, <1>2, <1>3, <1>4, <1>5, <1>6, <1>7, <1>8, <1>9, <1>10, <1>11, <1>12
     DEF Next, AgentThread, Complete

(* Results stay with their own transfer. *)
LEMMA StepOwnResult == TypeOK /\ KeysInv /\ ResultInv /\ [Next]_vars => OwnResult'
<1> SUFFICES ASSUME TypeOK, KeysInv, ResultInv, [Next]_vars PROVE OwnResult'
  OBVIOUS
<1> DEFINE Own(r) == /\ result[r] # "none" => result[r] = outcome[r] /\ r \notin Running
                     /\ future[r] = "error" => outcome[r] = "error"
<1>a. \A r \in Request : Own(r)
  BY DEF ResultInv, OwnResult
<1>b. ASSUME \A r \in Request : Own(r)' PROVE OwnResult'
  BY <1>b, StepBatchInv DEF OwnResult, BatchInv
<1> SUFFICES \A r \in Request : Own(r)'
  BY <1>b
<1> USE DEF TypeOK, agentVars, callerVars, curlVars, replyVars
<1>1. CASE HandleThread
  BY <1>1, <1>a DEF HandleThread, SpawnReturns, DropPush, DropNotify, DropJoin, DropPanics, Running
<1>2. CASE CallerThread
  BY <1>2, <1>a DEF CallerThread, SubmitPush, SubmitWake, SubmitPanics, ReceiveResponse, DropBody,
         CancelFuture, Running
<1>3. CASE WakerThread
  BY <1>3, <1>a DEF WakerThread, FirePush, FireNotify, FireTooLate, Running
<1>4. CASE StartAgent \/ StartFails
  BY <1>4, <1>a DEF StartAgent, StartFails, Running
<1>5. ASSUME NEW r \in Request, NEW k \in Key, BeginRequest(r, k) PROVE \A x \in Request : Own(x)'
  <2>1. result[r] = "none" /\ wakerKey[r] = None
    BY <1>5, ReceivedExecute DEF BeginRequest, KeysInv, NeverRan, Untouched
  <2>2. \A x \in Request : x \in Running' => x \in Running \/ x = r
    BY <1>5 DEF BeginRequest, Running
  <2> QED
    BY <2>1, <2>2, <1>5, <1>a DEF BeginRequest, Own
<1>6. ASSUME NEW r \in Request, BeginFails(r) PROVE \A x \in Request : Own(x)'
  BY <1>6, <1>a DEF BeginFails, Receives, Running
<1>7. ASSUME NEW d \in Dir, NEW k \in Key, UnpauseRequest(d, k) PROVE \A x \in Request : Own(x)'
  BY <1>7, <1>a DEF UnpauseRequest, Receives, Running
<1>8. ASSUME NEW d \in Dir, NEW k \in Key, UnpauseUnknown(d, k) PROVE \A x \in Request : Own(x)'
  BY <1>8, <1>a DEF UnpauseUnknown, Receives, Running
<1>9. CASE RequestClose
  BY <1>9, <1>a DEF RequestClose, Receives, Running
<1>10. CASE PollMessagesEnds \/ Poll
  BY <1>10, <1>a DEF Poll, PollMessagesEnds, SelectNotified, Wake, SelectActivity, SelectTimeout, PollFails,
         Running
<1>11. CASE Curl
  BY <1>11, <1>a DEF Curl, Callback, ReadPending, Callable, PausesTransfer, WriteReady, CompleteFuture,
         WritePending, TransferEnds, Running
<1>12. ASSUME NEW m \in batch, CompleteRequest(m) PROVE \A x \in Request : Own(x)'
  <2>1. m.result = outcome[requests[m.token]] /\ m.token \in Key /\ requests[m.token] \in Request
    BY <1>12 DEF CompleteRequest, ResultInv, BatchInv
  <2>2. requests[m.token] \notin Running'
    BY <2>1, <1>12 DEF CompleteRequest, KeysInv, KeysMatch, Running
  <2>3. \A x \in Request : x \in Running' => x \in Running
    BY <1>12, NoneAssumption DEF CompleteRequest, Running
  <2>4. outcome' = outcome
    BY <1>12 DEF CompleteRequest
  <2>5. result' = [result EXCEPT ![requests[m.token]] = m.result]
    BY <1>12 DEF CompleteRequest
  <2>6. ASSUME NEW x \in Request, x # requests[m.token] PROVE result'[x] = result[x] /\ future'[x] = future[x]
    BY <2>6, <1>12 DEF CompleteRequest, CompleteFuture
  <2>7. ASSUME NEW x \in Request, x = requests[m.token] PROVE Own(x)'
    <3>1. result'[x] = m.result
      BY <2>7, <2>5
    <3>2. future'[x] = "error" => outcome[x] = "error"
      BY <2>7, <2>1, <1>12, <1>a DEF CompleteRequest, CompleteFuture, Outcome
    <3> QED
      BY <3>1, <3>2, <2>7, <2>1, <2>2, <2>4
  <2>8. ASSUME NEW x \in Request, x # requests[m.token] PROVE Own(x)'
    BY <2>8, <2>6, <2>3, <2>4, <1>a
  <2> QED
    BY <2>7, <2>8
<1>13. ASSUME NEW m \in batch, CompleteFails(m) PROVE \A x \in Request : Own(x)'
  <2>1. m.token \in Key /\ requests[m.token] \in Request
    BY <1>13 DEF CompleteFails
  <2>2. \A x \in Request : x \in Running' => x \in Running
    BY <1>13, NoneAssumption DEF CompleteFails, Running
  <2>3. outcome' = outcome /\ result' = result
    BY <1>13 DEF CompleteFails
  <2>4. ASSUME NEW x \in Request, future'[x] = "error" PROVE future[x] = "error"
    BY <2>4, <2>1, <1>13 DEF CompleteFails, CompleteFuture
  <2> QED
    BY <2>2, <2>3, <2>4, <1>a
<1>14. CASE CollectMessages \/ TurnEnds \/ LoopBreaks
  BY <1>14, <1>a DEF CollectMessages, TurnEnds, LoopBreaks, Running
<1>15. CASE ClearRequests \/ DropReceiver
  <2>1. \A x \in Request : x \in Running' => x \in Running
    BY <1>15, NoneAssumption DEF ClearRequests, DropReceiver, Running
  <2>2. outcome' = outcome /\ result' = result
    BY <1>15 DEF ClearRequests, DropReceiver
  <2>3. ASSUME NEW x \in Request, future'[x] = "error" PROVE future[x] = "error"
    BY <2>3, <1>15 DEF ClearRequests, DropReceiver
  <2> QED
    BY <2>1, <2>2, <2>3, <1>a
<1>16. CASE Gone \/ UNCHANGED vars
  BY <1>16, <1>a DEF Gone, vars, Running
<1> QED
  BY <1>1, <1>2, <1>3, <1>4, <1>5, <1>6, <1>7, <1>8, <1>9, <1>10, <1>11, <1>12, <1>13, <1>14, <1>15, <1>16
     DEF Next, AgentThread, HandleMessage, Complete

(* Close is the last word: it is pushed when nobody waits any more.          *)
LEMMA StepCloseInv == TypeOK /\ CloseInv /\ [Next]_vars => CloseInv'
<1> SUFFICES ASSUME TypeOK, CloseInv, [Next]_vars PROVE CloseInv'
  OBVIOUS
<1>a. ASSUME queue # <<>>, queue' = Tail(queue)
      PROVE  /\ \A x : Queued(x)' => Queued(x)
             /\ \A i, j \in DOMAIN queue' : i < j /\ queue'[i] = Close => queue'[j].type # "Execute"
  <2>1. \A i \in DOMAIN queue' : i \in Int /\ i + 1 \in DOMAIN queue /\ queue'[i] = queue[i + 1]
    BY <1>a DEF TypeOK
  <2> QED
    BY <2>1, <1>a, QueuedTail DEF CloseInv
<1>b. queue' = queue => \A x : Queued(x)' <=> Queued(x)
  BY DEF Queued
<1> USE DEF TypeOK, agentVars, callerVars, curlVars, replyVars
<1>1. CASE SpawnReturns
  BY <1>1, <1>b DEF SpawnReturns, CloseInv, Released
<1>2. CASE DropPush
  <2>1. \A x : Queued(x)' <=> Queued(x) \/ x = Close
    BY <1>2, QueuedAppend DEF DropPush, Message
  <2>2. queue \in Seq(Message) /\ queue' = Append(queue, Close)
    BY <1>2 DEF DropPush
  <2>3. \A i \in DOMAIN queue : Queued(queue[i])
    BY DEF Queued
  <2> QED
    BY <2>1, <2>2, <2>3, <1>2 DEF DropPush, CloseInv, Released, Execute, Unpause, Close
<1>3. CASE DropNotify
  BY <1>3, <1>b DEF DropNotify, CloseInv, Released
<1>4. CASE DropJoin
  BY <1>4, <1>b DEF DropJoin, CloseInv, Released
<1>5. CASE DropPanics
  BY <1>5, <1>b DEF DropPanics, CloseInv, Released
<1>6. ASSUME NEW r \in Request, SubmitPush(r) PROVE CloseInv'
  <2>1. \A x : Queued(x)' <=> Queued(x) \/ x = Execute(r)
    BY <1>6, QueuedAppend DEF SubmitPush, Message
  <2>2. queue \in Seq(Message) /\ queue' = Append(queue, Execute(r))
    BY <1>6 DEF SubmitPush
  <2>3. \A i \in DOMAIN queue : Queued(queue[i])
    BY DEF Queued
  <2> QED
    BY <2>1, <2>2, <2>3, <1>6 DEF SubmitPush, CloseInv, Released, Execute, Unpause, Close
<1>7. ASSUME NEW r \in Request, SubmitWake(r) PROVE CloseInv'
  BY <1>7, <1>b DEF SubmitWake, CloseInv, Released
<1>8. ASSUME NEW r \in Request, SubmitPanics(r) PROVE CloseInv'
  BY <1>8, <1>b DEF SubmitPanics, CloseInv, Released
<1>9. ASSUME NEW r \in Request, ReceiveResponse(r) PROVE CloseInv'
  BY <1>9, <1>b DEF ReceiveResponse, CloseInv, Released
<1>10. ASSUME NEW r \in Request, DropBody(r) PROVE CloseInv'
  BY <1>10, <1>b DEF DropBody, CloseInv, Released
<1>11. ASSUME NEW r \in Request, CancelFuture(r) PROVE CloseInv'
  BY <1>11, <1>b DEF CancelFuture, CloseInv, Released
<1>12. ASSUME NEW r \in Request, NEW d \in Dir, FirePush(r, d) PROVE CloseInv'
  <2>1. \A x : Queued(x)' <=> Queued(x) \/ x = Unpause(d, wakerKey[r])
    BY <1>12, QueuedAppend DEF FirePush, Message
  <2>2. queue \in Seq(Message) /\ queue' = Append(queue, Unpause(d, wakerKey[r]))
    BY <1>12 DEF FirePush
  <2>3. \A i \in DOMAIN queue : Queued(queue[i])
    BY DEF Queued
  <2> QED
    BY <2>1, <2>2, <2>3, <1>12 DEF FirePush, CloseInv, Released, Execute, Unpause, Close
<1>13. ASSUME NEW r \in Request, NEW d \in Dir, FireNotify(r, d) PROVE CloseInv'
  BY <1>13, <1>b DEF FireNotify, CloseInv, Released
<1>14. ASSUME NEW r \in Request, NEW d \in Dir, FireTooLate(r, d) PROVE CloseInv'
  BY <1>14, <1>b DEF FireTooLate, CloseInv, Released
<1>15. CASE StartAgent \/ StartFails
  BY <1>15, <1>b DEF StartAgent, StartFails, CloseInv, Released
<1>16. ASSUME NEW r \in Request, NEW k \in Key, BeginRequest(r, k) PROVE CloseInv'
  BY <1>16, <1>a DEF BeginRequest, Receives, CloseInv, Released
<1>17. ASSUME NEW r \in Request, BeginFails(r) PROVE CloseInv'
  BY <1>17, <1>a DEF BeginFails, Receives, CloseInv, Released
<1>18. ASSUME NEW d \in Dir, NEW k \in Key, UnpauseRequest(d, k) PROVE CloseInv'
  BY <1>18, <1>a DEF UnpauseRequest, Receives, CloseInv, Released
<1>19. ASSUME NEW d \in Dir, NEW k \in Key, UnpauseUnknown(d, k) PROVE CloseInv'
  BY <1>19, <1>a DEF UnpauseUnknown, Receives, CloseInv, Released
<1>20. CASE RequestClose
  <2>1. queue # <<>> /\ queue' = Tail(queue) /\ Head(queue) = Close
    BY <1>20 DEF RequestClose, Receives
  <2>2. \A r \in Request : ~Queued(Execute(r))'
    <3>1. SUFFICES ASSUME NEW r \in Request, NEW i \in DOMAIN queue', queue'[i] = Execute(r) PROVE FALSE
      BY DEF Queued
    <3>2. i \in Int /\ 1 < i + 1 /\ 1 \in DOMAIN queue /\ i + 1 \in DOMAIN queue /\ queue[1] = Close /\ queue[i + 1] = Execute(r)
      BY <2>1, <3>1
    <3>3. queue[i + 1].type # "Execute"
      BY <3>2 DEF CloseInv
    <3> QED
      BY <3>2, <3>3 DEF Execute
  <2>3. Queued(Close)
    BY <2>1, QueuedTail
  <2> QED
    BY <2>1, <2>2, <2>3, <1>20, <1>a DEF RequestClose, CloseInv, Released
<1>21. CASE PollMessagesEnds \/ Poll
  BY <1>21, <1>b DEF Poll, PollMessagesEnds, SelectNotified, Wake, SelectActivity, SelectTimeout, PollFails,
         CloseInv, Released
<1>22. CASE Curl
  BY <1>22, <1>b DEF Curl, Callback, ReadPending, Callable, PausesTransfer, WriteReady, CompleteFuture,
         WritePending, TransferEnds, CloseInv, Released
<1>23. CASE Complete
  BY <1>23, <1>b DEF Complete, CompleteRequest, CompleteFuture, CompleteFails, CloseInv, Released
<1>24. CASE CollectMessages \/ TurnEnds \/ LoopBreaks
  BY <1>24, <1>b DEF CollectMessages, TurnEnds, LoopBreaks, CloseInv, Released
<1>25. CASE ClearRequests \/ DropReceiver
  BY <1>25, <1>b DEF ClearRequests, DropReceiver, CloseInv, Released
<1>26. CASE Gone \/ UNCHANGED vars
  BY <1>26, <1>b DEF Gone, vars, CloseInv, Released
<1> QED
  BY <1>1, <1>2, <1>3, <1>4, <1>5, <1>6, <1>7, <1>8, <1>9, <1>10, <1>11, <1>12, <1>13, <1>14, <1>15, <1>16, <1>17, <1>18, <1>19, <1>20, <1>21, <1>22, <1>23, <1>24, <1>25, <1>26
     DEF Next, AgentThread, HandleThread, CallerThread, WakerThread, HandleMessage

(* The agent stops for a reason, and an answer that was received is there.  *)
LEMMA StepExitInv == TypeOK /\ ExitInv /\ [Next]_vars => ExitInv'
<1> SUFFICES ASSUME TypeOK, ExitInv, [Next]_vars PROVE ExitInv'
  OBVIOUS
<1> USE DEF TypeOK, ExitInv, agentVars, callerVars, curlVars, replyVars
<1>1. CASE HandleThread
  BY <1>1 DEF HandleThread, SpawnReturns, DropPush, DropNotify, DropJoin, DropPanics
<1>2. CASE CallerThread
  BY <1>2 DEF CallerThread, SubmitPush, SubmitWake, SubmitPanics, ReceiveResponse, DropBody, CancelFuture
<1>3. CASE WakerThread
  BY <1>3 DEF WakerThread, FirePush, FireNotify, FireTooLate
<1>4. CASE StartAgent \/ StartFails
  BY <1>4 DEF StartAgent, StartFails
<1>5. CASE HandleMessage
  BY <1>5 DEF HandleMessage, BeginRequest, Receives, BeginFails, UnpauseRequest, UnpauseUnknown, RequestClose
<1>6. CASE PollMessagesEnds \/ Poll
  BY <1>6 DEF Poll, PollMessagesEnds, SelectNotified, Wake, SelectActivity, SelectTimeout, PollFails
<1>7. CASE Curl
  BY <1>7 DEF Curl, Callback, ReadPending, Callable, PausesTransfer, WriteReady, CompleteFuture, WritePending,
         TransferEnds
<1>8. CASE Complete
  BY <1>8 DEF Complete, CompleteRequest, CompleteFuture, CompleteFails
<1>9. CASE CollectMessages \/ TurnEnds \/ LoopBreaks
  BY <1>9 DEF CollectMessages, TurnEnds, LoopBreaks
<1>10. CASE ClearRequests \/ DropReceiver
  BY <1>10 DEF ClearRequests, DropReceiver
<1>11. CASE Gone \/ UNCHANGED vars
  BY <1>11 DEF Gone, vars
<1> QED
  BY <1>1, <1>2, <1>3, <1>4, <1>5, <1>6, <1>7, <1>8, <1>9, <1>10, <1>11
     DEF Next, AgentThread


(* The invariant holds at the start and every step keeps it.                *)
LEMMA InitIInv == Init => IInv
<1> SUFFICES ASSUME Init PROVE IInv
  OBVIOUS
<1>1. TypeOK
  BY InitTypeOK
<1>2. KeysInv
  BY DEF Init, KeysInv, KeysMatch, QueuedIsUntouched, IdleIsUntouched, QueuedOnce, NeverRan, SlabEmpty,
         NoLostUnpause, Running, Queued, Untouched
<1>3. ResultInv
  BY DEF Init, ResultInv, BatchInv, OwnResult
<1>4. CloseInv /\ ExitInv
  BY DEF Init, CloseInv, ExitInv, Queued
<1> QED
  BY <1>1, <1>2, <1>3, <1>4 DEF IInv

(* One lemma above for each of its parts. *)
LEMMA StepIInv == IInv /\ [Next]_vars => IInv'
<1> SUFFICES ASSUME IInv, [Next]_vars PROVE IInv'
  OBVIOUS
<1>1. TypeOK'
  BY StepTypeOK DEF IInv
<1>2. KeysInv'
  BY StepKeysMatch, StepQueuedIsUntouched, StepIdleIsUntouched, StepQueuedOnce, StepNeverRan, StepSlabEmpty,
     StepNoLostUnpause DEF IInv, KeysInv
<1>3. ResultInv'
  BY StepBatchInv, StepOwnResult DEF IInv, ResultInv
<1>4. CloseInv' /\ ExitInv'
  BY StepCloseInv, StepExitInv DEF IInv
<1> QED
  BY <1>1, <1>2, <1>3, <1>4 DEF IInv

(* The inductive invariant holds throughout. *)
THEOREM Invariant == Spec => []IInv
  BY InitIInv, StepIInv, PTL DEF Spec

(* No wake-up of a paused transfer is lost: the waker is held by the pipe or *)
(* the body, or its message is in the channel, under the key the request    *)
(* runs under (the wakers of begin_request, with reused slab keys).         *)
THEOREM NoWakeUpIsLost == Spec => []NoLostUnpause
<1>1. IInv => NoLostUnpause
  BY DEF IInv, KeysInv
<1> QED
  BY <1>1, Invariant, PTL

(* Completion messages find their request in the slab, and results belong   *)
(* to the transfer they are given to (run and complete_request).            *)
THEOREM ResultsAreOwn == Spec => []OwnResult
<1>1. IInv => OwnResult
  BY DEF IInv, ResultInv
<1> QED
  BY <1>1, Invariant, PTL

(* An agent that was asked to close leaves nobody waiting and nothing behind *)
(* (Handle::drop, handle_message and the end of run).                       *)
THEOREM ClosingIsClean == Spec => []CleanShutdown
<1>1. IInv => CleanShutdown
  <2> SUFFICES ASSUME IInv, agentPc = "exited", exit = "ok" PROVE CleanShutdown
    BY DEF CleanShutdown
  <2>1. closeRequested /\ Released /\ \A r \in Request : ~Queued(Execute(r))
    BY DEF IInv, ExitInv, CloseInv
  <2>2. \A i \in DOMAIN queue : queue[i].type # "Execute"
    BY <2>1 DEF IInv, TypeOK, Message, Queued, Execute, Unpause, Close
  <2>3. Running = {}
    BY NoneAssumption DEF IInv, KeysInv, SlabEmpty, Running
  <2> QED
    BY <2>1, <2>2, <2>3 DEF CleanShutdown, Released
<1> QED
  BY <1>1, Invariant, PTL

----------------------------------------------------------------------------
(* The contract: a step of the agent is a step of AgentContract, or changes *)
(* nothing that its callers see.                                            *)

(* What callers see changes with `caller', `future' and the end of the      *)
(* agent only.                                                              *)
LEMMA Unseen ==
    ASSUME UNCHANGED <<caller, future>>, AgentSeen' = AgentSeen
    PROVE  UNCHANGED Contract!vars
BY DEF Contract!vars, PhaseSeen

(* A running request was submitted. *)
LEMMA RunningIsSubmitted ==
    ASSUME TypeOK, KeysInv, NEW r \in Running
    PROVE  r \in Request /\ caller[r] \notin {"idle", "panicked"}
<1>1. PICK k \in Key : requests[k] = r
  BY DEF Running
<1>2. r \in Request /\ wakerKey[r] = k /\ requests[k] # None
  BY <1>1, NoneAssumption DEF Running, KeysInv, KeysMatch
<1> QED
  BY <1>2, NoneAssumption DEF KeysInv, IdleIsUntouched, Untouched

(* Completing the future of a submitted request settles it, unless it was   *)
(* settled before or its caller has lost interest: then nobody sees it.     *)
LEMMA FutureSettles ==
    ASSUME TypeOK, NEW r \in Request, NEW a,
           caller[r] \notin {"idle", "panicked"}, caller' = caller,
           future' = [future EXCEPT ![r] = IF @ = "pending" THEN a ELSE @]
    PROVE  \/ PhaseSeen' = PhaseSeen
           \/ PhaseSeen[r] = "pending" /\ PhaseSeen' = [PhaseSeen EXCEPT ![r] = a]
<1> USE DEF TypeOK, PhaseSeen
<1>1. CASE caller[r] = "cancelled" \/ future[r] # "pending"
  <2>1. \A x \in Request : PhaseSeen'[x] = PhaseSeen[x]
    BY <1>1
  <2> QED
    BY <2>1
<1>2. CASE caller[r] # "cancelled" /\ future[r] = "pending"
  <2>1. PhaseSeen[r] = "pending" /\ PhaseSeen'[r] = a
    BY <1>2
  <2>2. \A x \in Request \ {r} : PhaseSeen'[x] = PhaseSeen[x]
    BY <1>2
  <2> QED
    BY <2>1, <2>2
<1> QED
  BY <1>1, <1>2

LEMMA InitRefines == Init => Contract!Init
<1> SUFFICES ASSUME Init PROVE Contract!Init
  OBVIOUS
<1>1. PhaseSeen = [r \in Request |-> "new"]
  BY DEF Init, PhaseSeen
<1>2. AgentSeen = "up"
  BY DEF Init, AgentSeen
<1> QED
  BY <1>1, <1>2 DEF Contract!Init

(* The steps of the callers. *)
LEMMA CallerRefines ==
    IInv /\ CallerThread => [Contract!Next]_Contract!vars
<1> SUFFICES ASSUME IInv, NEW r \in Request,
                    SubmitPush(r) \/ SubmitWake(r) \/ SubmitPanics(r)
                    \/ ReceiveResponse(r) \/ DropBody(r) \/ CancelFuture(r)
             PROVE  [Contract!Next]_Contract!vars
  BY DEF CallerThread
<1> USE DEF IInv, TypeOK, agentVars, replyVars
<1>a. AgentSeen' = AgentSeen
  BY DEF SubmitPush, SubmitWake, SubmitPanics, ReceiveResponse, DropBody, CancelFuture, AgentSeen
<1>1. CASE SubmitPush(r)
  <2>1. AgentSeen = "up" /\ PhaseSeen[r] = "new"
    BY <1>1 DEF SubmitPush, ChannelOpen, AgentSeen, PhaseSeen
  <2>2. future[r] = "pending"
    BY <1>1 DEF SubmitPush, KeysInv, IdleIsUntouched, Untouched
  <2>3. PhaseSeen' = [PhaseSeen EXCEPT ![r] = "pending"]
    BY <1>1, <2>2 DEF SubmitPush, PhaseSeen
  <2> QED
    BY <1>a, <2>1, <2>3 DEF Contract!Next, Contract!Accept
<1>2. CASE SubmitWake(r) \/ ReceiveResponse(r) \/ DropBody(r)
  <2>1. PhaseSeen' = PhaseSeen
    BY <1>2 DEF SubmitWake, ReceiveResponse, DropBody, PhaseSeen
  <2> QED
    BY <1>a, <2>1 DEF Contract!vars
<1>3. CASE SubmitPanics(r)
  <2>1. agentPc = "exited" /\ PhaseSeen[r] = "new"
    BY <1>3 DEF SubmitPanics, ChannelOpen, PhaseSeen
  <2>2. AgentSeen = "error"
    BY <1>3, <2>1 DEF SubmitPanics, AgentSeen, ExitInv, CloseInv
  <2>3. PhaseSeen' = [PhaseSeen EXCEPT ![r] = "refused"]
    BY <1>3 DEF SubmitPanics, PhaseSeen
  <2> QED
    BY <1>a, <2>1, <2>2, <2>3 DEF Contract!Next, Contract!Refuse
<1>4. CASE CancelFuture(r)
  <2>1. PhaseSeen[r] \in {"pending", "response", "error", "lost"}
    BY <1>4 DEF CancelFuture, PhaseSeen
  <2>2. PhaseSeen' = [PhaseSeen EXCEPT ![r] = "cancelled"]
    BY <1>4 DEF CancelFuture, PhaseSeen
  <2> QED
    BY <1>a, <2>1, <2>2 DEF Contract!Next, Contract!Cancel, Contract!Answer
<1> QED
  BY <1>1, <1>2, <1>3, <1>4

(* The steps at which the agent settles a future. *)
LEMMA ReplyRefines ==
    ASSUME IInv, NEW r \in Running, NEW a \in {"response", "error"}, CompleteFuture(r, a),
           UNCHANGED <<caller, agentPc, exit>>, agentPc # "exited"
    PROVE  [Contract!Next]_Contract!vars
<1>1. r \in Request /\ caller[r] \notin {"idle", "panicked"}
  BY RunningIsSubmitted DEF IInv
<1>2. AgentSeen = "up" /\ AgentSeen' = AgentSeen
  BY DEF AgentSeen
<1>3. \/ PhaseSeen' = PhaseSeen
      \/ PhaseSeen[r] = "pending" /\ PhaseSeen' = [PhaseSeen EXCEPT ![r] = a]
  BY <1>1, FutureSettles DEF CompleteFuture, IInv
<1> QED
  BY <1>1, <1>2, <1>3 DEF Contract!Next, Contract!Reply, Contract!vars

(* The steps at which a failing agent drops one request. *)
LEMMA LossRefines ==
    ASSUME IInv, MayFail, NEW r \in Request, caller[r] \notin {"idle", "panicked"}, CompleteFuture(r, "lost"),
           caller' = caller, agentPc # "exited", agentPc' # "exited"
    PROVE  [Contract!Next]_Contract!vars
<1>2. AgentSeen = "up" /\ AgentSeen' = AgentSeen
  BY DEF AgentSeen
<1>3. \/ PhaseSeen' = PhaseSeen
      \/ PhaseSeen[r] = "pending" /\ PhaseSeen' = [PhaseSeen EXCEPT ![r] = "lost"]
  BY FutureSettles DEF CompleteFuture, IInv
<1>4. ASSUME PhaseSeen[r] = "pending", PhaseSeen' = [PhaseSeen EXCEPT ![r] = "lost"]
      PROVE  Contract!LoseRequests({r})
  <2>1. PhaseSeen' = [x \in Request |-> IF x \in {r} THEN "lost" ELSE PhaseSeen[x]]
    BY <1>4 DEF PhaseSeen
  <2> QED
    BY <1>2, <1>4, <2>1 DEF Contract!LoseRequests
<1> QED
  BY <1>2, <1>3, <1>4 DEF Contract!Next, Contract!vars

(* Dropping the requests of the slab is clean after a failure only: an      *)
(* agent that was asked to close has none that anybody waits for.           *)
LEMMA ClearRefines == IInv /\ ClearRequests => [Contract!Next]_Contract!vars
<1> SUFFICES ASSUME IInv, ClearRequests PROVE [Contract!Next]_Contract!vars
  OBVIOUS
<1> DEFINE Lost == {r \in Running : PhaseSeen[r] = "pending"}
<1>1. AgentSeen = "up" /\ AgentSeen' = AgentSeen
  BY DEF ClearRequests, AgentSeen
<1>2. PhaseSeen' = [r \in Request |-> IF r \in Lost THEN "lost" ELSE PhaseSeen[r]]
  <2>1. \A r \in Running : caller[r] \notin {"idle", "panicked"}
    BY RunningIsSubmitted DEF IInv
  <2>2. ASSUME NEW r \in Request
        PROVE  PhaseSeen'[r] = IF r \in Lost THEN "lost" ELSE PhaseSeen[r]
    BY <2>1 DEF ClearRequests, callerVars, PhaseSeen, IInv, TypeOK
  <2> QED
    BY <2>2 DEF PhaseSeen
<1>3. Lost \subseteq {r \in Request : PhaseSeen[r] = "pending"}
  BY DEF Running
<1>4. CASE exit = "error"
  <2>1. MayFail
    BY <1>4 DEF IInv, ExitInv
  <2>2. Contract!LoseRequests(Lost)
    BY <1>1, <1>2, <1>3, <2>1 DEF Contract!LoseRequests
  <2> QED
    BY <1>3, <2>2 DEF Contract!Next
<1>5. CASE exit = "ok"
  <2>1. Released
    BY <1>5 DEF IInv, ExitInv, CloseInv
  <2>2. Lost = {}
    BY <2>1 DEF Released, Running, PhaseSeen, IInv, ExitInv
  <2>3. PhaseSeen' = PhaseSeen
    BY <1>2, <2>2 DEF PhaseSeen
  <2> QED
    BY <1>1, <2>3 DEF Contract!vars
<1> QED
  BY <1>4, <1>5 DEF ClearRequests, IInv, ExitInv, TypeOK

(* The end of the agent thread. *)
LEMMA DropReceiverRefines == IInv /\ DropReceiver => [Contract!Next]_Contract!vars
<1> SUFFICES ASSUME IInv, DropReceiver PROVE [Contract!Next]_Contract!vars
  OBVIOUS
<1>1. PhaseSeen' = PhaseSeen
  BY DEF DropReceiver, PhaseSeen, callerVars, replyVars
<1>2. AgentSeen = "up" /\ AgentSeen' = exit
  BY DEF DropReceiver, AgentSeen
<1>3. CASE exit = "error"
  BY <1>1, <1>2, <1>3 DEF IInv, ExitInv, Contract!Next, Contract!StopFailing
<1>4. CASE exit = "ok"
  <2>1. Released
    BY <1>4 DEF IInv, ExitInv, CloseInv
  <2>2. \A r \in Request : PhaseSeen[r] # "pending"
    BY <2>1 DEF Released, PhaseSeen, IInv, ExitInv
  <2> QED
    BY <1>1, <1>2, <1>4, <2>2 DEF Contract!Next, Contract!StopCleanly
<1> QED
  BY <1>3, <1>4 DEF DropReceiver, IInv, ExitInv, TypeOK

(* Every step of the agent's threads, one case for each kind. *)
LEMMA StepRefines == IInv /\ [Next]_vars => [Contract!Next]_Contract!vars
<1> SUFFICES ASSUME IInv, [Next]_vars PROVE [Contract!Next]_Contract!vars
  OBVIOUS
<1> USE DEF agentVars, callerVars, curlVars, replyVars
<1>1. CASE HandleThread \/ WakerThread
  BY <1>1, Unseen DEF HandleThread, SpawnReturns, DropPush, DropNotify, DropJoin, DropPanics, WakerThread, FirePush,
                      FireNotify, FireTooLate, AgentSeen
<1>2. CASE CallerThread
  BY <1>2, CallerRefines
<1>3. CASE StartAgent \/ PollMessagesEnds \/ SelectNotified \/ SelectActivity \/ SelectTimeout \/ PollFails
           \/ CollectMessages \/ TurnEnds \/ LoopBreaks
  BY <1>3, Unseen DEF StartAgent, PollMessagesEnds, SelectNotified, SelectActivity, SelectTimeout, Wake, PollFails,
                      CollectMessages, TurnEnds, LoopBreaks, AgentSeen
<1>4. CASE StartFails
  <2>1. PhaseSeen' = PhaseSeen
    BY <1>4 DEF StartFails, PhaseSeen
  <2>2. AgentSeen = "up" /\ AgentSeen' = "error" /\ MayFail
    BY <1>4 DEF StartFails, AgentSeen
  <2> QED
    BY <2>1, <2>2 DEF Contract!Next, Contract!StopFailing
<1>5. CASE HandleMessage
  <2>1. ASSUME NEW r \in Request, BeginFails(r) PROVE [Contract!Next]_Contract!vars
    <3>1. caller[r] \notin {"idle", "panicked"} /\ future[r] = "pending"
      BY <2>1, ReceivedExecute DEF BeginFails, IInv, Untouched
    <3>2. CompleteFuture(r, "lost")
      BY <2>1, <3>1 DEF BeginFails, CompleteFuture
    <3> QED
      BY <2>1, <3>1, <3>2, LossRefines DEF BeginFails, Receives
  <2>2. CASE ~\E r \in Request : BeginFails(r)
    BY <1>5, <2>2, Unseen DEF HandleMessage, BeginRequest, UnpauseRequest, UnpauseUnknown, RequestClose, Receives,
                              AgentSeen
  <2> QED
    BY <2>1, <2>2
<1>6. CASE Curl
  <2>1. ASSUME NEW r \in Request, WriteReady(r) \/ WritePending(r) PROVE [Contract!Next]_Contract!vars
    BY <2>1, ReplyRefines DEF WriteReady, WritePending, Callable
  <2>2. ASSUME NEW r \in Request, ReadPending(r) PROVE [Contract!Next]_Contract!vars
    BY <2>2, Unseen DEF ReadPending, AgentSeen
  <2>3. ASSUME NEW r \in Request, NEW o \in Outcome, TransferEnds(r, o) PROVE [Contract!Next]_Contract!vars
    BY <2>3, Unseen DEF TransferEnds, AgentSeen
  <2> QED
    BY <1>6, <2>1, <2>2, <2>3 DEF Curl, Callback
<1>7. ASSUME NEW m \in batch, CompleteRequest(m) \/ CompleteFails(m) PROVE [Contract!Next]_Contract!vars
  <2>1. m.token \in Key /\ requests[m.token] \in Running
    BY <1>7 DEF CompleteRequest, CompleteFails, Running, IInv, TypeOK
  <2>2. CASE CompleteRequest(m)
    BY <2>1, <2>2, ReplyRefines DEF CompleteRequest
  <2>3. CASE CompleteFails(m)
    BY <2>1, <2>3, LossRefines, RunningIsSubmitted DEF CompleteFails, IInv
  <2> QED
    BY <1>7, <2>2, <2>3
<1>8. CASE ClearRequests
  BY <1>8, ClearRefines
<1>9. CASE DropReceiver
  BY <1>9, DropReceiverRefines
<1>10. CASE Gone \/ UNCHANGED vars
  BY <1>10, Unseen DEF Gone, vars, AgentSeen
<1> QED
  BY <1>1, <1>2, <1>3, <1>4, <1>5, <1>6, <1>7, <1>8, <1>9, <1>10 DEF Next, AgentThread, Poll, Complete

(* The agent keeps its contract with its callers, whatever the requests,    *)
(* the keys and the order of the threads: every future is settled at most   *)
(* once, a clean stop leaves nobody waiting, and only a failing agent loses *)
(* or refuses a request.                                                    *)
THEOREM ContractKept == Spec => KeepsContract
<1>1. Spec => []IInv
  BY Invariant
<1>2. IInv /\ [Next]_vars => [Contract!Next]_Contract!vars
  BY StepRefines
<1> QED
  BY <1>1, <1>2, InitRefines, PTL DEF Spec, KeepsContract, Contract!Spec
=============================================================================
