-------------------------- MODULE EventLoopProofs --------------------------
(***************************************************************************)
(* Proofs about EventLoop: what curl asked for, what the selector keeps and *)
(* what the poller has agree, for any number of sockets, any interests, any *)
(* bound on the clock and any WAIT_TIMEOUT.                                 *)
(***************************************************************************)
EXTENDS EventLoop, TLAPS

USE DEF Spent

LEMMA MinOfTwo ==
    ASSUME NEW a \in Nat, NEW b \in Nat
    PROVE  Min({a, b}) \in {a, b} /\ Min({a, b}) <= a /\ Min({a, b}) <= b
<1>1. \E x \in {a, b} : \A y \in {a, b} : x <= y
  BY SMT
<1>. QED  BY <1>1 DEF Min

LEMMA MaxOfTwo ==
    ASSUME NEW a \in Nat, NEW b \in Nat
    PROVE  Max({a, b}) \in {a, b} /\ Max({a, b}) >= a /\ Max({a, b}) >= b
<1>1. \E x \in {a, b} : \A y \in {a, b} : x >= y
  BY SMT
<1>. QED  BY <1>1 DEF Max

LEMMA WaitBound ==
    ASSUME TypeOK
    PROVE  /\ PollTimeout \in Nat
           /\ timer # None => PollTimeout <= IF timer > clock THEN timer - clock ELSE 0
           /\ Min({clock + PollTimeout, MaxClock}) \in Time
           /\ Min({clock + PollTimeout, MaxClock}) <= clock + PollTimeout
<1>. DEFINE remaining == IF timer = None THEN WaitTimeout ELSE IF timer > clock THEN timer - clock ELSE 0
<1>1. remaining \in Nat /\ WaitTimeout \in Nat /\ clock \in Nat /\ MaxClock \in Nat
  BY ClockAssumption DEF TypeOK, Time
<1>2. PollTimeout = Min({remaining, WaitTimeout})
  BY DEF PollTimeout
<1>. HIDE DEF remaining
<1>3. PollTimeout \in Nat /\ PollTimeout <= remaining
  BY <1>1, <1>2, MinOfTwo
<1>4. clock + PollTimeout \in Nat
  BY <1>1, <1>3
<1>5. LET until == Min({clock + PollTimeout, MaxClock})
      IN  until \in Nat /\ until <= MaxClock /\ until <= clock + PollTimeout
  <2>1. Min({clock + PollTimeout, MaxClock}) \in {clock + PollTimeout, MaxClock}
        /\ Min({clock + PollTimeout, MaxClock}) <= clock + PollTimeout
        /\ Min({clock + PollTimeout, MaxClock}) <= MaxClock
    BY <1>1, <1>4, MinOfTwo
  <2>. QED  BY <1>1, <1>4, <2>1
<1>. QED  BY <1>1, <1>3, <1>5 DEF Time, remaining

----------------------------------------------------------------------------
(* Every variable of the loop, the selector and the poller keeps its type.  *)
THEOREM TypeCorrect == Spec => []TypeOK
<1>. USE InterestAssumption, ClockAssumption DEF TypeOK, SelectorTypeOK, Time
<1>1. Init => TypeOK
  BY DEF Init, SelectorInit
<1>2. ASSUME TypeOK, [Next]_vars PROVE TypeOK'
  <2>. USE <1>2
  <2>1. CASE BeginWait
    <3>1. waitUntil' \in Time
      BY <2>1, WaitBound DEF BeginWait
    <3>. QED  BY <2>1, <3>1 DEF BeginWait, Rearm
  <2>2. CASE \E S \in SUBSET Socket : SocketEvents(S)
    BY <2>2 DEF SocketEvents, Fire
  <2>3. CASE Woken \/ WaitTimesOut \/ ActionsEnd \/ CheckTimer \/ TimeoutEnds \/ TurnEnds \/ PollFails \/ Failed \/ Tick
    BY <2>3 DEF Woken, WaitTimesOut, ActionsEnd, CheckTimer, TimeoutEnds, TurnEnds, PollFails, Failed, Tick, vars, loopVars, selectorVars
  <2>4. CASE \E s \in Socket : Action(s)
    BY <2>4 DEF Action, selectorVars
  <2>5. ASSUME NEW s \in Socket, Apply(s) PROVE TypeOK'
    <3>1. CASE updates[s] = Remove
      BY <2>5, <3>1 DEF Apply, Deregister
    <3>2. CASE updates[s] # Remove
      <4>1. updates[s] \in Interest
        BY <2>5, <3>2 DEF Apply
      <4>. QED  BY <2>5, <3>2, <4>1 DEF Apply, Register
    <3>. QED  BY <3>1, <3>2
  <2>6. CASE Curl
    BY <2>6 DEF Curl, CurlWatches, CurlUnwatches, CurlOpens, CurlCloses, TimerFunction, SocketFunction, Opens, Closes, loopVars, selectorVars
  <2>7. CASE UNCHANGED vars
    BY <2>7 DEF vars, loopVars, selectorVars
  <2>. QED  BY <1>2, <2>1, <2>2, <2>3, <2>4, <2>5, <2>6, <2>7 DEF Next, AgentStep
<1>. QED  BY <1>1, <1>2, PTL DEF Spec

----------------------------------------------------------------------------
(* The timer is the one curl asked for last, and no wait goes past it.      *)
THEOREM TimerAgrees == Spec => []TimerIsCurls
<1>1. Init => TimerIsCurls
  BY DEF Init, TimerIsCurls
<1>2. ASSUME TypeOK, TimerIsCurls, [Next]_vars PROVE TimerIsCurls'
  <2>. USE <1>2 DEF TimerIsCurls
  <2>1. CASE BeginWait
    <3>1. timer' = due' /\ due' = due /\ now' = clock
      BY <2>1 DEF BeginWait
    <3>2. ASSUME due # None PROVE waitUntil' <= Max({due, clock})
      <4>1. due \in Nat /\ clock \in Nat
        BY <3>2, ClockAssumption DEF TypeOK, Time
      <4>2. waitUntil' <= clock + PollTimeout /\ waitUntil' \in Nat
        BY <2>1, WaitBound, ClockAssumption DEF BeginWait, Time
      <4>3. PollTimeout \in Nat /\ PollTimeout <= IF due > clock THEN due - clock ELSE 0
        BY <3>2, WaitBound
      <4>4. Max({due, clock}) \in Nat /\ Max({due, clock}) >= due /\ Max({due, clock}) >= clock
        BY <4>1, MaxOfTwo
      <4>. QED  BY <4>1, <4>2, <4>3, <4>4
    <3>. QED  BY <3>1, <3>2
  <2>2. CASE Woken \/ WaitTimesOut \/ ActionsEnd \/ CheckTimer \/ TimeoutEnds \/ TurnEnds \/ PollFails \/ Failed \/ Tick
    BY <2>2 DEF Woken, WaitTimesOut, ActionsEnd, CheckTimer, TimeoutEnds, TurnEnds, PollFails, Failed, Tick, vars, loopVars
  <2>3. CASE \E S \in SUBSET Socket : SocketEvents(S)
    BY <2>3 DEF SocketEvents
  <2>4. CASE \E s \in Socket : Action(s) \/ Apply(s)
    BY <2>4 DEF Action, Apply
  <2>5. CASE Curl
    BY <2>5 DEF Curl, CurlWatches, CurlUnwatches, CurlOpens, CurlCloses, TimerFunction, InCurl, Driving, loopVars
  <2>6. CASE UNCHANGED vars
    BY <2>6 DEF vars, loopVars
  <2>. QED  BY <1>2, <2>1, <2>2, <2>3, <2>4, <2>5, <2>6 DEF Next, AgentStep
<1>. QED  BY <1>1, <1>2, TypeCorrect, PTL DEF Spec

----------------------------------------------------------------------------
(* The inductive invariant: an update not yet applied is what curl asked    *)
(* last, and without one the selector has it; the poller has open sockets   *)
(* of the selector only.                                                    *)
Asked ==
    \A s \in Socket :
        /\ updates[s] = Remove => wanted[s] = None
        /\ updates[s] \in Interest => wanted[s] = updates[s]
        /\ updates[s] = None => sockets[s] = wanted[s]

Armed == \A s \in Socket : poller[s] # None => s \in open /\ sockets[s] # None

(* A turn begins without events, and with no socket of this tick. *)
TurnsStartClean ==
    /\ pc \in {"wait", "actions", "expiry", "timeout"} => fresh = {}
    /\ pc = "wait" => events = {}

Late(s) == updates[s] # None /\ pc # "work"
ToBeRearmed(s) == s \in events /\ s \notin fresh

(* A socket of the selector that is not bad is armed, or has an event that  *)
(* makes it be armed again, and is open then; or its update is to come.     *)
Kept ==
    \A s \in Socket :
        sockets[s] # None =>
            /\ s \in bad \/ poller[s] = sockets[s] \/ ToBeRearmed(s) \/ Late(s)
            /\ ToBeRearmed(s) => s \in open \/ Late(s)

Inv == Asked /\ Armed /\ TurnsStartClean /\ Kept

LEMMA InvStep ==
    ASSUME TypeOK, Inv, [Next]_vars
    PROVE  Inv'
<1>. USE InterestAssumption, ClockAssumption DEF TypeOK, SelectorTypeOK, Inv, Asked, Armed, TurnsStartClean, Kept, Late, ToBeRearmed
<1>1. CASE BeginWait
  <2>1. Asked' /\ TurnsStartClean'
    BY <1>1 DEF BeginWait, Rearm
  <2>2. Armed'
    BY <1>1 DEF BeginWait, Rearm, ToRearm, ToRetry, PollerModify, PollerAdd, Adds, Modifies
  <2>3. Kept'
    BY <1>1 DEF BeginWait, Rearm, ToRearm, ToRetry
  <2>. QED  BY <2>1, <2>2, <2>3
<1>2. ASSUME NEW S \in SUBSET Socket, SocketEvents(S) PROVE Inv'
  BY <1>2 DEF SocketEvents, Fire
<1>3. CASE Woken \/ WaitTimesOut \/ ActionsEnd \/ CheckTimer \/ TimeoutEnds \/ PollFails \/ Failed \/ Tick
  BY <1>3 DEF Woken, WaitTimesOut, ActionsEnd, CheckTimer, TimeoutEnds, PollFails, Failed, Tick, vars, loopVars, selectorVars
<1>4. CASE TurnEnds
  BY <1>4 DEF TurnEnds, selectorVars
<1>5. ASSUME NEW s \in Socket, Action(s) PROVE Inv'
  BY <1>5 DEF Action, selectorVars
<1>6. ASSUME NEW s \in Socket, Apply(s) PROVE Inv'
  <2>1. CASE updates[s] = Remove
    BY <1>6, <2>1 DEF Apply, Deregister
  <2>2. CASE updates[s] # Remove
    <3>1. updates[s] \in Interest /\ updates[s] = wanted[s] /\ updates[s] # None
      BY <1>6, <2>2 DEF Apply
    <3>2. Register(s, updates[s]) /\ pc = "apply" /\ pc' = pc /\ wanted' = wanted /\ updates' = [updates EXCEPT ![s] = None]
      BY <1>6, <2>2 DEF Apply
    <3>3. Asked' /\ TurnsStartClean'
      BY <3>1, <3>2 DEF Register
    <3>4. Armed'
      BY <3>1, <3>2 DEF Register, PollerModify, PollerAdd, Adds, Modifies
    <3>5. Kept'
      BY <3>1, <3>2 DEF Register
    <3>. QED  BY <3>3, <3>4, <3>5
  <2>. QED  BY <2>1, <2>2
<1>7. ASSUME NEW s \in Socket, NEW i \in Interest, CurlWatches(s, i) PROVE Inv'
  BY <1>7 DEF CurlWatches, SocketFunction, selectorVars
<1>8. ASSUME NEW s \in Socket, CurlUnwatches(s) PROVE Inv'
  BY <1>8 DEF CurlUnwatches, SocketFunction, selectorVars
<1>9. ASSUME NEW s \in Socket, CurlOpens(s) PROVE Inv'
  BY <1>9 DEF CurlOpens, Opens, loopVars
<1>10. ASSUME NEW s \in Socket, CurlCloses(s) PROVE Inv'
  <2>1. sockets[s] # None => updates[s] = Remove
    BY <1>10 DEF CurlCloses
  <2>2. pc # "work" /\ pc' = pc /\ updates' = updates /\ wanted' = wanted
    BY <1>10 DEF CurlCloses, Driving, loopVars
  <2>. QED  BY <1>10, <2>1, <2>2 DEF CurlCloses, Closes
<1>11. ASSUME NEW t \in Time \cup {None}, TimerFunction(t) PROVE Inv'
  BY <1>11 DEF TimerFunction, selectorVars
<1>12. CASE UNCHANGED vars
  BY <1>12 DEF vars, loopVars, selectorVars
<1>. QED  BY <1>1, <1>2, <1>3, <1>4, <1>5, <1>6, <1>7, <1>8, <1>9, <1>10, <1>11, <1>12 DEF Next, AgentStep, Curl

THEOREM Invariant == Spec => []Inv
<1>1. Init => Inv
  BY InterestAssumption DEF Init, SelectorInit, Inv, Asked, Armed, TurnsStartClean, Kept
<1>2. TypeOK /\ Inv /\ [Next]_vars => Inv'
  BY InvStep
<1>. QED  BY <1>1, <1>2, TypeCorrect, PTL DEF Spec

----------------------------------------------------------------------------
(* No registration outlives what the selector knows of the socket.          *)
THEOREM NothingForgotten == Spec => []NothingElseIsArmed
<1>1. Inv => NothingElseIsArmed
  BY DEF Inv, Armed, NothingElseIsArmed
<1>. QED  BY <1>1, Invariant, PTL

(* No closed or bad socket makes the agent fail when it arms sockets again. *)
THEOREM RearmingSucceeds == Spec => []RearmingIsSafe
<1>1. TypeOK /\ Inv => RearmingIsSafe
  BY DEF TypeOK, SelectorTypeOK, Inv, Kept, Late, ToBeRearmed, RearmingIsSafe, RearmFails, ToRearm, PollerModify, Modifies, Adds
<1>. QED  BY <1>1, TypeCorrect, Invariant, PTL

(* While the agent waits, the poller has what curl asked for.  The wait     *)
(* begins so, and nothing but the clock moves before it ends.               *)
THEOREM WatchesAreArmed == Spec => []WatchedIsArmed
<1>1. TypeOK /\ Inv => WatchedIsArmed
  BY DEF TypeOK, SelectorTypeOK, Inv, Asked, TurnsStartClean, Kept, Late, ToBeRearmed, WatchedIsArmed
<1>. QED  BY <1>1, TypeCorrect, Invariant, PTL
=============================================================================
