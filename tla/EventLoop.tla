----------------------------- MODULE EventLoop -----------------------------
(***************************************************************************)
(* AgentContext::poll of src/src/agent/mod.rs with its timer and its socket *)
(* updates: the turn of the agent's loop in which it waits for sockets, for *)
(* curl's timeout or for a notification, lets curl act, and applies what    *)
(* curl asked for meanwhile.                                                *)
(*                                                                          *)
(* External: curl.  In every call of its multi handle it may open           *)
(* descriptors, ask for sockets to be watched differently and for another   *)
(* timeout; where it drives transfers it may also close the descriptors it  *)
(* no longer watches.                                                       *)
(***************************************************************************)
EXTENDS Naturals, FiniteSetsExt, Selector

CONSTANTS
    Remove,       \* "stop watching"
    WaitTimeout,  \* WAIT_TIMEOUT, in ticks of the clock
    MaxClock      \* bound: nothing is due later, and a wait ends by then

ASSUME ClockAssumption == WaitTimeout \in Nat /\ MaxClock \in Nat /\ Remove \notin Interest \cup {None}

VARIABLES
    pc,          \* where the agent thread is
    now,         \* the clock as poll reads it, once a turn
    waitUntil,   \* when the wait ends at the latest
    todo,        \* events not handed to curl yet
    updates,     \* socket_updates: an interest, Remove, or None
    timer,       \* Timer.timeout: a deadline or None
    clock,
    wanted,      \* curl: the interest it last asked for, per socket
    due          \* curl: when it last asked to be called, None once it was

loopVars == <<pc, now, waitUntil, todo, updates, timer>>
vars == <<loopVars, clock, wanted, due, selectorVars>>

Time == 0..MaxClock

TypeOK ==
    /\ SelectorTypeOK
    /\ pc \in {"work", "wait", "actions", "expiry", "timeout", "apply", "failed"}
    /\ now \in Time /\ waitUntil \in Time /\ clock \in Time
    /\ todo \subseteq Socket
    /\ updates \in [Socket -> Interest \cup {Remove, None}]
    /\ timer \in Time \cup {None}
    /\ wanted \in [Socket -> Interest \cup {None}]
    /\ due \in Time \cup {None}

Init ==
    /\ SelectorInit
    /\ pc = "work"
    /\ now = 0 /\ waitUntil = 0 /\ clock = 0
    /\ todo = {}
    /\ updates = [s \in Socket |-> None]
    /\ timer = None
    /\ wanted = [s \in Socket |-> None]
    /\ due = None

----------------------------------------------------------------------------
(* curl, in a call the agent makes: to add, resume or remove a transfer     *)
(* ("work"), for a socket's events or for its timeout.                      *)

Driving == pc \in {"actions", "timeout"}
InCurl == Driving \/ pc = "work"

(* The socket callback: an update that was not applied yet is replaced.     *)
SocketFunction(s, update) == updates' = [updates EXCEPT ![s] = update]

CurlWatches(s, i) ==
    /\ InCurl
    /\ wanted[s] # i
    /\ wanted' = [wanted EXCEPT ![s] = i]
    /\ SocketFunction(s, i)
    /\ UNCHANGED <<pc, now, waitUntil, todo, timer, clock, due, selectorVars>>

CurlUnwatches(s) ==
    /\ InCurl
    /\ wanted[s] # None
    /\ wanted' = [wanted EXCEPT ![s] = None]
    /\ SocketFunction(s, Remove)
    /\ UNCHANGED <<pc, now, waitUntil, todo, timer, clock, due, selectorVars>>

CurlOpens(s) ==
    /\ InCurl
    /\ Opens(s)
    /\ UNCHANGED <<loopVars, clock, wanted, due>>

CurlCloses(s) ==
    /\ Driving
    /\ wanted[s] = None
    /\ Closes(s)
    /\ UNCHANGED <<loopVars, clock, wanted, due>>

(* The timer callback: Timer::start or Timer::stop. *)
TimerFunction(t) ==
    /\ InCurl
    /\ due # t
    /\ t # None => t >= clock
    /\ due' = t
    /\ timer' = t
    /\ UNCHANGED <<pc, now, waitUntil, todo, updates, clock, wanted, selectorVars>>

----------------------------------------------------------------------------
(* The first half of poll reads the clock, computes the wait, and gets the  *)
(* selector ready.                                                          *)

(* mutant: the timer is not looked at *)
PollTimeoutFixed == WaitTimeout

(* Ticks to wait: the remaining time of the timer, WaitTimeout at most.     *)
PollTimeout ==
    LET remaining == IF timer = None THEN WaitTimeout
                     ELSE IF timer > clock THEN timer - clock ELSE 0
    IN  Min({remaining, WaitTimeout})

BeginWait ==
    /\ pc = "work"
    /\ Rearm
    /\ now' = clock
    /\ waitUntil' = Min({clock + PollTimeout, MaxClock})
    /\ pc' = "wait"
    /\ UNCHANGED <<todo, updates, timer, clock, wanted, due>>

SocketEvents(S) ==
    /\ pc = "wait"
    /\ Fire(S)
    /\ todo' = S
    /\ pc' = "actions"
    /\ UNCHANGED <<now, waitUntil, updates, timer, clock, wanted, due>>

(* A notification, or an interrupted system call. *)
Woken ==
    /\ pc = "wait"
    /\ pc' = "expiry"
    /\ UNCHANGED <<now, waitUntil, todo, updates, timer, clock, wanted, due, selectorVars>>

WaitTimesOut == clock >= waitUntil /\ Woken

(* multi.action for one event; curl may have closed the socket since.       *)
Action(s) ==
    /\ pc = "actions"
    /\ s \in todo
    /\ todo' = todo \ {s}
    /\ UNCHANGED <<pc, now, waitUntil, updates, timer, clock, wanted, due, selectorVars>>

ActionsEnd ==
    /\ pc = "actions"
    /\ todo = {}
    /\ pc' = "expiry"
    /\ UNCHANGED <<now, waitUntil, todo, updates, timer, clock, wanted, due, selectorVars>>

----------------------------------------------------------------------------
(* The expiry is judged by the clock as it was before the wait. *)
IsExpired == timer # None /\ now >= timer

(* mutant: a timer is stopped whether it has expired or not *)
ExpireAnyway ==
    /\ pc = "expiry"
    /\ timer' = None
    /\ IF IsExpired
       THEN due' = None /\ pc' = "timeout"
       ELSE UNCHANGED due /\ pc' = "apply"
    /\ UNCHANGED <<now, waitUntil, todo, updates, clock, wanted, selectorVars>>

(* The timer is stopped, then curl is called, which may start it again.     *)
CheckTimer ==
    /\ pc = "expiry"
    /\ IF IsExpired
       THEN timer' = None /\ due' = None /\ pc' = "timeout"
       ELSE UNCHANGED <<timer, due>> /\ pc' = "apply"
    /\ UNCHANGED <<now, waitUntil, todo, updates, clock, wanted, selectorVars>>

TimeoutEnds ==
    /\ pc = "timeout"
    /\ pc' = "apply"
    /\ UNCHANGED <<now, waitUntil, todo, updates, timer, clock, wanted, due, selectorVars>>

(* The updates are drained in the order of a hash map. *)
Apply(s) ==
    /\ pc = "apply"
    /\ updates[s] # None
    /\ updates' = [updates EXCEPT ![s] = None]
    /\ IF updates[s] = Remove THEN Deregister(s) ELSE Register(s, updates[s])
    /\ UNCHANGED <<pc, now, waitUntil, todo, timer, clock, wanted, due>>

TurnEnds ==
    /\ pc = "apply"
    /\ \A s \in Socket : updates[s] = None
    /\ pc' = "work"
    /\ UNCHANGED <<now, waitUntil, todo, updates, timer, clock, wanted, due, selectorVars>>

(* The poller, curl or a registration fails: a `?` of poll ends the agent.  *)
PollFails ==
    /\ pc \in {"work", "wait", "actions", "timeout", "apply"}
    /\ pc' = "failed"
    /\ UNCHANGED <<now, waitUntil, todo, updates, timer, clock, wanted, due, selectorVars>>

Failed == pc = "failed" /\ UNCHANGED vars

Tick ==
    /\ clock < MaxClock
    /\ clock' = clock + 1
    /\ UNCHANGED <<loopVars, wanted, due, selectorVars>>

----------------------------------------------------------------------------
Curl ==
    \/ \E s \in Socket : CurlUnwatches(s) \/ CurlOpens(s) \/ CurlCloses(s) \/ \E i \in Interest : CurlWatches(s, i)
    \/ \E t \in Time \cup {None} : TimerFunction(t)

(* What the agent thread does by itself. *)
AgentStep ==
    \/ BeginWait \/ WaitTimesOut
    \/ \E s \in Socket : Action(s) \/ Apply(s)
    \/ ActionsEnd \/ CheckTimer \/ TimeoutEnds \/ TurnEnds

Next ==
    \/ AgentStep \/ Woken \/ \E S \in SUBSET Socket : SocketEvents(S)
    \/ Curl \/ PollFails \/ Failed \/ Tick

Spec == Init /\ [][Next]_vars

(* Time passes, the agent thread runs, a wait ends when its time is up.     *)
(* Nothing is assumed of the sockets, of notifications, or of curl.         *)
LiveSpec == Spec /\ WF_vars(AgentStep) /\ WF_vars(Tick)

----------------------------------------------------------------------------
(* While the agent waits, every socket curl wants to be watched is armed in *)
(* the poller with the interest curl last asked for, though registrations   *)
(* are spent by their events and descriptors are closed and reused within a *)
(* turn; left out are the updates that came since poll applied them, and    *)
(* the sockets the poller refused.                                          *)
WatchedIsArmed ==
    pc = "wait" =>
        \A s \in open \ bad : wanted[s] # None /\ updates[s] = None => poller[s] = wanted[s]

(* The poller watches nothing the selector has forgotten. *)
NothingElseIsArmed == \A s \in Socket : poller[s] # None => sockets[s] # None

(* Arming a socket again never fails because of curl's closed or bad        *)
(* sockets, which would end the agent with all its requests.                *)
RearmingIsSafe == pc = "work" => ~RearmFails

(* Between two turns the timer is the one curl asked for last, and the      *)
(* agent never sleeps past it.                                              *)
TimerIsCurls ==
    /\ timer = due
    /\ pc = "wait" /\ due # None => waitUntil <= Max({due, now})

(* curl is called, or changes its mind, after the time it asked for.        *)
TimeoutIsServed == \A t \in Time : due = t ~> due # t \/ pc = "failed"

(* A descriptor curl wants to be watched is armed sooner or later: after an *)
(* update that came too late for this turn, after its event, and after it   *)
(* was refused while it was closed.                                         *)
WatchIsHonoured ==
    \A s \in Socket, i \in Interest :
        wanted[s] = i /\ s \in open ~> poller[s] = i \/ wanted[s] # i \/ s \notin open \/ pc = "failed"
=============================================================================
