------------------------------ MODULE Selector ------------------------------
(***************************************************************************)
(* src/src/agent/selector.rs: level-triggered registrations on a poller     *)
(* whose registrations are oneshot.                                         *)
(*                                                                          *)
(* External: the poller, as epoll behaves.  A descriptor that is not open   *)
(* can be neither added nor modified; one that is registered cannot be      *)
(* added, one that is not cannot be modified; a registration is spent by    *)
(* its first event and goes away with its descriptor.                       *)
(***************************************************************************)
CONSTANTS
    Socket,     \* descriptors; a number is reused once it was closed
    Interest,   \* sets of "in" and "out" that curl may ask for
    None

(* A registration whose event has fired. *)
Spent == {}

ASSUME InterestAssumption == Interest \subseteq (SUBSET {"in", "out"}) \ {Spent} /\ None \notin Interest \cup {Spent}

VARIABLES
    sockets,   \* Selector.sockets: the interest asked for, or None
    bad,       \* Selector.bad_sockets
    fresh,     \* sockets whose registration carries the current tick
    events,    \* sockets with an event in the last wait
    poller,    \* the poller's registrations: an interest, Spent or None
    open       \* descriptors that are open

selectorVars == <<sockets, bad, fresh, events, poller, open>>

SelectorTypeOK ==
    /\ sockets \in [Socket -> Interest \cup {None}]
    /\ bad \subseteq Socket
    /\ fresh \subseteq Socket
    /\ events \subseteq Socket
    /\ poller \in [Socket -> Interest \cup {Spent, None}]
    /\ open \subseteq Socket

SelectorInit ==
    /\ sockets = [s \in Socket |-> None]
    /\ bad = {} /\ fresh = {} /\ events = {}
    /\ poller = [s \in Socket |-> None]
    /\ open = {}

----------------------------------------------------------------------------
Adds(s)     == s \in open /\ poller[s] = None
Modifies(s) == s \in open /\ poller[s] # None

(* When poller_add and poller_modify succeed: each falls back on the other. *)
PollerAdd(s)    == Adds(s) \/ Modifies(s)
PollerModify(s) == Modifies(s) \/ Adds(s)

(* mutant: a bad socket is not remembered *)
RegisterForgetsBad(s, i) ==
    /\ sockets' = [sockets EXCEPT ![s] = i]
    /\ fresh' = fresh \cup {s}
    /\ IF IF sockets[s] # None THEN PollerModify(s) ELSE PollerAdd(s)
       THEN poller' = [poller EXCEPT ![s] = i]
       ELSE UNCHANGED poller
    /\ UNCHANGED <<bad, events, open>>

(* A socket the poller refuses is kept for later.                           *)
Register(s, i) ==
    /\ sockets' = [sockets EXCEPT ![s] = i]
    /\ fresh' = fresh \cup {s}
    /\ IF IF sockets[s] # None THEN PollerModify(s) ELSE PollerAdd(s)
       THEN poller' = [poller EXCEPT ![s] = i] /\ UNCHANGED bad
       ELSE bad' = bad \cup {s} /\ UNCHANGED poller
    /\ UNCHANGED <<events, open>>

(* mutant: the poller keeps the registration *)
DeregisterKeepsPoller(s) ==
    /\ sockets' = [sockets EXCEPT ![s] = None]
    /\ bad' = bad \ {s}
    /\ UNCHANGED <<fresh, events, poller, open>>

(* The poller may have forgotten the socket already. *)
Deregister(s) ==
    /\ IF sockets[s] = None
       THEN UNCHANGED <<sockets, bad, poller>>
       ELSE /\ sockets' = [sockets EXCEPT ![s] = None]
            /\ bad' = bad \ {s}
            /\ poller' = [poller EXCEPT ![s] = None]
    /\ UNCHANGED <<fresh, events, open>>

----------------------------------------------------------------------------
(* The first half of poll, up to the wait: sockets whose event has fired    *)
(* are armed again, unless they were registered since; bad sockets are      *)
(* tried again, unless they were registered since; a new tick begins.       *)

(* mutant: no socket is armed again *)
NothingToRearm == {}

(* mutant: sockets registered in this tick are armed again as well *)
SpentWithoutTick == {s \in events : sockets[s] # None}

ToRearm == {s \in events : sockets[s] # None /\ s \notin fresh}

ToRetry == {s \in bad : sockets[s] # None /\ s \notin fresh \cup ToRearm}

Rearm ==
    /\ \A s \in ToRearm : PollerModify(s)
    /\ LET retried == {s \in ToRetry : PollerAdd(s)}
       IN  /\ poller' = [s \in Socket |-> IF s \in ToRearm \cup retried THEN sockets[s] ELSE poller[s]]
           /\ bad' = {s \in bad : sockets[s] # None} \ retried
    /\ events' = {}
    /\ fresh' = {}
    /\ UNCHANGED <<sockets, open>>

(* The error is returned, and ends the agent. *)
RearmFails == \E s \in ToRearm : ~PollerModify(s)

(* The wait returns with events of some armed sockets. *)
Fire(S) ==
    /\ S # {} /\ S \subseteq {s \in Socket : poller[s] \notin {None, Spent}}
    /\ events' = S
    /\ poller' = [s \in Socket |-> IF s \in S THEN Spent ELSE poller[s]]
    /\ UNCHANGED <<sockets, bad, fresh, open>>

----------------------------------------------------------------------------
(* curl opens and closes descriptors, always on the agent thread.           *)
Opens(s) ==
    /\ s \notin open
    /\ open' = open \cup {s}
    /\ UNCHANGED <<sockets, bad, fresh, events, poller>>

Closes(s) ==
    /\ s \in open
    /\ open' = open \ {s}
    /\ poller' = [poller EXCEPT ![s] = None]
    /\ UNCHANGED <<sockets, bad, fresh, events>>
=============================================================================
