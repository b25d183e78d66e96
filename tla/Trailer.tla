------------------------------ MODULE Trailer ------------------------------
(***************************************************************************)
(* src/src/trailer.rs: the trailer of a response, written once by the       *)
(* handler's TrailerWriter and awaited by any number of threads.  A waiter   *)
(* looks, registers a listener, looks again and only then blocks; the       *)
(* writer publishes the headers, then notifies the listeners.               *)
(*                                                                          *)
(* Event of the crate event-listener is external: notify wakes those who    *)
(* listen at that moment, nobody who listens later.                         *)
(***************************************************************************)
CONSTANTS
    Waiter,        \* calls of wait and wait_async: the same protocol
    TimedWaiter,   \* calls of wait_timeout
    Unset          \* "no headers here"

VARIABLES
    ownHeaders,    \* TrailerWriter.headers: a set of header lines, Unset once flushed
    trailer,       \* Shared.headers: a set of header lines, Unset until published
    listeners,     \* waiters whose listener has not been notified
    woken,         \* waiters whose listener has been notified
    waiterPc

trailerVars == <<ownHeaders, trailer, listeners, woken, waiterPc>>
waiterVars == <<listeners, woken, waiterPc>>

AnyWaiter == Waiter \cup TimedWaiter

TrailerTypeOK(Line) ==
    /\ ownHeaders \in (SUBSET Line) \cup {Unset}
    /\ trailer \in (SUBSET Line) \cup {Unset}
    /\ listeners \subseteq AnyWaiter
    /\ woken \subseteq AnyWaiter
    /\ waiterPc \in [AnyWaiter -> {"idle", "look", "listen", "check", "blocked", "got", "timedOut"}]

TrailerInit ==
    /\ ownHeaders = {}
    /\ trailer = Unset
    /\ listeners = {}
    /\ woken = {}
    /\ waiterPc = [w \in AnyWaiter |-> "idle"]

Goto(w, pc) == waiterPc' = [waiterPc EXCEPT ![w] = pc]

(* try_get, and where the waiter goes when there is nothing yet. *)
LookElse(w, pc) == Goto(w, IF trailer # Unset THEN "got" ELSE pc)

CallWait(w) ==
    /\ waiterPc[w] = "idle"
    /\ Goto(w, "look")
    /\ UNCHANGED <<ownHeaders, trailer, listeners, woken>>

Look(w) ==
    /\ waiterPc[w] = "look"
    /\ LookElse(w, "listen")
    /\ UNCHANGED <<ownHeaders, trailer, listeners, woken>>

Listen(w) ==
    /\ waiterPc[w] = "listen"
    /\ listeners' = listeners \cup {w}
    /\ woken' = woken \ {w}
    /\ Goto(w, "check")
    /\ UNCHANGED <<ownHeaders, trailer>>

(* mutant: blocks without looking again *)
NoDoubleCheck(w) ==
    /\ waiterPc[w] = "check"
    /\ Goto(w, "blocked")
    /\ UNCHANGED <<ownHeaders, trailer, listeners, woken>>

DoubleCheck(w) ==
    /\ waiterPc[w] = "check"
    /\ LookElse(w, "blocked")
    /\ listeners' = IF trailer # Unset THEN listeners \ {w} ELSE listeners
    /\ UNCHANGED <<ownHeaders, trailer, woken>>

(* Woken: look once more; wait starts over if there is still nothing,       *)
(* wait_timeout gives up.                                                   *)
WakeUp(w) ==
    /\ waiterPc[w] = "blocked"
    /\ w \in woken
    /\ LookElse(w, IF w \in TimedWaiter THEN "timedOut" ELSE "look")
    /\ UNCHANGED <<ownHeaders, trailer, listeners, woken>>

WaitTimesOut(w) ==
    /\ w \in TimedWaiter
    /\ waiterPc[w] = "blocked"
    /\ Goto(w, "timedOut")
    /\ listeners' = listeners \ {w}
    /\ UNCHANGED <<ownHeaders, trailer, woken>>

WaiterStep(w) == Look(w) \/ Listen(w) \/ DoubleCheck(w) \/ WakeUp(w)

----------------------------------------------------------------------------
(* flush_impl, in its two steps.  Only the first flush has headers to give. *)

FlushPublish ==
    /\ ownHeaders # Unset
    /\ trailer' = IF trailer = Unset THEN ownHeaders ELSE trailer
    /\ ownHeaders' = Unset
    /\ UNCHANGED waiterVars

FlushNotify ==
    /\ woken' = woken \cup listeners
    /\ listeners' = {}
    /\ UNCHANGED <<ownHeaders, trailer, waiterPc>>
=============================================================================
