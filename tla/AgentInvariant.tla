-------------------------- MODULE AgentInvariant --------------------------
(***************************************************************************)
(* The inductive invariant of the agent: what its safety properties rest on *)
(* from one step to the next.  The first part is about the keys of the slab *)
(* and the messages that carry them, the second about results, the third    *)
(* about the way out.                                                       *)
(***************************************************************************)
EXTENDS Agent

Queued(m) == \E i \in DOMAIN queue : queue[i] = m

(* A request runs under the key its wakers captured, so under one key only. *)
KeysMatch == \A k \in Key : requests[k] # None => wakerKey[requests[k]] = k

(* A request is submitted once, and untouched until the agent has it.       *)
Untouched(r) ==
    /\ wakerKey[r] = None
    /\ future[r] = "pending"

QueuedIsUntouched ==
    \A r \in Request : Queued(Execute(r)) => Untouched(r) /\ caller[r] \notin {"idle", "panicked"}

IdleIsUntouched == \A r \in Request : caller[r] \in {"idle", "panicked"} => Untouched(r)

QueuedOnce == \A i, j \in DOMAIN queue : queue[i].type = "Execute" /\ queue[i] = queue[j] => i = j

(* A request without wakers has never run. *)
NeverRan ==
    \A r \in Request : wakerKey[r] = None => paused[r] = {} /\ outcome[r] = "none" /\ result[r] = "none"

(* No entry is left in the slab before the loop and after it. *)
SlabEmpty == agentPc \in {"starting", "closing", "exited"} => \A k \in Key : requests[k] = None

KeysInv == KeysMatch /\ QueuedIsUntouched /\ IdleIsUntouched /\ QueuedOnce /\ NeverRan /\ SlabEmpty /\ NoLostUnpause

(* A batch holds, for each of its tokens, the outcome of the transfer that  *)
(* runs under it.                                                           *)
BatchInv ==
    /\ batch # {} => agentPc = "complete"
    /\ \A m \in batch : requests[m.token] # None /\ m.result = outcome[requests[m.token]]

ResultInv ==
    /\ BatchInv
    /\ OwnResult

(* Close is pushed by the drop of the handle, when nobody is waiting any    *)
(* more, and nothing is submitted after it.                                 *)
CloseInv ==
    /\ handlePc \notin {"spawning", "open"} => Released
    /\ closeRequested \/ Queued(Close) => handlePc \in {"pushed", "joining", "dropped"}
    /\ \A i, j \in DOMAIN queue : i < j /\ queue[i] = Close => queue[j].type # "Execute"
    /\ closeRequested => \A r \in Request : ~Queued(Execute(r))

(* How the agent ends: cleanly when it was asked to close, with an error    *)
(* only where a step may fail.                                              *)
ExitInv ==
    /\ agentPc \in {"clearing", "closing", "exited"} <=> exit # "none"
    /\ exit = "ok" => closeRequested
    /\ exit = "error" => MayFail
    /\ \A r \in Request : caller[r] \in {"reading", "finished"} => future[r] # "pending"

IInv == TypeOK /\ KeysInv /\ ResultInv /\ CloseInv /\ ExitInv
=============================================================================
