--------------------------- MODULE AgentContract ---------------------------
(***************************************************************************)
(* What the agent promises to the callers of a client, whatever happens     *)
(* inside: a request that was accepted is answered at most once; an agent   *)
(* that was asked to close first answers everybody who still wants to know; *)
(* nothing is accepted by an agent that is gone.  Only a failure of the     *)
(* agent itself may drop a request unanswered.                              *)
(***************************************************************************)
CONSTANTS Request, MayFail

VARIABLES
    phase,   \* of each request, as its caller sees it
    agent    \* "up", or how it stopped

vars == <<phase, agent>>

Answer == {"response", "error", "lost"}
Phase == {"new", "pending", "cancelled", "refused"} \cup Answer

Init ==
    /\ phase = [r \in Request |-> "new"]
    /\ agent = "up"

Accept(r) ==
    /\ agent = "up"
    /\ phase[r] = "new"
    /\ phase' = [phase EXCEPT ![r] = "pending"]
    /\ UNCHANGED agent

(* The agent is gone: the caller panics instead of waiting. *)
Refuse(r) ==
    /\ agent = "error"
    /\ phase[r] = "new"
    /\ phase' = [phase EXCEPT ![r] = "refused"]
    /\ UNCHANGED agent

Reply(r, a) ==
    /\ agent = "up"
    /\ phase[r] = "pending"
    /\ phase' = [phase EXCEPT ![r] = a]
    /\ UNCHANGED agent

(* The caller drops its future, whether the answer is already there or not. *)
Cancel(r) ==
    /\ phase[r] \in Answer \cup {"pending"}
    /\ phase' = [phase EXCEPT ![r] = "cancelled"]
    /\ UNCHANGED agent

StopCleanly ==
    /\ agent = "up"
    /\ \A r \in Request : phase[r] # "pending"
    /\ agent' = "ok"
    /\ UNCHANGED phase

(* A failing agent drops requests: their futures resolve with an error.     *)
LoseRequests(S) ==
    /\ MayFail
    /\ agent = "up"
    /\ S \subseteq {r \in Request : phase[r] = "pending"}
    /\ phase' = [r \in Request |-> IF r \in S THEN "lost" ELSE phase[r]]
    /\ UNCHANGED agent

StopFailing ==
    /\ MayFail
    /\ agent = "up"
    /\ agent' = "error"
    /\ UNCHANGED phase

Next ==
    \/ \E r \in Request : Accept(r) \/ Refuse(r) \/ Cancel(r)
    \/ \E r \in Request : Reply(r, "response") \/ Reply(r, "error")
    \/ \E S \in SUBSET Request : LoseRequests(S)
    \/ StopCleanly \/ StopFailing

Spec == Init /\ [][Next]_vars
=============================================================================
