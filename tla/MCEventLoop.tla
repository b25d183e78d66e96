---------------------------- MODULE MCEventLoop ----------------------------
EXTENDS EventLoop

(* Two of the three interests: one contains the other. *)
MCInterest == {{"in"}, {"in", "out"}}
=============================================================================
