----------------------------- MODULE MCRedirect -----------------------------
EXTENDS Redirect, TLC

(* A POST with a body, a sensitive header, credentials and an               *)
(* Authentication: with GET, or without one of them, fewer things can       *)
(* change.                                                                  *)
MCInit ==
    /\ Init
    /\ call.request.method = "POST"
    /\ call.request.headers["sensitive"] = "caller"
    /\ call.request.body.kind # "empty"
    /\ call.request.config = "credentials"
    /\ call.request.authentication
    /\ call.autoReferer

MCSpec == MCInit /\ [][Next]_vars

MCDefaults == {"plain"}

Symmetry == Permutations(Host)
=============================================================================
