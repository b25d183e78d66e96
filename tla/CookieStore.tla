----------------------------- MODULE CookieStore -----------------------------
(***************************************************************************)
(* What a cookie jar promises: it holds the cookies that have not expired,  *)
(* at most one for a domain, path and name, and the one that was set last.  *)
(***************************************************************************)
EXTENDS Naturals

CONSTANTS
    Entry,   \* cookies with the domain and path they are kept for
    None

VARIABLES store, now

Alive(e, time) == e.cookie.expiration = None \/ e.cookie.expiration >= time

Replaces(e, f) == <<e.domain, e.path, e.cookie.name>> = <<f.domain, f.path, f.cookie.name>>

Init == store = {} /\ now = 0

Put(e) ==
    /\ store' = {f \in store : ~Replaces(e, f)} \cup {f \in {e} : Alive(f, now)}
    /\ UNCHANGED now

Clear == store' = {} /\ UNCHANGED now

Pass ==
    /\ now' = now + 1
    /\ store' = {e \in store : Alive(e, now + 1)}

Next == (\E e \in Entry : Put(e)) \/ Clear \/ Pass

Spec == Init /\ [][Next]_<<store, now>>
=============================================================================
