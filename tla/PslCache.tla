------------------------------ MODULE PslCache ------------------------------
(***************************************************************************)
(* The process-wide cache of the public suffix list (cookies/psl.rs): a     *)
(* RwLock that queries read and that one refresh at a time writes, holding  *)
(* it while it asks the server.                                             *)
(*                                                                          *)
(* An edition of the list is a number, 0 the one that is compiled in.  The  *)
(* age of the cache is what needs_refreshed makes of last_refreshed; the    *)
(* system's clock may be set back.  External: the server, which publishes   *)
(* editions in order, and the lock, which prefers neither side.             *)
(***************************************************************************)
EXTENDS Naturals

CONSTANTS
    Thread,       \* threads that set cookies
    MaxEdition,   \* bound: editions published
    None

VARIABLES
    query,        \* where a thread's call of is_public_suffix is
    answer,       \* the edition that answered it
    list,         \* ListCache.list
    age,          \* ListCache.last_refreshed: "never", "fresh" or "stale"
    refreshing,   \* IS_REFRESHING
    spawned,      \* refresh threads that wait for the lock
    writer,       \* a refresh holds the lock
    poisoned,     \* a refresh panicked with the lock held
    published,    \* the server's edition
    attempts,     \* history: refreshes since the cache became stale
    served,       \* history: the latest edition that answered a query
    floor         \* history: served, when the thread's query began

pslVars == <<query, answer, list, age, refreshing, spawned, writer, poisoned,
             published, attempts, served, floor>>

Readers == {t \in Thread : query[t] = "reading"}
Edition == 0..MaxEdition

PslTypeOK ==
    /\ query \in [Thread -> {"none", "lock", "reading", "checked", "fallback", "answered"}]
    /\ answer \in [Thread -> Edition] /\ floor \in [Thread -> Edition]
    /\ list \in Edition \cup {None}
    /\ age \in {"never", "fresh", "stale"}
    /\ refreshing \in BOOLEAN /\ writer \in BOOLEAN /\ poisoned \in BOOLEAN
    /\ spawned \in Nat /\ attempts \in Nat
    /\ published \in Edition /\ served \in Edition
    /\ writer => \A t \in Thread : query[t] \notin {"reading", "checked"}

PslInit ==
    /\ query = [t \in Thread |-> "none"]
    /\ answer = [t \in Thread |-> 0] /\ floor = [t \in Thread |-> 0]
    /\ list = None /\ age = "never"
    /\ refreshing = FALSE /\ spawned = 0 /\ writer = FALSE /\ poisoned = FALSE
    /\ published = 0 /\ attempts = 0 /\ served = 0

----------------------------------------------------------------------------
(* is_public_suffix.  Both branches of the compare_exchange keep the guard. *)
NeedsRefreshed == age # "fresh"

Acquire(t) ==
    /\ query[t] = "lock" /\ ~writer /\ ~poisoned
    /\ query' = [query EXCEPT ![t] = "reading"]
    /\ UNCHANGED <<answer, list, age, refreshing, spawned, writer, poisoned, published, attempts, served, floor>>

(* read().unwrap() panics, and so does the call that asked. *)
AcquirePanics(t) ==
    /\ query[t] = "lock" /\ ~writer /\ poisoned
    /\ query' = [query EXCEPT ![t] = "none"]
    /\ floor' = [floor EXCEPT ![t] = 0]
    /\ UNCHANGED <<answer, list, age, refreshing, spawned, writer, poisoned, published, attempts, served>>

Check(t) ==
    /\ query[t] = "reading"
    /\ query' = [query EXCEPT ![t] = "checked"]
    /\ IF NeedsRefreshed /\ ~refreshing
       THEN refreshing' = TRUE /\ spawned' = spawned + 1
       ELSE UNCHANGED <<refreshing, spawned>>
    /\ UNCHANGED <<answer, list, age, writer, poisoned, published, attempts, served, floor>>

Answer(t, edition) ==
    /\ query' = [query EXCEPT ![t] = "answered"]
    /\ answer' = [answer EXCEPT ![t] = edition]
    /\ served' = IF edition > served THEN edition ELSE served
    /\ UNCHANGED <<list, age, refreshing, spawned, writer, poisoned, published, attempts, floor>>

(* mutant: a query waits for the list it asked for *)
AnswerWhenFresh(t) == query[t] = "checked" /\ list # None /\ ~refreshing /\ Answer(t, list)

AnswerFromCache(t) == query[t] = "checked" /\ list # None /\ Answer(t, list)

(* The guard is dropped before the list that is compiled in is read. *)
ReleaseGuard(t) ==
    /\ query[t] = "checked" /\ list = None
    /\ query' = [query EXCEPT ![t] = "fallback"]
    /\ UNCHANGED <<answer, list, age, refreshing, spawned, writer, poisoned, published, attempts, served, floor>>

AnswerFromBundle(t) == query[t] = "fallback" /\ Answer(t, 0)

----------------------------------------------------------------------------
(* refresh_in_background and ListCache::refresh. *)
StartRefresh ==
    /\ spawned > 0 /\ ~writer
    /\ \A t \in Thread : query[t] \notin {"reading", "checked"}
    /\ spawned' = spawned - 1 /\ writer' = TRUE /\ attempts' = attempts + 1
    /\ UNCHANGED <<query, answer, list, age, refreshing, poisoned, published, served, floor>>

EndRefresh ==
    /\ writer
    /\ age' = "fresh" /\ refreshing' = FALSE /\ writer' = FALSE
    /\ UNCHANGED <<query, answer, spawned, poisoned, published, attempts, served, floor>>

ListUpdated == EndRefresh /\ list' = published

(* Only a request with If-Modified-Since is answered so: last_updated is    *)
(* known from the first list on.                                            *)
NotModified == list # None /\ EndRefresh /\ UNCHANGED list

(* mutant: a refresh that fails leaves the time of the last one *)
RefreshFailsSilently ==
    /\ writer
    /\ refreshing' = FALSE /\ writer' = FALSE
    /\ UNCHANGED <<query, answer, list, age, spawned, poisoned, published, attempts, served, floor>>

(* mutant: a refresh that fails returns before the flag is cleared *)
RefreshFailsEarly ==
    /\ writer
    /\ age' = "fresh" /\ writer' = FALSE
    /\ UNCHANGED <<query, answer, list, refreshing, spawned, poisoned, published, attempts, served, floor>>

(* The request fails, the status is another, or the text is no list. *)
RefreshFails == EndRefresh /\ UNCHANGED list

(* send panics: the shared client cannot be made or its agent is gone.      *)
(* IS_REFRESHING stays set.                                                 *)
RefreshPanics ==
    /\ writer
    /\ poisoned' = TRUE /\ writer' = FALSE
    /\ UNCHANGED <<query, answer, list, age, refreshing, spawned, published, attempts, served, floor>>

RefreshThread == StartRefresh \/ ListUpdated \/ NotModified \/ RefreshFails \/ RefreshPanics

----------------------------------------------------------------------------
Expire ==
    /\ age = "fresh"
    /\ age' = "stale" /\ attempts' = 0
    /\ UNCHANGED <<query, answer, list, refreshing, spawned, writer, poisoned, published, served, floor>>

(* elapsed() fails on a time in the future, which counts as fresh. *)
ClockSetBack ==
    /\ age = "stale"
    /\ age' = "fresh"
    /\ UNCHANGED <<query, answer, list, refreshing, spawned, writer, poisoned, published, attempts, served, floor>>

Publish ==
    /\ published < MaxEdition
    /\ published' = published + 1
    /\ UNCHANGED <<query, answer, list, age, refreshing, spawned, writer, poisoned, attempts, served, floor>>

----------------------------------------------------------------------------
(* IS_REFRESHING keeps threads from starting a refresh only while one waits *)
(* for the lock or holds it, or after one panicked.  Then the flag stays,   *)
(* and what is left of the cache is a poisoned lock, whose readers panic.   *)
FlagMeansRefresh == refreshing <=> spawned > 0 \/ writer \/ poisoned

(* A list that has become stale is asked for once, whoever notices it and   *)
(* however the refresh ends, until it is stale again: not twice, and the    *)
(* refresh that ended does not keep the next one from starting.             *)
OneRefreshPerTtl == attempts + spawned <= 1 /\ FlagMeansRefresh
=============================================================================
