------------------------------ MODULE CookieJar ------------------------------
(***************************************************************************)
(* A cookie jar (cookies/jar.rs) that several threads set cookies in, each  *)
(* with its request URI: CookieInterceptor with the headers of a response,  *)
(* or the user with cookies of their own.  A cookie that names a domain is  *)
(* judged by the cache of the public suffix list, PslCache, before it is    *)
(* inserted; expired cookies are removed when the jar is written.           *)
(***************************************************************************)
EXTENDS PslCache, SequencesExt

CONSTANTS
    Lower,      \* label -> the label in lower case
    Ip,         \* the hosts that are IP addresses
    Received,   \* Set-Cookie headers with the URI they answer
    Offered,    \* cookies the user builds with the URI they are set for
    Suffix,     \* edition -> the domains it calls public suffixes
    MaxClock    \* bound: the clock

VARIABLES
    jar,
    job,        \* thread -> the call of CookieJar::set it is in
    now

vars == <<pslVars, jar, job, now>>

INSTANCE Cookie

(* A URI is its scheme, host and path; a relative one has no host. *)
Uri == {r.uri : r \in Received \cup Offered}

Parsed(time) == {r \in {[cookie |-> Parse(s.header, time), uri |-> s.uri] : s \in Received} : r.cookie # None}
Job == Offered \cup UNION {Parsed(time) : time \in 0..MaxClock}
Entry == {WithContext(j.cookie, j.uri) : j \in {k \in Job : k.uri.host # None}}

ASSUME CookieJarAssumption ==
    /\ MaxClock \in Nat /\ MaxEdition \in Nat
    /\ None \notin Job /\ None \notin 0..MaxEdition
    /\ \A j \in Job : j.cookie.expiration = None \/ j.cookie.expiration \in Nat
    /\ \A u \in Uri : u.path \in Seq(STRING) /\ (u.host = None \/ u.host \in Seq(STRING))
    /\ \A j \in Job : \A text \in {j.cookie.domain, j.cookie.path} : text = None \/ text \in Seq(STRING)

TypeOK ==
    /\ PslTypeOK
    /\ jar \subseteq Entry
    /\ job \in [Thread -> Job \cup {None}]
    /\ now \in 0..MaxClock
    /\ \A t \in Thread : job[t] = None => query[t] = "none"

Init ==
    /\ PslInit
    /\ jar = {} /\ now = 0
    /\ job = [t \in Thread |-> None]

----------------------------------------------------------------------------
(* CookieJar::set.  A cookie that is refused here leaves everything as it   *)
(* is: InvalidRequestDomain, DomainMismatch, InvalidCookieDomain.           *)
(* mutant: the request's host is not looked at *)
AllowsAnyHost(cookie, uri) ==
    /\ uri.host # None
    /\ cookie.domain # None => Len(cookie.domain) > 1

Allows(cookie, uri) ==
    /\ uri.host # None
    /\ cookie.domain # None => DomainMatches(uri.host, cookie.domain) /\ Len(cookie.domain) > 1

Begin(t, set) ==
    /\ job[t] = None
    /\ Allows(set.cookie, set.uri)
    /\ job' = [job EXCEPT ![t] = set]
    /\ query' = [query EXCEPT ![t] = IF set.cookie.domain = None THEN "none" ELSE "lock"]
    /\ floor' = [floor EXCEPT ![t] = served]
    /\ UNCHANGED <<answer, list, age, refreshing, spawned, writer, poisoned, published, attempts, served>>
    /\ UNCHANGED <<jar, now>>

IsPublicSuffix(t) == job[t].cookie.domain \in Suffix[answer[t]]

EndSet(t) ==
    /\ job' = [job EXCEPT ![t] = None]
    /\ query' = [query EXCEPT ![t] = "none"]
    /\ answer' = [answer EXCEPT ![t] = 0] /\ floor' = [floor EXCEPT ![t] = 0]
    /\ UNCHANGED <<list, age, refreshing, spawned, writer, poisoned, published, attempts, served>>
    /\ UNCHANGED now

(* replace, then retain, under one write lock. *)
(* mutant: the new cookie is added beside the old one *)
InsertBeside(entry) == {e \in jar \cup {entry} : ~IsExpired(e.cookie, now)}

Insert(entry) ==
    {e \in {f \in jar : ~SameCookie(f, entry)} \cup {entry} : ~IsExpired(e.cookie, now)}

Set(t) ==
    /\ job[t] # None
    /\ job[t].cookie.domain # None => query[t] = "answered" /\ ~IsPublicSuffix(t)
    /\ jar' = Insert(WithContext(job[t].cookie, job[t].uri))
    /\ EndSet(t)

SetRejected(t) ==
    /\ query[t] = "answered" /\ IsPublicSuffix(t)
    /\ EndSet(t) /\ UNCHANGED jar

SetPanics(t) ==
    /\ AcquirePanics(t)
    /\ job' = [job EXCEPT ![t] = None]
    /\ UNCHANGED <<jar, now>>

Query(t) == Acquire(t) \/ Check(t) \/ AnswerFromCache(t) \/ ReleaseGuard(t) \/ AnswerFromBundle(t)

(* CookieJar::clear. *)
Clear ==
    /\ jar' = {}
    /\ UNCHANGED <<pslVars, job, now>>

(* get_for_uri and get_by_name read the jar as it is. *)
GetForUri(uri) == {e \in jar : Matches(e, uri, now)}

GetByName(uri, name) == {e \in GetForUri(uri) : e.cookie.name = name}

----------------------------------------------------------------------------
Pass ==
    /\ now < MaxClock
    /\ now' = now + 1
    /\ UNCHANGED <<pslVars, jar, job>>

Environment == (Expire \/ ClockSetBack \/ Publish) /\ UNCHANGED <<jar, job, now>>

SetStep(t) == Set(t) \/ SetRejected(t) \/ SetPanics(t) \/ (Query(t) /\ UNCHANGED <<jar, job, now>>)

Next ==
    \/ \E t \in Thread, set \in Parsed(now) \cup Offered : Begin(t, set)
    \/ \E t \in Thread : SetStep(t)
    \/ RefreshThread /\ UNCHANGED <<jar, job, now>>
    \/ Clear
    \/ Pass
    \/ Environment

Spec == Init /\ [][Next]_vars

(* Threads run, the lock is granted in the end, and a server that is asked  *)
(* for the list answers or fails: psl.rs sets no timeout of its own.        *)
Fairness ==
    /\ \A t \in Thread : SF_vars(SetStep(t))
    /\ WF_vars(RefreshThread /\ UNCHANGED <<jar, job, now>>)

LiveSpec == Spec /\ Fairness

----------------------------------------------------------------------------
(* Whatever threads set, clear and read at once, the jar is a CookieStore   *)
(* of its cookies that have not expired: those that are still in it wait    *)
(* for the next write and are never sent.                                   *)
Store == INSTANCE CookieStore WITH store <- {e \in jar : ~IsExpired(e.cookie, now)}

KeepsStore == Store!Spec

(* The domains a host may set cookies for: its own, and with no IP address  *)
(* those above it that are not top-level.                                   *)
Domains(host) ==
    {ToLower(host)} \cup
    IF host \in Ip THEN {} ELSE {ToLower(SubSeq(host, 1, n)) : n \in 2..Len(host)}

(* A set that ends gains and loses cookies of its own host's domains only,  *)
(* and none for a domain that every edition since it began calls a suffix,  *)
(* though the list is replaced while the set runs.                          *)
SetsAreAllowed ==
    [][\A t \in Thread : job[t] # None /\ job'[t] = None =>
           /\ \A e \in {f \in jar : f \notin jar' /\ ~IsExpired(f.cookie, now)} \cup (jar' \ jar) :
                  ToLower(e.domain) \in Domains(job[t].uri.host)
           /\ \A e \in jar' \ jar : e.cookie.domain # None =>
                  \E edition \in floor[t]..published : e.domain \notin Suffix[edition]]_vars

(* The cookies a request gets were set for it: by its own host if they are  *)
(* host-only, by one that shares their domain otherwise, for a directory of *)
(* the request's path, and none goes over http that is secure.              *)
LookupsAreIsolated ==
    \A uri \in {u \in Uri : u.host # None} : \A e \in GetForUri(uri) :
        /\ ToLower(e.domain) \in IF e.cookie.domain = None THEN {ToLower(uri.host)} ELSE Domains(uri.host)
        /\ e.path = uri.path \/ \E n \in 0..Len(uri.path) : e.path \in {SubSeq(uri.path, 1, n), Append(SubSeq(uri.path, 1, n), "")}
        /\ uri.scheme = "http" => ~e.cookie.secure

(* A set ends: it waits for no more than the refresh that holds the lock.   *)
SetsEnd == \A t \in Thread : job[t] # None ~> job[t] = None
=============================================================================
