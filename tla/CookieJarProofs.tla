--------------------------- MODULE CookieJarProofs ---------------------------
(***************************************************************************)
(* Proofs about CookieJar and the cache of the public suffix list, for any  *)
(* threads, cookies and lists.                                              *)
(***************************************************************************)
EXTENDS CookieJar, SequenceTheorems, TLAPS

(* A refresh is begun only when none was since the cache became stale: the  *)
(* flag is set for as long as one is spawned or holds the lock, and when it *)
(* is cleared the cache is fresh. Only a panic leaves the flag behind.      *)
Refreshes ==
    /\ spawned \in Nat /\ attempts \in Nat /\ attempts <= 1
    /\ spawned > 0 => spawned = 1 /\ attempts = 0 /\ refreshing = TRUE /\ writer = FALSE
    /\ writer = TRUE => refreshing = TRUE
    /\ refreshing = FALSE /\ age # "fresh" => attempts = 0
    /\ refreshing = TRUE => spawned > 0 \/ writer = TRUE \/ poisoned = TRUE
    /\ poisoned = TRUE => refreshing = TRUE /\ spawned = 0 /\ writer = FALSE

Locks ==
    /\ refreshing \in BOOLEAN /\ writer \in BOOLEAN /\ poisoned \in BOOLEAN
    /\ age \in {"never", "fresh", "stale"}

LEMMA RefreshesInit == Init => Refreshes /\ Locks
<1>1. Init => Locks
  BY DEF Init, PslInit, Locks
<1>2. Init => Refreshes
  BY DEF Init, PslInit, Refreshes
<1>. QED  BY <1>1, <1>2

LEMMA QueryKeepsRefreshes ==
    ASSUME Refreshes, Locks, NEW t \in Thread, Query(t)
    PROVE  Refreshes' /\ Locks'
<1>1. CASE Acquire(t)
  BY <1>1 DEF Acquire, Refreshes, Locks
<1>2. CASE Check(t)
  <2>1. CASE refreshing = FALSE /\ age # "fresh"
    <3>1. refreshing' = TRUE /\ spawned' = spawned + 1 /\ UNCHANGED <<writer, poisoned, attempts, age>>
      BY <1>2, <2>1 DEF Check, NeedsRefreshed
    <3>2. spawned = 0 /\ attempts = 0
      BY <2>1 DEF Refreshes
    <3>3. writer = FALSE /\ poisoned = FALSE
      BY <2>1 DEF Refreshes, Locks
    <3>4. refreshing' = TRUE /\ spawned' = 1 /\ attempts' = 0 /\ writer' = FALSE /\ poisoned' = FALSE
      BY <3>1, <3>2, <3>3
    <3>5. age' \in {"never", "fresh", "stale"}
      BY <3>1 DEF Locks
    <3>6. Locks'
      BY <3>4, <3>5 DEF Locks
    <3>7. Refreshes'
      BY <3>4 DEF Refreshes
    <3>. QED  BY <3>6, <3>7
  <2>2. CASE ~(refreshing = FALSE /\ age # "fresh")
    BY <1>2, <2>2 DEF Check, NeedsRefreshed, Refreshes, Locks
  <2>. QED  BY <2>1, <2>2
<1>3. CASE AnswerFromCache(t) \/ AnswerFromBundle(t)
  BY <1>3 DEF AnswerFromCache, AnswerFromBundle, Answer, Refreshes, Locks
<1>4. CASE ReleaseGuard(t)
  BY <1>4 DEF ReleaseGuard, Refreshes, Locks
<1>. QED  BY <1>1, <1>2, <1>3, <1>4 DEF Query

LEMMA RefreshKeepsRefreshes == ASSUME Refreshes, Locks, RefreshThread PROVE Refreshes' /\ Locks'
<1>1. CASE StartRefresh
  BY <1>1 DEF StartRefresh, Refreshes, Locks
<1>2. CASE ListUpdated \/ NotModified \/ RefreshFails
  BY <1>2 DEF ListUpdated, NotModified, RefreshFails, EndRefresh, Refreshes, Locks
<1>3. CASE RefreshPanics
  <2>1. refreshing = TRUE /\ spawned = 0
    <3>1. writer = TRUE
      BY <1>3 DEF RefreshPanics, Locks
    <3>. QED  BY <3>1 DEF Refreshes
  <2>2. spawned' = 0 /\ attempts' = attempts /\ age' = age
    BY <1>3, <2>1 DEF RefreshPanics
  <2>3. refreshing' = TRUE /\ writer' = FALSE /\ poisoned' = TRUE
    BY <1>3, <2>1 DEF RefreshPanics
  <2>4. Refreshes'
    BY <2>2, <2>3 DEF Refreshes
  <2>5. Locks'
    BY <2>2, <2>3 DEF Locks
  <2>. QED  BY <2>4, <2>5
<1>. QED  BY <1>1, <1>2, <1>3 DEF RefreshThread

LEMMA SetKeepsRefreshes == ASSUME Refreshes, Locks, NEW t \in Thread, SetStep(t) PROVE Refreshes' /\ Locks'
<1>1. CASE Set(t) \/ SetRejected(t)
  BY <1>1 DEF Set, SetRejected, EndSet, Refreshes, Locks
<1>2. CASE SetPanics(t)
  BY <1>2 DEF SetPanics, AcquirePanics, Refreshes, Locks
<1>3. CASE Query(t)
  BY <1>3, QueryKeepsRefreshes
<1>. QED  BY <1>1, <1>2, <1>3 DEF SetStep

LEMMA RefreshesStep == ASSUME Refreshes, Locks, [Next]_vars PROVE Refreshes' /\ Locks'
<1>1. ASSUME NEW t \in Thread, NEW set \in Parsed(now) \cup Offered, Begin(t, set) PROVE Refreshes' /\ Locks'
  BY <1>1 DEF Begin, Refreshes, Locks
<1>2. CASE RefreshThread
  BY <1>2, RefreshKeepsRefreshes
<1>3. CASE Clear \/ Pass \/ UNCHANGED vars
  BY <1>3 DEF Clear, Pass, vars, pslVars, Refreshes, Locks
<1>4. CASE Environment
  BY <1>4 DEF Environment, Expire, ClockSetBack, Publish, Refreshes, Locks
<1>. QED  BY <1>1, <1>2, <1>3, <1>4, SetKeepsRefreshes DEF Next

(* A list that has become stale is asked for once, whichever threads notice *)
(* it, however the refresh ends and whatever the clock does: not twice, and *)
(* no refresh that ended leaves IS_REFRESHING of psl.rs set, unless it      *)
(* panicked and poisoned the lock.                                          *)
THEOREM RefreshedOnce == Spec => []OneRefreshPerTtl
<1>1. Refreshes /\ Locks => OneRefreshPerTtl
  <2> SUFFICES ASSUME Refreshes, Locks PROVE OneRefreshPerTtl
    OBVIOUS
  <2>1. refreshing = TRUE => spawned > 0 \/ writer = TRUE \/ poisoned = TRUE
    BY DEF Refreshes
  <2>2. spawned > 0 \/ writer = TRUE \/ poisoned = TRUE => refreshing = TRUE
    BY DEF Refreshes
  <2>3. FlagMeansRefresh
    BY <2>1, <2>2 DEF Locks, FlagMeansRefresh
  <2>4. attempts + spawned <= 1
    BY DEF Refreshes
  <2>. QED  BY <2>3, <2>4 DEF OneRefreshPerTtl
<1>. QED  BY <1>1, RefreshesInit, RefreshesStep, PTL DEF Spec

----------------------------------------------------------------------------
(* The jar holds entries made of cookies that were parsed or offered.       *)
Kept ==
    /\ jar \subseteq Entry
    /\ now \in 0..MaxClock
    /\ job \in [Thread -> Job \cup {None}]
    /\ \A t \in Thread : job[t] # None => job[t].uri.host # None

LEMMA ParsedIsJob == ASSUME now \in 0..MaxClock PROVE Parsed(now) \cup Offered \subseteq Job
  BY DEF Job

LEMMA InsertKeeps == ASSUME jar \subseteq Entry, NEW e \in Entry PROVE Insert(e) \subseteq Entry
  BY DEF Insert

LEMMA JobMakesEntry == ASSUME Kept, NEW t \in Thread, job[t] # None
                       PROVE WithContext(job[t].cookie, job[t].uri) \in Entry
<1>1. job[t] \in {k \in Job : k.uri.host # None}
  BY DEF Kept
<1>. QED  BY <1>1 DEF Entry

LEMMA JobHasUri == \A j \in Job : j.uri \in Uri
  BY DEF Job, Uri, Parsed

LEMMA KeptInit == Init => Kept
  BY CookieJarAssumption DEF Init, Kept

LEMMA KeptStep == ASSUME Kept, [Next]_vars PROVE Kept'
<1>1. ASSUME NEW t \in Thread, NEW set \in Parsed(now) \cup Offered, Begin(t, set) PROVE Kept'
  <2>1. set \in Job /\ set.uri.host # None
    BY <1>1, ParsedIsJob DEF Kept, Begin, Allows
  <2>2. jar' = jar /\ now' = now /\ job' = [job EXCEPT ![t] = set]
    BY <1>1 DEF Begin
  <2>. QED  BY <2>1, <2>2 DEF Kept
<1>2. ASSUME NEW t \in Thread, SetStep(t) PROVE Kept'
  <2>1. CASE Set(t)
    <3>1. job[t] # None /\ jar' = Insert(WithContext(job[t].cookie, job[t].uri))
      BY <2>1 DEF Set
    <3>2. jar' \subseteq Entry
      BY <3>1, JobMakesEntry, InsertKeeps DEF Kept
    <3>3. job' = [job EXCEPT ![t] = None] /\ now' = now
      BY <2>1 DEF Set, EndSet
    <3>. QED  BY <3>2, <3>3 DEF Kept
  <2>2. CASE SetRejected(t) \/ SetPanics(t)
    BY <2>2 DEF SetRejected, SetPanics, EndSet, Kept
  <2>3. CASE UNCHANGED <<jar, job, now>>
    BY <2>3 DEF Kept
  <2>. QED  BY <1>2, <2>1, <2>2, <2>3 DEF SetStep
<1>3. CASE Clear
  BY <1>3 DEF Clear, Kept
<1>4. CASE Pass
  BY <1>4, CookieJarAssumption DEF Pass, Kept
<1>5. CASE UNCHANGED <<jar, job, now>>
  BY <1>5 DEF Kept
<1>. QED  BY <1>1, <1>2, <1>3, <1>4, <1>5 DEF Next, Environment, vars

----------------------------------------------------------------------------
LEMMA AliveIsNotExpired ==
    ASSUME NEW e \in Entry, NEW time \in 0..MaxClock
    PROVE  Store!Alive(e, time) <=> ~IsExpired(e.cookie, time)
<1>1. PICK j \in Job : e.cookie = j.cookie
  BY DEF Entry, WithContext
<1>2. e.cookie.expiration = None \/ e.cookie.expiration \in Nat
  BY <1>1, CookieJarAssumption
<1>. QED  BY <1>2 DEF Store!Alive, IsExpired

LEMMA AliveWas ==
    ASSUME NEW e \in Entry, NEW time \in 0..MaxClock, time + 1 \in 0..MaxClock, ~IsExpired(e.cookie, time + 1)
    PROVE  ~IsExpired(e.cookie, time)
<1>1. PICK j \in Job : e.cookie = j.cookie
  BY DEF Entry, WithContext
<1>2. e.cookie.expiration = None \/ e.cookie.expiration \in Nat
  BY <1>1, CookieJarAssumption
<1>. QED  BY <1>2 DEF IsExpired

Live == {e \in jar : ~IsExpired(e.cookie, now)}

LEMMA SetPuts == ASSUME Kept, NEW t \in Thread, Set(t)
                 PROVE \E e \in Entry : Store!Put(e)
<1>1. job[t] # None /\ now' = now /\ jar' = Insert(WithContext(job[t].cookie, job[t].uri))
  BY DEF Set, EndSet
<1>. DEFINE e == WithContext(job[t].cookie, job[t].uri)
<1>2. e \in Entry
  BY <1>1, JobMakesEntry
<1>3. \A f \in jar : Store!Replaces(e, f) <=> SameCookie(f, e)
  BY DEF Store!Replaces, SameCookie
<1>4. Store!Alive(e, now) <=> ~IsExpired(e.cookie, now)
  BY <1>2, AliveIsNotExpired DEF Kept
<1>. HIDE DEF e
<1>5. Live' = {f \in Live : ~Store!Replaces(e, f)} \cup {f \in {e} : Store!Alive(f, now)}
  BY <1>1, <1>3, <1>4 DEF Live, Insert, e
<1>. QED  BY <1>1, <1>2, <1>5 DEF Store!Put, Live

LEMMA StepMaps == ASSUME Kept, [Next]_vars PROVE [Store!Next]_<<Live, now>>
<1>1. ASSUME NEW t \in Thread, Set(t) PROVE Store!Next
  BY <1>1, SetPuts DEF Store!Next
<1>2. CASE Clear
  <2>1. Live' = {} /\ now' = now
    BY <1>2 DEF Clear, Live
  <2>. QED  BY <2>1 DEF Store!Next, Store!Clear, Live
<1>3. CASE Pass
  <2>1. now' = now + 1 /\ now + 1 \in 0..MaxClock /\ jar' = jar
    BY <1>3, CookieJarAssumption DEF Pass, Kept
  <2>2. \A e \in jar : ~IsExpired(e.cookie, now + 1) <=> ~IsExpired(e.cookie, now) /\ Store!Alive(e, now + 1)
    BY <2>1, AliveIsNotExpired, AliveWas DEF Kept
  <2>3. Live' = {e \in Live : Store!Alive(e, now + 1)}
    BY <2>1, <2>2 DEF Live
  <2>. QED  BY <2>1, <2>3 DEF Store!Next, Store!Pass, Live
<1>4. CASE UNCHANGED <<jar, now>>
  BY <1>4 DEF Live
<1>5. ASSUME NEW t \in Thread, SetStep(t), ~Set(t) PROVE UNCHANGED <<jar, now>>
  BY <1>5 DEF SetStep, SetRejected, SetPanics, EndSet
<1>6. ASSUME NEW t \in Thread, NEW set \in Parsed(now) \cup Offered, Begin(t, set) PROVE UNCHANGED <<jar, now>>
  BY <1>6 DEF Begin
<1>. QED  BY <1>1, <1>2, <1>3, <1>4, <1>5, <1>6 DEF Next, Environment, vars

(* Threads that set and clear cookies at once, through a cache that is      *)
(* refreshed under them, never make the jar anything but a CookieStore: one *)
(* cookie for a domain, path and name, the last that was set, gone when it  *)
(* has expired.                                                             *)
THEOREM JarIsStore == Spec => KeepsStore
<1>1. Init => Store!Init
  BY DEF Init, Store!Init
<1>2. Kept /\ [Next]_vars => [Store!Next]_<<{e \in jar : ~IsExpired(e.cookie, now)}, now>>
  BY StepMaps DEF Live
<1>. QED  BY <1>1, <1>2, KeptInit, KeptStep, PTL DEF Spec, KeepsStore, Store!Spec

----------------------------------------------------------------------------
(* Types, and the lock: no query reads the list while a refresh writes it.  *)
Queries ==
    /\ query \in [Thread -> {"none", "lock", "reading", "checked", "fallback", "answered"}]
    /\ writer = TRUE => \A t \in Thread : query[t] \notin {"reading", "checked"}
    /\ \A t \in Thread : job[t] = None => query[t] = "none"

(* Editions: what was served is no later than the list, which is no later   *)
(* than what is published, and a query is answered with an edition no       *)
(* earlier than any that was served when it began.                          *)
Editions ==
    /\ answer \in [Thread -> Edition] /\ floor \in [Thread -> Edition]
    /\ list \in Edition \cup {None}
    /\ published \in Edition /\ served \in Edition
    /\ list = None => served = 0
    /\ list # None => served <= list /\ list <= published
    /\ \A t \in Thread : floor[t] <= served
    /\ \A t \in Thread : query[t] = "fallback" => floor[t] = 0
    /\ \A t \in Thread : query[t] = "answered" => answer[t] \in floor[t]..published

LEMMA EditionsInit == Init => Queries /\ Editions
  BY CookieJarAssumption DEF Init, PslInit, Queries, Editions, Edition

LEMMA QueriesStep == ASSUME Kept, Locks, Queries, [Next]_vars PROVE Queries'
<1>. USE DEF Queries
<1>1. ASSUME NEW t \in Thread, NEW set \in Parsed(now) \cup Offered, Begin(t, set) PROVE Queries'
  <2>1. set # None
    BY <1>1, ParsedIsJob, CookieJarAssumption DEF Kept
  <2>2. job' = [job EXCEPT ![t] = set] /\ query' \in {[query EXCEPT ![t] = "none"], [query EXCEPT ![t] = "lock"]}
    BY <1>1 DEF Begin
  <2>3. UNCHANGED writer
    BY <1>1 DEF Begin
  <2>. QED  BY <2>1, <2>2, <2>3 DEF Kept
<1>2. ASSUME NEW t \in Thread, SetStep(t) PROVE Queries'
  <2>1. CASE Set(t) \/ SetRejected(t) \/ SetPanics(t)
    BY <2>1 DEF Set, SetRejected, SetPanics, EndSet, AcquirePanics, Kept
  <2>2. CASE Acquire(t) /\ UNCHANGED <<jar, job, now>>
    BY <2>2 DEF Acquire, Locks, Kept
  <2>3. CASE (Check(t) \/ ReleaseGuard(t)) /\ UNCHANGED <<jar, job, now>>
    BY <2>3 DEF Check, ReleaseGuard, Kept
  <2>4. CASE (AnswerFromCache(t) \/ AnswerFromBundle(t)) /\ UNCHANGED <<jar, job, now>>
    BY <2>4 DEF AnswerFromCache, AnswerFromBundle, Answer, Kept
  <2>. QED  BY <1>2, <2>1, <2>2, <2>3, <2>4 DEF SetStep, Query
<1>3. CASE RefreshThread /\ UNCHANGED <<jar, job, now>>
  BY <1>3 DEF RefreshThread, StartRefresh, ListUpdated, NotModified, RefreshFails, EndRefresh, RefreshPanics
<1>4. CASE Clear \/ Pass \/ UNCHANGED vars
  BY <1>4 DEF Clear, Pass, vars, pslVars
<1>5. CASE Environment
  BY <1>5 DEF Environment, Expire, ClockSetBack, Publish
<1>. QED  BY <1>1, <1>2, <1>3, <1>4, <1>5 DEF Next

LEMMA EditionsStep == ASSUME Queries, Editions, [Next]_vars PROVE Editions'
<1>. USE CookieJarAssumption DEF Editions, Edition
<1>1. ASSUME NEW t \in Thread, NEW set \in Parsed(now) \cup Offered, Begin(t, set) PROVE Editions'
  BY <1>1 DEF Begin, Queries
<1>2. ASSUME NEW t \in Thread, SetStep(t) PROVE Editions'
  <2>1. CASE Set(t) \/ SetRejected(t)
    <3>1. EndSet(t)
      BY <2>1 DEF Set, SetRejected
    <3>. QED  BY <3>1 DEF EndSet, Queries
  <2>2. CASE SetPanics(t)
    BY <2>2 DEF SetPanics, AcquirePanics, Queries
  <2>3. CASE Acquire(t)
    BY <2>3 DEF Acquire, Queries
  <2>4. CASE Check(t)
    BY <2>4 DEF Check, Queries
  <2>5. CASE ReleaseGuard(t)
    BY <2>5 DEF ReleaseGuard, Queries
  <2>6. CASE AnswerFromCache(t)
    BY <2>6 DEF AnswerFromCache, Answer, Queries
  <2>7. CASE AnswerFromBundle(t)
    BY <2>7 DEF AnswerFromBundle, Answer, Queries
  <2>. QED  BY <1>2, <2>1, <2>2, <2>3, <2>4, <2>5, <2>6, <2>7 DEF SetStep, Query
<1>3. CASE RefreshThread
  BY <1>3 DEF RefreshThread, StartRefresh, ListUpdated, NotModified, RefreshFails, EndRefresh, RefreshPanics
<1>4. CASE Clear \/ Pass \/ UNCHANGED vars
  BY <1>4 DEF Clear, Pass, vars, pslVars
<1>5. CASE Environment
  BY <1>5 DEF Environment, Expire, ClockSetBack, Publish
<1>. QED  BY <1>1, <1>2, <1>3, <1>4, <1>5 DEF Next

IInv == Refreshes /\ Locks /\ Kept /\ Queries /\ Editions

LEMMA IInvStep == ASSUME IInv, [Next]_vars PROVE IInv'
  BY RefreshesStep, KeptStep, QueriesStep, EditionsStep DEF IInv

THEOREM Invariant == Spec => []IInv
<1>1. Init => IInv
  BY RefreshesInit, KeptInit, EditionsInit DEF IInv
<1>. QED  BY <1>1, IInvStep, PTL DEF Spec

(* Every variable keeps its type, and no thread reads the list while the    *)
(* refresh has the lock.                                                    *)
THEOREM TypeCorrect == Spec => []TypeOK
<1>1. IInv => TypeOK
  <2>. SUFFICES ASSUME IInv PROVE TypeOK
    OBVIOUS
  <2>1. refreshing \in BOOLEAN /\ writer \in BOOLEAN /\ poisoned \in BOOLEAN
    BY DEF IInv, Locks
  <2>2. spawned \in Nat /\ attempts \in Nat
    BY DEF IInv, Refreshes
  <2>3. age \in {"never", "fresh", "stale"}
    BY DEF IInv, Locks
  <2>. QED  BY <2>1, <2>2, <2>3 DEF IInv, Kept, Queries, Editions, TypeOK, PslTypeOK
<1>. QED  BY <1>1, Invariant, PTL

----------------------------------------------------------------------------
(* The provers do not know that the empty string is one.                    *)
Text == STRING \cup {""}

LEMMA Texts ==
    /\ \A u \in Uri : u.path \in Seq(Text) /\ (u.host = None \/ u.host \in Seq(Text))
    /\ \A j \in Job : \A text \in {j.cookie.domain, j.cookie.path} : text = None \/ text \in Seq(Text)
<1>1. Seq(STRING) \subseteq Seq(Text)
  BY SeqMonotonic DEF Text
<1>. QED  BY <1>1, CookieJarAssumption

(* A domain that is a strict prefix of a host, in lower case, is the lower  *)
(* case of one of the host's own prefixes.                                  *)
LEMMA LowerText ==
    ASSUME NEW d \in Seq(Text), NEW n \in 0..Len(d)
    PROVE  /\ Len(ToLower(d)) = Len(d)
           /\ Len(SubSeq(ToLower(d), 1, n)) = n
           /\ \A i \in 1..n : SubSeq(ToLower(d), 1, n)[i] = Lower[d[i]]
           /\ SubSeq(d, 1, n) \in Seq(Text) /\ Len(SubSeq(d, 1, n)) = n
           /\ ToLower(SubSeq(d, 1, n)) = [i \in 1..n |-> Lower[d[i]]]
<1>. DEFINE labels == {Lower[d[i]] : i \in 1..Len(d)}
<1>1. n \in Nat /\ n <= Len(d) /\ Len(d) \in Nat /\ DOMAIN d = 1..Len(d)
  OBVIOUS
<1>2. ToLower(d) = [i \in 1..Len(d) |-> Lower[d[i]]]
  BY <1>1 DEF ToLower
<1>3. ToLower(d) \in Seq(labels) /\ Len(ToLower(d)) = Len(d)
  BY <1>1, <1>2
<1>4. \A i \in 1..n : ToLower(d)[i] \in labels /\ ToLower(d)[i] = Lower[d[i]]
  BY <1>1, <1>2
<1>5. /\ Len(SubSeq(ToLower(d), 1, n)) = n
      /\ \A i \in 1..n : SubSeq(ToLower(d), 1, n)[i] = ToLower(d)[1 + i - 1]
  <2>. HIDE DEF labels
  <2>. QED  BY <1>1, <1>4, SubSeqProperties
<1>6. /\ SubSeq(d, 1, n) \in Seq(Text) /\ Len(SubSeq(d, 1, n)) = n
      /\ \A i \in 1..n : SubSeq(d, 1, n)[i] = d[1 + i - 1]
  <2>1. \A i \in 1..n : d[i] \in Text
    BY <1>1
  <2>. QED  BY <1>1, <2>1, SubSeqProperties
<1>7. \A i \in 1..n : 1 + i - 1 = i
  BY <1>1
<1>8. ToLower(SubSeq(d, 1, n)) = [i \in 1..n |-> Lower[d[i]]]
  BY <1>6, <1>7 DEF ToLower
<1>. QED  BY <1>3, <1>4, <1>5, <1>6, <1>7, <1>8

LEMMA PrefixOfHost ==
    ASSUME NEW d \in Seq(Text), NEW h \in Seq(Text), IsStrictPrefix(ToLower(d), ToLower(h))
    PROVE  Len(d) \in 0..Len(h) /\ ToLower(d) = ToLower(SubSeq(h, 1, Len(d)))
<1>1. /\ Len(d) \in 0..Len(d) /\ Len(h) \in 0..Len(h)
  OBVIOUS
<1>2. Len(ToLower(d)) = Len(d) /\ Len(ToLower(h)) = Len(h)
  BY <1>1, LowerText
<1>3. Len(d) <= Len(h) /\ SubSeq(ToLower(d), 1, Len(d)) = SubSeq(ToLower(h), 1, Len(d))
  BY <1>2 DEF IsStrictPrefix, IsPrefix
<1>4. Len(d) \in 0..Len(h)
  BY <1>1, <1>3
<1>5. \A i \in 1..Len(d) : Lower[d[i]] = Lower[h[i]]
  <2>1. \A i \in 1..Len(d) : SubSeq(ToLower(d), 1, Len(d))[i] = Lower[d[i]]
    BY <1>1, LowerText
  <2>2. \A i \in 1..Len(d) : SubSeq(ToLower(h), 1, Len(d))[i] = Lower[h[i]]
    BY <1>4, LowerText
  <2>. QED  BY <1>3, <2>1, <2>2
<1>6. ToLower(d) = [i \in 1..Len(d) |-> Lower[d[i]]]
  BY DEF ToLower
<1>7. ToLower(SubSeq(h, 1, Len(d))) = [i \in 1..Len(d) |-> Lower[h[i]]]
  BY <1>4, LowerText
<1>. QED  BY <1>4, <1>5, <1>6, <1>7

LEMMA MatchedIsAbove ==
    ASSUME NEW d \in Seq(Text), NEW h \in Seq(Text), DomainMatches(h, d), Len(d) > 1
    PROVE  ToLower(d) \in Domains(h)
<1>1. CASE ToLower(d) = ToLower(h)
  BY <1>1 DEF Domains
<1>2. CASE IsStrictPrefix(ToLower(d), ToLower(h)) /\ h \notin Ip
  <2>1. Len(d) \in 2..Len(h) /\ ToLower(d) = ToLower(SubSeq(h, 1, Len(d)))
    BY <1>2, PrefixOfHost
  <2>. QED  BY <1>2, <2>1 DEF Domains
<1>. QED  BY <1>1, <1>2 DEF DomainMatches

(* Whatever is in the jar, or about to be, was allowed for its host.        *)
AllowedEntry(e) == \E j \in Job : Allows(j.cookie, j.uri) /\ e = WithContext(j.cookie, j.uri)

Allowed ==
    /\ \A t \in Thread : job[t] # None => Allows(job[t].cookie, job[t].uri)
    /\ \A e \in jar : AllowedEntry(e)

LEMMA AllowedStep == ASSUME Kept, Allowed, [Next]_vars PROVE Allowed'
<1>1. ASSUME NEW t \in Thread, NEW set \in Parsed(now) \cup Offered, Begin(t, set) PROVE Allowed'
  BY <1>1 DEF Begin, Allowed, Kept
<1>2. ASSUME NEW t \in Thread, SetStep(t) PROVE Allowed'
  <2>1. CASE Set(t)
    <3>1. job[t] \in Job /\ job' = [job EXCEPT ![t] = None]
      BY <2>1 DEF Set, EndSet, Kept
    <3>2. AllowedEntry(WithContext(job[t].cookie, job[t].uri))
      BY <2>1, <3>1 DEF Set, Allowed, AllowedEntry
    <3>3. jar' \subseteq jar \cup {WithContext(job[t].cookie, job[t].uri)}
      BY <2>1 DEF Set, Insert
    <3>. QED  BY <3>1, <3>2, <3>3 DEF Allowed, Kept
  <2>2. CASE SetRejected(t) \/ SetPanics(t)
    BY <2>2 DEF SetRejected, SetPanics, EndSet, Allowed, Kept
  <2>3. CASE UNCHANGED <<jar, job, now>>
    BY <2>3 DEF Allowed
  <2>. QED  BY <1>2, <2>1, <2>2, <2>3 DEF SetStep
<1>3. CASE Clear
  BY <1>3 DEF Clear, Allowed
<1>4. CASE UNCHANGED <<jar, job>>
  BY <1>4 DEF Allowed
<1>. QED  BY <1>1, <1>2, <1>3, <1>4 DEF Next, Environment, Pass, vars

LEMMA EntryIsAbove ==
    ASSUME NEW j \in Job, Allows(j.cookie, j.uri)
    PROVE  ToLower(WithContext(j.cookie, j.uri).domain) \in Domains(j.uri.host)
<1>1. CASE j.cookie.domain = None
  BY <1>1 DEF WithContext, Domains
<1>2. CASE j.cookie.domain # None
  <2>1. j.cookie.domain \in Seq(Text) /\ j.uri.host \in Seq(Text)
    BY <1>2, JobHasUri, Texts DEF Allows
  <2>2. WithContext(j.cookie, j.uri).domain = j.cookie.domain
    BY <1>2 DEF WithContext
  <2>. QED  BY <1>2, <2>1, <2>2, MatchedIsAbove DEF Allows
<1>. QED  BY <1>1, <1>2

(* A call of set that ends changes cookies of its own host's domains only,  *)
(* and adds none for a domain that every edition since it began calls a     *)
(* public suffix, though the list is replaced while the set runs.           *)
THEOREM SetsStayAllowed == Spec => SetsAreAllowed
<1>. DEFINE Effect(t) ==
       /\ \A e \in {f \in jar : f \notin jar' /\ ~IsExpired(f.cookie, now)} \cup (jar' \ jar) :
              ToLower(e.domain) \in Domains(job[t].uri.host)
       /\ \A e \in jar' \ jar : e.cookie.domain # None =>
              \E edition \in floor[t]..published : e.domain \notin Suffix[edition]
<1>1. ASSUME IInv, Allowed, NEW t \in Thread, Set(t) PROVE Effect(t)
  <2>. DEFINE entry == WithContext(job[t].cookie, job[t].uri)
  <2>1. /\ jar' \subseteq jar \cup {entry}
        /\ \A f \in jar : f \notin jar' /\ ~IsExpired(f.cookie, now) => f.domain = entry.domain
    BY <1>1 DEF Set, Insert, SameCookie
  <2>2. ToLower(entry.domain) \in Domains(job[t].uri.host)
    <3>1. job[t] \in Job /\ Allows(job[t].cookie, job[t].uri)
      BY <1>1 DEF Set, IInv, Kept, Allowed
    <3>. QED  BY <3>1, EntryIsAbove
  <2>3. entry.cookie.domain # None => \E edition \in floor[t]..published : entry.domain \notin Suffix[edition]
    <3>. SUFFICES ASSUME entry.cookie.domain # None
                  PROVE  \E edition \in floor[t]..published : entry.domain \notin Suffix[edition]
      OBVIOUS
    <3>1. entry.cookie.domain = job[t].cookie.domain /\ entry.domain = job[t].cookie.domain
      BY DEF WithContext
    <3>2. query[t] = "answered" /\ job[t].cookie.domain \notin Suffix[answer[t]]
      BY <1>1, <3>1 DEF Set, IsPublicSuffix
    <3>3. answer[t] \in floor[t]..published
      BY <1>1, <3>2 DEF IInv, Editions
    <3>. QED  BY <3>1, <3>2, <3>3
  <2>. HIDE DEF entry
  <2>. QED  BY <2>1, <2>2, <2>3
<1>2. ASSUME jar' = jar, NEW t \in Thread PROVE Effect(t)
  BY <1>2
<1>. HIDE DEF Effect
<1>3. ASSUME IInv, Allowed, Next, NEW t \in Thread, job[t] # None, job'[t] = None PROVE Effect(t)
  <2>1. CASE jar' = jar
    BY <1>2, <2>1
  <2>2. ASSUME NEW u \in Thread, Set(u) PROVE Effect(t)
    <3>1. job' = [job EXCEPT ![u] = None]
      BY <2>2 DEF Set, EndSet
    <3>2. u = t
      BY <1>3, <3>1 DEF IInv, Kept
    <3>. QED  BY <1>1, <1>3, <2>2, <3>2
  <2>3. ~Clear
    BY <1>3 DEF Clear
  <2>4. ASSUME NEW u \in Thread, NEW set \in Parsed(now) \cup Offered, Begin(u, set) PROVE jar' = jar
    BY <2>4 DEF Begin
  <2>5. ASSUME NEW u \in Thread, SetStep(u), ~Set(u) PROVE jar' = jar
    BY <2>5 DEF SetStep, SetRejected, SetPanics
  <2>. QED  BY <1>3, <2>1, <2>2, <2>3, <2>4, <2>5 DEF Next, Environment, Pass
<1>4. IInv /\ Allowed /\ [Next]_vars =>
          [\A t \in Thread : job[t] # None /\ job'[t] = None => Effect(t)]_vars
  BY <1>3
<1>5. Init => Allowed
  BY DEF Init, Allowed
<1>. QED  BY <1>4, <1>5, Invariant, AllowedStep, PTL DEF Spec, SetsAreAllowed, Effect, IInv

LEMMA PrefixIsSubSeq == ASSUME NEW p \in Seq(Text), NEW q \in Seq(Text), IsPrefix(p, q)
                        PROVE  Len(p) \in 0..Len(q) /\ p = SubSeq(q, 1, Len(p))
<1>1. SubSeq(p, 1, Len(p)) = p
  BY SubSeqFull
<1>. QED  BY <1>1 DEF IsPrefix

LEMMA FrontAndLast ==
    ASSUME NEW p \in Seq(Text), Len(p) > 0
    PROVE  Front(p) \in Seq(Text) /\ p = Append(Front(p), Last(p))
<1>1. Len(p) \in Nat /\ Len(p) - 1 \in 0..Len(p) /\ Len(p) \in 1..Len(p) /\ 1 \in 1..Len(p)
  OBVIOUS
<1>2. Front(p) \in Seq(Text)
  BY <1>1, LowerText DEF Front
<1>3. p[Len(p)] \in Text
  BY <1>1
<1>4. SubSeq(p, 1, Len(p)) = SubSeq(p, 1, Len(p) - 1) \o <<p[Len(p)]>>
  BY <1>1, SubSeqRecursiveSecond
<1>5. SubSeq(p, 1, Len(p)) = p
  BY SubSeqFull
<1>6. Append(Front(p), Last(p)) = Front(p) \o <<Last(p)>>
  BY <1>2, <1>3, AppendIsConcat DEF Last
<1>. QED  BY <1>2, <1>4, <1>5, <1>6 DEF Front, Last

LEMMA PathText == ASSUME NEW j \in Job, NEW e, e = WithContext(j.cookie, j.uri) PROVE e.path \in Seq(Text)
<1>1. j.uri.path \in Seq(Text) /\ (j.cookie.path = None \/ j.cookie.path \in Seq(Text))
  BY JobHasUri, Texts
<1>2. <<"">> \in Seq(Text)
  <2>1. "" \in Text
    BY DEF Text
  <2>2. \A label \in Text : <<label>> \in Seq(Text)
    OBVIOUS
  <2>. QED  BY <2>1, <2>2
<1>3. Len(j.uri.path) > 0 => Front(j.uri.path) \in Seq(Text)
  BY <1>1, FrontAndLast
<1>4. Len(j.uri.path) \in Nat
  BY <1>1
<1>5. DefaultPath(j.uri) \in Seq(Text)
  <2>1. CASE Len(j.uri.path) < 2
    BY <1>2, <2>1 DEF DefaultPath
  <2>2. CASE ~(Len(j.uri.path) < 2)
    <3>1. Len(j.uri.path) > 0
      BY <1>4, <2>2
    <3>. QED  BY <1>3, <2>2, <3>1 DEF DefaultPath
  <2>. QED  BY <2>1, <2>2
<1>. QED  BY <1>1, <1>5 DEF WithContext

LEMMA PathIsAbove ==
    ASSUME NEW p \in Seq(Text), NEW q \in Seq(Text), PathMatches(q, p)
    PROVE  p = q \/ \E n \in 0..Len(q) : p \in {SubSeq(q, 1, n), Append(SubSeq(q, 1, n), "")}
<1>1. CASE q = p
  BY <1>1
<1>2. CASE IsPrefix(p, q)
  BY <1>2, PrefixIsSubSeq
<1>3. CASE Len(p) > 0 /\ Last(p) = "" /\ IsPrefix(Front(p), q)
  <2>1. Front(p) \in Seq(Text) /\ p = Append(Front(p), "")
    BY <1>3, FrontAndLast
  <2>2. Len(Front(p)) \in 0..Len(q) /\ Front(p) = SubSeq(q, 1, Len(Front(p)))
    BY <1>3, <2>1, PrefixIsSubSeq
  <2>. QED  BY <2>1, <2>2
<1>4. CASE ~(Len(p) > 0)
  <2>1. Len(p) = 0 /\ 0 \in 0..Len(q)
    BY <1>4
  <2>2. p = <<>>
    BY <2>1, EmptySeq
  <2>3. SubSeq(q, 1, 0) = <<>>
    BY SubSeqEmpty
  <2>. QED  BY <2>1, <2>2, <2>3
<1>. QED  BY <1>1, <1>2, <1>3, <1>4 DEF PathMatches

(* The cookies a request gets belong to its host and path, and a secure one *)
(* goes over https only.                                                    *)
THEOREM LookupsStayIsolated == Spec => []LookupsAreIsolated
<1>1. ASSUME Allowed, NEW uri \in Uri, uri.host # None, NEW e \in GetForUri(uri)
      PROVE  /\ ToLower(e.domain) \in IF e.cookie.domain = None THEN {ToLower(uri.host)} ELSE Domains(uri.host)
             /\ e.path = uri.path \/ \E n \in 0..Len(uri.path) : e.path \in {SubSeq(uri.path, 1, n), Append(SubSeq(uri.path, 1, n), "")}
             /\ uri.scheme = "http" => ~e.cookie.secure
  <2>. uri.host \in Seq(Text) /\ uri.path \in Seq(Text)
    BY <1>1, Texts
  <2>1. e \in jar /\ Matches(e, uri, now)
    BY <1>1 DEF GetForUri
  <2>2. PICK j \in Job : Allows(j.cookie, j.uri) /\ e = WithContext(j.cookie, j.uri)
    BY <1>1, <2>1 DEF Allowed, AllowedEntry
  <2>3. ToLower(e.domain) \in IF e.cookie.domain = None THEN {ToLower(uri.host)} ELSE Domains(uri.host)
    <3>1. CASE e.cookie.domain = None
      BY <2>1, <3>1 DEF Matches, IsHostOnly
    <3>2. CASE e.cookie.domain # None
      <4>1. e.domain = j.cookie.domain /\ j.cookie.domain # None
        BY <2>2, <3>2 DEF WithContext
      <4>2. e.domain \in Seq(Text) /\ Len(e.domain) > 1
        BY <2>2, <4>1, Texts DEF Allows
      <4>3. DomainMatches(uri.host, e.domain)
        BY <2>1, <3>2 DEF Matches, IsHostOnly
      <4>. QED  BY <3>2, <4>2, <4>3, MatchedIsAbove
    <3>. QED  BY <3>1, <3>2
  <2>4. e.path = uri.path \/ \E n \in 0..Len(uri.path) : e.path \in {SubSeq(uri.path, 1, n), Append(SubSeq(uri.path, 1, n), "")}
    BY <2>1, <2>2, PathText, PathIsAbove DEF Matches
  <2>5. uri.scheme = "http" => ~e.cookie.secure
    BY <2>1 DEF Matches
  <2>. QED  BY <2>3, <2>4, <2>5
<1>2. IInv /\ Allowed => LookupsAreIsolated
  <2>. SUFFICES ASSUME Allowed PROVE LookupsAreIsolated
    OBVIOUS
  <2>. QED  BY <1>1 DEF LookupsAreIsolated
<1>3. Init => Allowed
  BY DEF Init, Allowed
<1>. QED  BY <1>2, <1>3, Invariant, AllowedStep, PTL DEF Spec, IInv
=============================================================================
