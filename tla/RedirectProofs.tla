--------------------------- MODULE RedirectProofs ---------------------------
(***************************************************************************)
(* What holds of every call, for any hosts, limits and default headers.     *)
(***************************************************************************)
EXTENDS Redirect, TLAPS

Sent == pc \in {"answered", "decide"}

(* The count is the number of requests that were redirected, and the limit  *)
(* is consulted before it grows.                                            *)
CountInv ==
    /\ redirectCount <= IF call.policy = "none" THEN 0 ELSE RedirectLimit
    /\ pc \in {"redirect", "cookies", "defaults", "invoke"} => Len(wire) = redirectCount
    /\ Sent => Len(wire) = redirectCount + 1
    /\ pc = "done" => Len(wire) \in redirectCount..(redirectCount + 1)
    /\ outcome # "none" => pc = "done"
    /\ outcome = "tooManyRedirects" => Len(wire) = RedirectLimit + 1
    /\ outcome = "response" => Len(wire) = redirectCount + 1

(* A body is either as the caller gave it, or with the response.            *)
BodyInv ==
    /\ BodyIsWhole
    /\ ~call.request.body.moved
    /\ pc \in {"redirect", "cookies", "defaults", "invoke"} => request.body = call.request.body
    /\ Sent => response # None /\ response.body.kind = call.request.body.kind

(* The request under way is for the effective URI, and so is the last one.  *)
UriInv ==
    /\ effectiveUri = request.uri
    /\ Sent \/ outcome = "response" => wire[Len(wire)].request.uri = effectiveUri
    /\ outcome = "response" /\ call.policy # "none" => ~IsRedirect

(* Cookies of the jar are in the request only between the cookie            *)
(* interceptor and the server; the preserved request has none.              *)
CookieInv ==
    /\ CookiesAreOwn
    /\ builder.cookies = {}
    /\ pc \in {"redirect", "cookies"} => request.cookies = {}
    /\ \A c \in request.cookies : c.host = request.uri.host

IInv == TypeOK /\ CountInv /\ BodyInv /\ UriInv /\ CookieInv

(* The limit of a call does not change. *)
LEMMA LimitType == RedirectLimit \in Nat
BY RedirectAssumption DEF RedirectLimit

----------------------------------------------------------------------------
(* A call begins with its types right and nothing sent. *)
LEMMA InitIInv == Init => IInv
<1> SUFFICES ASSUME Init PROVE IInv
  OBVIOUS
<1> USE DEF Init
<1>1. call.request \in Request /\ call.request.cookies = {} /\ ~call.request.body.moved
  OBVIOUS
<1>2. TypeOK
  <2>1. call \in [request : Request, policy : {"none", "follow", "limit"}, autoReferer : BOOLEAN]
    OBVIOUS
  <2>2. effectiveUri \in Uri
    BY <1>1 DEF Request
  <2>3. wire \in Seq([request : Request, status : {"ok", "seeOther", "temporary"}])
    OBVIOUS
  <2> QED
    BY <1>1, <2>1, <2>2, <2>3, LimitType DEF TypeOK
<1>3. CountInv
  BY LimitType DEF CountInv, Sent
<1>4. BodyInv /\ UriInv /\ CookieInv
  BY <1>1 DEF BodyInv, BodyIsWhole, UriInv, CookieInv, CookiesAreOwn, Sent
<1> QED
  BY <1>2, <1>3, <1>4 DEF IInv

----------------------------------------------------------------------------
(* The steps of the chain before the server is asked. *)
LEMMA PrepareIInv == IInv /\ (PreserveRequest \/ AddCookies \/ AddDefaultHeaders) => IInv'
<1> SUFFICES ASSUME IInv, PreserveRequest \/ AddCookies \/ AddDefaultHeaders PROVE IInv'
  OBVIOUS
<1> USE DEF IInv
<1>1. CASE PreserveRequest
  <2> USE <1>1 DEF PreserveRequest
  <2>1. builder' \in Request
    BY DEF TypeOK, Request, Body
  <2>2. TypeOK'
    BY <2>1 DEF TypeOK, RedirectLimit
  <2>3. builder'.cookies = {}
    BY DEF CookieInv, TypeOK, Request
  <2> QED
    BY <2>2, <2>3 DEF CountInv, BodyInv, BodyIsWhole, UriInv, IsRedirect, CookieInv, CookiesAreOwn, Sent, RedirectLimit
<1>2. CASE AddCookies
  <2> USE <1>2 DEF AddCookies
  <2>1. JarCookies(request.uri) \subseteq Cookie /\ \A c \in JarCookies(request.uri) : c.host = request.uri.host
    BY DEF TypeOK, JarCookies
  <2>2. /\ request' \in Request
        /\ request'.cookies = request.cookies \cup JarCookies(request.uri)
        /\ request'.uri = request.uri /\ request'.body = request.body
    BY <2>1 DEF TypeOK, Request
  <2>3. TypeOK'
    BY <2>2 DEF TypeOK, RedirectLimit
  <2> QED
    BY <2>1, <2>2, <2>3 DEF CountInv, BodyInv, BodyIsWhole, UriInv, IsRedirect, CookieInv, CookiesAreOwn, Sent, RedirectLimit
<1>3. CASE AddDefaultHeaders
  <2> USE <1>3 DEF AddDefaultHeaders
  <2>1. /\ request' \in Request
        /\ request'.cookies = request.cookies
        /\ request'.uri = request.uri /\ request'.body = request.body
    BY DEF TypeOK, Request
  <2>2. TypeOK'
    BY <2>1 DEF TypeOK, RedirectLimit
  <2> QED
    BY <2>1, <2>2 DEF CountInv, BodyInv, BodyIsWhole, UriInv, IsRedirect, CookieInv, CookiesAreOwn, Sent, RedirectLimit
<1> QED
  BY <1>1, <1>2, <1>3

(* The exchange appends the request to what was sent. *)
LEMMA InvokeIInv ==
    ASSUME IInv, NEW status \in {"ok", "seeOther", "temporary"}, NEW location \in Uri \cup {None},
           NEW setCookie \in BOOLEAN, NEW moved \in BOOLEAN, Invoke(status, location, setCookie, moved)
    PROVE  IInv'
<1> USE DEF IInv
<1> DEFINE entry == [request |-> request, status |-> status]
<1>1. /\ pc = "invoke" /\ pc' = "answered" /\ wire' = Append(wire, entry)
      /\ UNCHANGED <<call, request, builder, effectiveUri, redirectCount, jar, outcome>>
  BY DEF Invoke
<1>2. wire \in Seq([request : Request, status : {"ok", "seeOther", "temporary"}]) /\ request \in Request
  BY DEF TypeOK
<1>3. /\ wire' \in Seq([request : Request, status : {"ok", "seeOther", "temporary"}])
      /\ Len(wire') = Len(wire) + 1
      /\ wire'[Len(wire')] = entry
      /\ \A i \in DOMAIN wire' : wire'[i] = entry \/ (i \in DOMAIN wire /\ wire'[i] = wire[i])
  BY <1>1, <1>2
<1>4. response' \in Response /\ response'.body.kind = request.body.kind
  BY <1>2 DEF Invoke, Response, Request, Body
<1>5. response' # None
  BY <1>4, RedirectAssumption
<1>6. TypeOK'
  BY <1>1, <1>3, <1>4 DEF TypeOK, RedirectLimit
<1>7. CountInv'
  BY <1>1, <1>3 DEF CountInv, Sent, RedirectLimit, TypeOK
<1>8. BodyInv'
  BY <1>1, <1>3, <1>4, <1>5 DEF BodyInv, BodyIsWhole, Sent
<1>9. UriInv'
  BY <1>1, <1>3 DEF UriInv, Sent, CountInv
<1>10. CookieInv'
  BY <1>1, <1>3 DEF CookieInv, CookiesAreOwn
<1> QED
  BY <1>6, <1>7, <1>8, <1>9, <1>10

(* The cookies of an answer go to the jar. *)
LEMMA StoreIInv == IInv /\ (StoreCookies \/ OthersUseJar) => IInv'
<1> SUFFICES ASSUME IInv, StoreCookies \/ OthersUseJar PROVE IInv'
  OBVIOUS
<1> USE DEF IInv
<1>1. CASE StoreCookies
  <2> USE <1>1 DEF StoreCookies
  <2>1. request \in Request /\ request.uri.host \in Host
    BY DEF TypeOK, Request, Uri
  <2>2. wire[Len(wire)].request.uri = request.uri
    BY DEF UriInv, Sent
  <2>3. jar' \subseteq Cookie /\ \A c \in jar' : c.host = c.from
    BY <2>1, <2>2 DEF TypeOK, Cookie, CookieInv, CookiesAreOwn
  <2>4. TypeOK'
    BY <2>3 DEF TypeOK, RedirectLimit
  <2> QED
    BY <2>3, <2>4 DEF CountInv, BodyInv, BodyIsWhole, UriInv, IsRedirect, CookieInv, CookiesAreOwn, Sent, RedirectLimit
<1>2. CASE OthersUseJar
  BY <1>2 DEF OthersUseJar, TypeOK, CountInv, BodyInv, BodyIsWhole, UriInv, IsRedirect, CookieInv, CookiesAreOwn, Sent, RedirectLimit
<1> QED
  BY <1>1, <1>2

----------------------------------------------------------------------------
(* A call ends: with the response, or with an error. *)
LEMMA FinishIInv == IInv /\ (Return \/ TooManyRedirects \/ BodyNotRewindable \/ InvokeFails) => IInv'
<1> SUFFICES ASSUME IInv, Return \/ TooManyRedirects \/ BodyNotRewindable \/ InvokeFails PROVE IInv'
  OBVIOUS
<1> USE DEF IInv
<1>1. /\ pc' = "done"
      /\ UNCHANGED <<call, request, builder, effectiveUri, redirectCount, response, jar, wire>>
      /\ outcome' \in {"response", "failed", "tooManyRedirects", "bodyNotRewindable"}
  BY DEF Return, TooManyRedirects, BodyNotRewindable, InvokeFails, Finish
<1>2. pc \in {"invoke", "decide"} /\ (outcome' # "failed" => pc = "decide")
  BY DEF Return, TooManyRedirects, BodyNotRewindable, InvokeFails, Finish, Follows
<1>3. outcome' = "tooManyRedirects" => call.policy # "none" /\ redirectCount >= RedirectLimit
  BY DEF Return, TooManyRedirects, BodyNotRewindable, InvokeFails, Finish, Follows, LimitReached
<1>4. outcome' = "response" => call.policy = "none" \/ ~IsRedirect
  BY DEF Return, TooManyRedirects, BodyNotRewindable, InvokeFails, Finish
<1>5. TypeOK'
  BY <1>1 DEF TypeOK, RedirectLimit
<1>6. CountInv'
  BY <1>1, <1>2, <1>3, LimitType DEF CountInv, Sent, RedirectLimit, TypeOK
<1>7. BodyInv' /\ CookieInv'
  BY <1>1 DEF BodyInv, BodyIsWhole, CookieInv, CookiesAreOwn, Sent
<1>8. UriInv'
  BY <1>1, <1>2, <1>4 DEF UriInv, IsRedirect, Sent
<1> QED
  BY <1>5, <1>6, <1>7, <1>8

(* A redirect is followed: the next request is made of the preserved one.   *)
LEMMA FollowIInv == IInv /\ Follow => IInv'
<1> SUFFICES ASSUME IInv, Follow PROVE IInv'
  OBVIOUS
<1> USE DEF IInv
<1>1. /\ pc = "decide" /\ pc' = "redirect"
      /\ call.policy # "none" /\ response.location # None
      /\ redirectCount < RedirectLimit /\ redirectCount' = redirectCount + 1
      /\ response.body.kind # "reader"
      /\ request' = NextRequest(response.location) /\ effectiveUri' = response.location
      /\ UNCHANGED <<call, builder, response, jar, wire, outcome>>
  BY LimitType DEF Follow, Follows, IsRedirect, LimitReached, CanReset, TypeOK
<1>2. response # None /\ response \in Response /\ builder \in Request
  BY <1>1 DEF BodyInv, Sent, TypeOK
<1>3. response.location \in Uri /\ response.body \in Body
  BY <1>1, <1>2 DEF Response
<1>4. Reset(response.body) = call.request.body
  <2>1. Reset(response.body) = [kind |-> response.body.kind, moved |-> FALSE]
    BY <1>1, <1>3 DEF Reset, CanReset, Body
  <2>2. call.request.body \in Body
    BY DEF TypeOK, Request
  <2> QED
    BY <1>1, <2>1, <2>2 DEF BodyInv, Sent, Body
<1>5. /\ request' \in Request
      /\ request'.uri = response.location
      /\ request'.body = call.request.body
      /\ request'.cookies = {}
  <2>1. NextReferer(response.location) \in Uri \cup {None}
    BY <1>2 DEF NextReferer, TypeOK, Request
  <2>2. call.request.body \in Body
    BY DEF TypeOK, Request
  <2>3. builder.cookies = {}
    BY DEF CookieInv
  <2> QED
    BY <1>1, <1>2, <1>3, <1>4, <2>1, <2>2, <2>3 DEF NextRequest, Request, ScrubSensitiveHeaders, Name
<1>6. TypeOK'
  BY <1>1, <1>3, <1>5, LimitType DEF TypeOK, RedirectLimit
<1>7. CountInv'
  BY <1>1, LimitType DEF CountInv, Sent, RedirectLimit, TypeOK
<1>8. BodyInv' /\ CookieInv'
  BY <1>1, <1>5 DEF BodyInv, BodyIsWhole, CookieInv, CookiesAreOwn, Sent
<1>9. UriInv'
  BY <1>1, <1>5 DEF UriInv, Sent, CountInv
<1> QED
  BY <1>6, <1>7, <1>8, <1>9

(* The invariant is inductive. *)
LEMMA StepIInv == IInv /\ [Next]_vars => IInv'
<1> SUFFICES ASSUME IInv, [Next]_vars PROVE IInv'
  OBVIOUS
<1>1. CASE UNCHANGED vars
  BY <1>1 DEF vars, IInv, TypeOK, CountInv, BodyInv, BodyIsWhole, UriInv, IsRedirect, CookieInv, CookiesAreOwn, Sent, RedirectLimit
<1>2. CASE Over
  BY <1>1, <1>2 DEF Over
<1>3. CASE \E status \in {"ok", "seeOther", "temporary"}, location \in Uri \cup {None}, setCookie, moved \in BOOLEAN :
               Invoke(status, location, setCookie, moved)
  BY <1>3, InvokeIInv
<1> QED
  BY <1>1, <1>2, <1>3, PrepareIInv, StoreIInv, FinishIInv, FollowIInv DEF Next

(* Every reachable state of a call satisfies the invariant. *)
THEOREM Invariant == Spec => []IInv
BY InitIInv, StepIInv, PTL DEF Spec

(* A call keeps its types. *)
THEOREM TypeCorrect == Spec => []TypeOK
<1>1. IInv => TypeOK
  BY DEF IInv
<1> QED
  BY <1>1, Invariant, PTL

(* No call makes more requests than its limit allows, whatever the servers  *)
(* answer, and it gives up no sooner (redirect.rs:81).                      *)
THEOREM LimitHolds == Spec => []LimitRespected
<1>1. IInv => LimitRespected
  <2> SUFFICES ASSUME IInv PROVE LimitRespected
    OBVIOUS
  <2>1. pc \in {"redirect", "cookies", "defaults", "invoke", "answered", "decide", "done"} /\ redirectCount \in Nat
    BY LimitType DEF IInv, TypeOK
  <2>2. Len(wire) <= redirectCount + 1
    BY <2>1 DEF IInv, CountInv, Sent
  <2> QED
    BY <2>1, <2>2, LimitType DEF IInv, CountInv, LimitRespected
<1> QED
  BY <1>1, Invariant, PTL

(* Every request of a call is sent with the caller's whole body             *)
(* (redirect.rs:133).                                                       *)
THEOREM BodiesAreWhole == Spec => []BodyIsWhole
<1>1. IInv => BodyIsWhole
  BY DEF IInv, BodyInv
<1> QED
  BY <1>1, Invariant, PTL

(* Cookies of the jar stay with their host over redirects: to_builder comes *)
(* before the cookie interceptor.                                           *)
THEOREM CookiesStayHome == Spec => []CookiesAreOwn
<1>1. IInv => CookiesAreOwn
  BY DEF IInv, CookieInv
<1> QED
  BY <1>1, Invariant, PTL

(* The effective URI of a response is the one that answered. *)
THEOREM AnswersAreLast == Spec => []AnswerIsTheLast
<1>1. IInv => AnswerIsTheLast
  BY DEF IInv, UriInv, AnswerIsTheLast
<1> QED
  BY <1>1, Invariant, PTL

----------------------------------------------------------------------------
(* RequestsAreDerived, strengthened: the method and the headers that the    *)
(* first k requests and their answers leave to one for uri.                 *)
MethodAfter(k) == IF \E j \in 1..k : wire[j].status = "seeOther" THEN "GET" ELSE call.request.method

LeftBefore(k, uri) == LeftAuthority(k) \/ (k > 0 /\ wire[k].request.uri # uri)

HeaderAfter(k, uri, n) ==
    IF call.request.headers[n] = "caller" /\ ~(n = "sensitive" /\ LeftBefore(k, uri)) THEN "caller" ELSE "absent"

WithDefault(h, n) == IF h = "absent" /\ n \in Defaults THEN "default" ELSE h

Preserved(r, k) ==
    /\ r.method = MethodAfter(k)
    /\ \A n \in Name : r.headers[n] = HeaderAfter(k, request.uri, n)

(* The configuration is cloned with the request each time; an               *)
(* Authentication never is.                                                 *)
ExtensionInv ==
    /\ request.config = call.request.config /\ builder.config = call.request.config
    /\ pc # "redirect" \/ Len(wire) > 0 => ~builder.authentication
    /\ pc \in {"redirect", "cookies", "defaults", "invoke"} /\ Len(wire) > 0 => ~request.authentication
    /\ \A i \in DOMAIN wire : /\ wire[i].request.config = call.request.config
                             /\ wire[i].request.authentication => i = 1

DerivedInv ==
    /\ RequestsAreDerived
    /\ \A n \in Name : call.request.headers[n] # "default"
    /\ pc \in {"redirect", "cookies", "defaults"} => Preserved(request, Len(wire))
    /\ pc \in {"cookies", "defaults", "invoke"} => Preserved(builder, Len(wire))
    /\ pc = "invoke" =>
        /\ request.method = MethodAfter(Len(wire))
        /\ \A n \in Name : request.headers[n] = WithDefault(HeaderAfter(Len(wire), request.uri, n), n)
    /\ Sent => Preserved(builder, Len(wire) - 1) /\ wire[Len(wire)].status = response.status

(* What was sent before plays no part in a new call. *)
LEMMA InitDerived == Init => DerivedInv
<1> SUFFICES ASSUME Init PROVE DerivedInv
  OBVIOUS
<1>1. call.request \in Request /\ \A n \in Name : call.request.headers[n] # "default"
  BY DEF Init
<1>2. \A n \in Name : call.request.headers[n] \in {"caller", "absent"}
  BY <1>1 DEF Request
<1>3. wire = <<>> /\ Len(wire) = 0 /\ pc = "redirect" /\ request = call.request
  BY DEF Init
<1>4. ~LeftAuthority(0)
  BY DEF LeftAuthority
<1>5. Preserved(request, Len(wire))
  BY <1>2, <1>3, <1>4 DEF Preserved, MethodAfter, HeaderAfter, LeftBefore
<1> QED
  BY <1>1, <1>3, <1>5 DEF DerivedInv, RequestsAreDerived, Sent

(* A call begins with its own extensions. *)
LEMMA InitExtension == Init => ExtensionInv
BY DEF Init, ExtensionInv

(* The extensions follow the requests: into the builder, and out of it.     *)
LEMMA StepExtension == IInv /\ ExtensionInv /\ [Next]_vars => ExtensionInv'
<1> SUFFICES ASSUME IInv, ExtensionInv, [Next]_vars PROVE ExtensionInv'
  OBVIOUS
<1>0. /\ request \in Request /\ builder \in Request
      /\ wire \in Seq([request : Request, status : {"ok", "seeOther", "temporary"}])
  BY DEF IInv, TypeOK
<1>1. CASE PreserveRequest
  <2> USE <1>1 DEF PreserveRequest
  <2>1. builder'.config = request.config /\ ~builder'.authentication
    BY <1>0 DEF Request
  <2> QED
    BY <2>1 DEF ExtensionInv
<1>2. CASE AddCookies \/ AddDefaultHeaders
  <2>1. request'.config = request.config /\ request'.authentication = request.authentication
    BY <1>0, <1>2 DEF AddCookies, AddDefaultHeaders, Request
  <2> QED
    BY <1>2, <2>1 DEF AddCookies, AddDefaultHeaders, ExtensionInv
<1>3. ASSUME NEW status \in {"ok", "seeOther", "temporary"}, NEW location \in Uri \cup {None},
             NEW setCookie \in BOOLEAN, NEW moved \in BOOLEAN, Invoke(status, location, setCookie, moved)
      PROVE  ExtensionInv'
  <2>1. /\ pc = "invoke" /\ pc' = "answered"
        /\ wire' = Append(wire, [request |-> request, status |-> status])
        /\ UNCHANGED <<call, request, builder>>
    BY <1>3 DEF Invoke
  <2>2. /\ Len(wire') = Len(wire) + 1 /\ wire'[Len(wire')].request = request
        /\ \A i \in DOMAIN wire' : i = Len(wire') \/ (i \in DOMAIN wire /\ wire'[i] = wire[i])
    BY <1>0, <2>1
  <2> QED
    BY <1>0, <2>1, <2>2 DEF ExtensionInv
<1>4. CASE Follow
  <2>1. /\ request' = NextRequest(response.location) /\ pc = "decide"
        /\ UNCHANGED <<call, builder, wire>>
    BY <1>4 DEF Follow, Follows
  <2>2. request'.config = builder.config /\ (request'.authentication => builder.authentication)
    BY <1>0, <2>1 DEF NextRequest, Request
  <2> QED
    BY <2>1, <2>2 DEF ExtensionInv
<1>5. CASE StoreCookies \/ OthersUseJar
  BY <1>5 DEF StoreCookies, OthersUseJar, ExtensionInv
<1>6. CASE Return \/ TooManyRedirects \/ BodyNotRewindable \/ InvokeFails
  BY <1>6 DEF Return, TooManyRedirects, BodyNotRewindable, InvokeFails, Finish, Follows, ExtensionInv
<1>7. CASE Over \/ UNCHANGED vars
  BY <1>7 DEF Over, vars, ExtensionInv
<1> QED
  BY <1>1, <1>2, <1>3, <1>4, <1>5, <1>6, <1>7 DEF Next

(* A step that leaves the wire alone leaves alone what is derived from it.  *)
LEMMA SameWire ==
    ASSUME UNCHANGED <<call, wire>>
    PROVE  /\ RequestsAreDerived' <=> RequestsAreDerived
           /\ \A k : MethodAfter(k)' = MethodAfter(k)
           /\ \A k, uri, n : HeaderAfter(k, uri, n)' = HeaderAfter(k, uri, n)
BY DEF RequestsAreDerived, KeepsHeader, LeftAuthority, MethodAfter, HeaderAfter, LeftBefore

(* The exchange: what the request was derived from becomes the wire's past. *)
LEMMA InvokeDerived ==
    ASSUME IInv, ExtensionInv, DerivedInv,
           NEW status \in {"ok", "seeOther", "temporary"}, NEW location \in Uri \cup {None},
           NEW setCookie \in BOOLEAN, NEW moved \in BOOLEAN, Invoke(status, location, setCookie, moved)
    PROVE  DerivedInv'
<1> DEFINE entry == [request |-> request, status |-> status]
<1>1. /\ pc = "invoke" /\ pc' = "answered" /\ wire' = Append(wire, entry)
      /\ response'.status = status
      /\ UNCHANGED <<call, request, builder, effectiveUri, redirectCount, jar, outcome>>
  BY DEF Invoke
<1>2. wire \in Seq([request : Request, status : {"ok", "seeOther", "temporary"}])
  BY DEF IInv, TypeOK
<1>0. PICK last \in Nat : last = Len(wire)
  BY <1>2
<1>3. /\ Len(wire) = last /\ Len(wire') = last + 1
      /\ wire'[last + 1] = entry
      /\ \A i \in 1..last : wire'[i] = wire[i]
      /\ DOMAIN wire = 1..last /\ DOMAIN wire' = 1..(last + 1)
  BY <1>0, <1>1, <1>2
<1>4. \A k \in 0..last : LeftAuthority(k)' <=> LeftAuthority(k)
  BY <1>3 DEF LeftAuthority
<1>5. \A k \in 0..last : MethodAfter(k)' = MethodAfter(k)
  BY <1>1, <1>3 DEF MethodAfter
<1>6. \A k \in 0..last : \A uri, n : HeaderAfter(k, uri, n)' = HeaderAfter(k, uri, n)
  BY <1>1, <1>3, <1>4 DEF HeaderAfter, LeftBefore
<1>7. LeftAuthority(last + 1)' <=> LeftBefore(last, request.uri)
  <2>1. LeftAuthority(last + 1)' <=>
            LeftAuthority(last)' \/ (last > 0 /\ wire'[last + 1].request.uri # wire'[last].request.uri)
    BY <1>3 DEF LeftAuthority
  <2> QED
    BY <1>3, <1>4, <2>1 DEF LeftBefore
<1>8. \A i \in DOMAIN wire, n \in Name : KeepsHeader(i, n)' <=> KeepsHeader(i, n)
  BY <1>1, <1>3, <1>4 DEF KeepsHeader
<1>9. RequestsAreDerived'
  <2>1. ASSUME NEW i \in DOMAIN wire
        PROVE  /\ wire'[i].request.method = IF \E j \in 1..(i - 1) : wire'[j].status = "seeOther" THEN "GET" ELSE call'.request.method
               /\ \A n \in Name : wire'[i].request.headers[n] =
                      IF KeepsHeader(i, n)' THEN "caller" ELSE IF n \in Defaults THEN "default" ELSE "absent"
               /\ wire'[i].request.config = call'.request.config
               /\ wire'[i].request.authentication => i = 1
    <3>1. wire'[i] = wire[i] /\ \A j \in 1..(i - 1) : wire'[j] = wire[j]
      BY <1>3
    <3>2. call' = call
      BY <1>1
    <3> QED
      BY <1>8, <3>1, <3>2 DEF DerivedInv, RequestsAreDerived
  <2>2. wire'[last + 1].request.method =
            IF \E j \in 1..last : wire'[j].status = "seeOther" THEN "GET" ELSE call'.request.method
    BY <1>1, <1>3 DEF DerivedInv, MethodAfter
  <2>3. ASSUME NEW n \in Name
        PROVE  wire'[last + 1].request.headers[n] =
                   IF KeepsHeader(last + 1, n)' THEN "caller" ELSE IF n \in Defaults THEN "default" ELSE "absent"
    <3>1. request.headers[n] = WithDefault(HeaderAfter(last, request.uri, n), n)
      BY <1>1, <1>3 DEF DerivedInv
    <3>2. KeepsHeader(last + 1, n)' <=>
              call.request.headers[n] = "caller" /\ ~(n = "sensitive" /\ LeftBefore(last, request.uri))
      BY <1>1, <1>7 DEF KeepsHeader
    <3> QED
      BY <1>3, <3>1, <3>2 DEF WithDefault, HeaderAfter
  <2>4. /\ wire'[last + 1].request.config = call'.request.config
        /\ wire'[last + 1].request.authentication => last + 1 = 1
    BY <1>1, <1>3 DEF ExtensionInv
  <2> QED
    BY <1>3, <2>1, <2>2, <2>3, <2>4 DEF RequestsAreDerived
<1>10. Preserved(builder, last)
  BY <1>1, <1>3 DEF DerivedInv
<1>11. Preserved(builder, last)'
  BY <1>1, <1>5, <1>6, <1>10 DEF Preserved
<1> QED
  BY <1>1, <1>3, <1>9, <1>11 DEF DerivedInv, Sent

(* The next request is derived from one request and answer more. *)
LEMMA FollowDerived == IInv /\ DerivedInv /\ Follow => DerivedInv'
<1> SUFFICES ASSUME IInv, DerivedInv, Follow PROVE DerivedInv'
  OBVIOUS
<1> DEFINE last == Len(wire)
<1>1. /\ pc = "decide" /\ pc' = "redirect"
      /\ response.location # None
      /\ request' = NextRequest(response.location)
      /\ UNCHANGED <<call, builder, response, jar, wire, outcome>>
  BY DEF Follow, Follows, IsRedirect
<1>2. response \in Response /\ builder \in Request /\ response.location \in Uri /\ effectiveUri \in Uri
  BY <1>1 DEF IInv, BodyInv, Sent, TypeOK, Response
<1>3. last \in Nat /\ last > 0 /\ wire[last].request.uri = effectiveUri /\ effectiveUri = request.uri
  BY <1>1, LimitType DEF IInv, CountInv, UriInv, Sent, TypeOK
<1>4. Preserved(builder, last - 1) /\ wire[last].status = response.status
  BY <1>1 DEF DerivedInv, Sent
<1>5. request'.uri = response.location
  BY <1>1, <1>2 DEF NextRequest, Request
<1>6. request'.method = IF response.status = "seeOther" THEN "GET" ELSE builder.method
  BY <1>1, <1>2 DEF NextRequest, Request
<1>7. SameAuthority(effectiveUri, response.location) <=> effectiveUri = response.location
  BY <1>2 DEF SameAuthority, Uri
<1>8. \A n \in Name : request'.headers[n] =
          IF effectiveUri = response.location THEN builder.headers[n]
          ELSE IF n = "sensitive" THEN "absent" ELSE builder.headers[n]
  BY <1>1, <1>2, <1>7 DEF NextRequest, ScrubSensitiveHeaders, Request, Name
<1>9. MethodAfter(last) = IF wire[last].status = "seeOther" THEN "GET" ELSE MethodAfter(last - 1)
  BY <1>3 DEF MethodAfter
<1>10. LeftAuthority(last) <=> LeftBefore(last - 1, effectiveUri)
  BY <1>3 DEF LeftAuthority, LeftBefore
<1>11. \A n \in Name : request'.headers[n] = HeaderAfter(last, response.location, n)
  <2> TAKE n \in Name
  <2>1. builder.headers[n] = HeaderAfter(last - 1, effectiveUri, n)
    BY <1>3, <1>4 DEF Preserved
  <2>2. LeftBefore(last, response.location) <=> LeftBefore(last - 1, effectiveUri) \/ effectiveUri # response.location
    BY <1>3, <1>10 DEF LeftBefore
  <2> QED
    BY <1>8, <2>1, <2>2 DEF HeaderAfter
<1>12. Preserved(request, last)'
  BY <1>1, <1>4, <1>5, <1>6, <1>9, <1>11, SameWire DEF Preserved
<1> QED
  BY <1>1, <1>12, SameWire DEF DerivedInv, Sent

(* Every other step leaves the wire alone. *)
LEMMA StepDerived == IInv /\ ExtensionInv /\ DerivedInv /\ [Next]_vars => DerivedInv'
<1> SUFFICES ASSUME IInv, ExtensionInv, DerivedInv, [Next]_vars PROVE DerivedInv'
  OBVIOUS
<1>1. CASE PreserveRequest
  <2> USE <1>1 DEF PreserveRequest
  <2>1. builder'.method = request.method /\ builder'.headers = request.headers
    BY DEF IInv, TypeOK, Request
  <2>2. Preserved(builder, Len(wire))'
    BY <2>1, SameWire DEF DerivedInv, Preserved
  <2> QED
    BY <2>2, SameWire DEF DerivedInv, Preserved, Sent
<1>2. CASE AddCookies
  <2> USE <1>2 DEF AddCookies
  <2>1. request'.method = request.method /\ request'.headers = request.headers /\ request'.uri = request.uri
    BY DEF IInv, TypeOK, Request
  <2> QED
    BY <2>1, SameWire DEF DerivedInv, Preserved, Sent
<1>3. CASE AddDefaultHeaders
  <2> USE <1>3 DEF AddDefaultHeaders
  <2>1. /\ request'.method = request.method /\ request'.uri = request.uri
        /\ \A n \in Name : request'.headers[n] = WithDefault(request.headers[n], n)
    BY DEF IInv, TypeOK, Request, WithDefault
  <2> QED
    BY <2>1, SameWire DEF DerivedInv, Preserved, Sent
<1>4. CASE \E status \in {"ok", "seeOther", "temporary"}, location \in Uri \cup {None}, setCookie, moved \in BOOLEAN :
               Invoke(status, location, setCookie, moved)
  BY <1>4, InvokeDerived
<1>5. CASE StoreCookies
  BY <1>5, SameWire DEF StoreCookies, DerivedInv, Preserved, Sent
<1>6. CASE Return \/ TooManyRedirects \/ BodyNotRewindable \/ InvokeFails
  BY <1>6, SameWire DEF Return, TooManyRedirects, BodyNotRewindable, InvokeFails, Finish, DerivedInv, Sent
<1>7. CASE Follow
  BY <1>7, FollowDerived
<1>8. CASE OthersUseJar
  BY <1>8, SameWire DEF OthersUseJar, DerivedInv, Preserved, Sent
<1>9. CASE Over \/ UNCHANGED vars
  BY <1>9, SameWire DEF Over, vars, DerivedInv, Preserved, Sent
<1> QED
  BY <1>1, <1>2, <1>3, <1>4, <1>5, <1>6, <1>7, <1>8, <1>9 DEF Next

(* The method, the headers and the extensions of every hop follow from the  *)
(* call and the hops before it (redirect.rs:73, 98-116, request.rs:53-73,   *)
(* default_headers.rs:34-40): what a change of authority takes away is the  *)
(* sensitive headers, and not the credentials of the configuration.         *)
THEOREM HopsAreDerived == Spec => []RequestsAreDerived
<1>1. Init => IInv /\ ExtensionInv /\ DerivedInv
  BY InitIInv, InitExtension, InitDerived
<1>2. (IInv /\ ExtensionInv /\ DerivedInv) /\ [Next]_vars => (IInv /\ ExtensionInv /\ DerivedInv)'
  BY StepIInv, StepExtension, StepDerived
<1>3. DerivedInv => RequestsAreDerived
  BY DEF DerivedInv
<1> QED
  BY <1>1, <1>2, <1>3, PTL DEF Spec
=============================================================================
