------------------------------ MODULE Redirect ------------------------------
(***************************************************************************)
(* One call through the chain of interceptors: redirects (redirect.rs) on   *)
(* the outside, then cookies (cookies/interceptor.rs), then default headers *)
(* (default_headers.rs), then the exchange with the server.                 *)
(*                                                                          *)
(* A URI is its scheme and its host; what is_same_authority ignores (path,  *)
(* query) plays no part.  A header is known by who set it, and header names *)
(* by whether a redirect may scrub them.  Of a request's extensions there   *)
(* is the RequestConfig, known by whether it holds credentials and the      *)
(* methods to use them with, and an extension of type Authentication, which *)
(* a caller may have put there.  External: the server's answers,            *)
(* the part of a body that curl reads before them, and other calls that use *)
(* the same cookie jar.                                                     *)
(***************************************************************************)
EXTENDS Naturals, Sequences

CONSTANTS
    Host,
    Defaults,      \* names among Name with a default header
    Limit,         \* the n of RedirectPolicy::Limit(n)
    DefaultLimit,  \* DEFAULT_REDIRECT_LIMIT
    None

Name == {"plain", "sensitive"}
Uri == [scheme : {"http", "https"}, host : Host]

VARIABLES
    call,           \* the caller's request, with its redirect policy
    pc,             \* the interceptor whose turn it is
    request,        \* the request on its way to the server
    builder,        \* request_builder: the clone taken before it was sent
    effectiveUri,
    redirectCount,
    response,
    jar,            \* cookies: the host they are kept for, and who set them
    wire,           \* the requests sent so far, with the status of the answer
    outcome         \* what the call returned

vars == <<call, pc, request, builder, effectiveUri, redirectCount, response, jar, wire, outcome>>

RedirectLimit == IF call.policy = "limit" THEN Limit ELSE DefaultLimit

Cookie == [host : Host, from : Host]
Body == [kind : {"empty", "buffer", "reader"}, moved : BOOLEAN]
Request ==
    [uri : Uri, method : {"GET", "POST"}, headers : [Name -> {"caller", "default", "absent"}],
     referer : Uri \cup {None}, cookies : SUBSET Cookie, body : Body,
     config : {"anonymous", "credentials"}, authentication : BOOLEAN]

(* 301, 302 and 303 are "seeOther"; the other 3xx are "temporary".  A       *)
(* Location that is missing or cannot be resolved is None.                  *)
Response == [status : {"ok", "seeOther", "temporary"}, location : Uri \cup {None}, setCookie : BOOLEAN, body : Body]

ASSUME RedirectAssumption ==
    /\ Limit \in Nat /\ DefaultLimit \in Nat
    /\ Defaults \subseteq Name
    /\ None \notin Uri \cup Response

TypeOK ==
    /\ call \in [request : Request, policy : {"none", "follow", "limit"}, autoReferer : BOOLEAN]
    /\ pc \in {"redirect", "cookies", "defaults", "invoke", "answered", "decide", "done"}
    /\ request \in Request /\ builder \in Request
    /\ effectiveUri \in Uri
    /\ redirectCount \in 0..RedirectLimit
    /\ response \in Response \cup {None}
    /\ jar \subseteq Cookie
    /\ wire \in Seq([request : Request, status : {"ok", "seeOther", "temporary"}])
    /\ outcome \in {"none", "response", "failed", "tooManyRedirects", "bodyNotRewindable"}

Init ==
    /\ call \in [request : {r \in Request : /\ r.referer = None /\ r.cookies = {}
                                            /\ ~r.body.moved
                                            /\ \A n \in Name : r.headers[n] # "default"},
                 policy : {"none", "follow", "limit"},
                 autoReferer : BOOLEAN]
    /\ pc = "redirect"
    /\ request = call.request /\ builder = call.request
    /\ effectiveUri = call.request.uri
    /\ redirectCount = 0
    /\ response = None
    /\ jar = {}
    /\ wire = <<>>
    /\ outcome = "none"

----------------------------------------------------------------------------
(* to_builder: all of the request but its body and the extensions other     *)
(* than its configuration (and its cookie jar).                             *)
PreserveRequest ==
    /\ pc = "redirect"
    /\ builder' = [request EXCEPT !.body = [kind |-> "empty", moved |-> FALSE], !.authentication = FALSE]
    /\ pc' = "cookies"
    /\ UNCHANGED <<call, request, effectiveUri, redirectCount, response, jar, wire, outcome>>

JarCookies(uri) == {c \in jar : c.host = uri.host}

(* mutant: the cookies are added to the request that is preserved *)
AddCookiesForGood ==
    /\ pc = "cookies"
    /\ request' = [request EXCEPT !.cookies = @ \cup JarCookies(request.uri)]
    /\ builder' = [builder EXCEPT !.cookies = @ \cup JarCookies(request.uri)]
    /\ pc' = "defaults"
    /\ UNCHANGED <<call, effectiveUri, redirectCount, response, jar, wire, outcome>>

(* Appended to a Cookie header the request has. *)
AddCookies ==
    /\ pc = "cookies"
    /\ request' = [request EXCEPT !.cookies = @ \cup JarCookies(request.uri)]
    /\ pc' = "defaults"
    /\ UNCHANGED <<call, builder, effectiveUri, redirectCount, response, jar, wire, outcome>>

AddDefaultHeaders ==
    /\ pc = "defaults"
    /\ request' = [request EXCEPT !.headers =
           [n \in Name |-> IF @[n] = "absent" /\ n \in Defaults THEN "default" ELSE @[n]]]
    /\ pc' = "invoke"
    /\ UNCHANGED <<call, builder, effectiveUri, redirectCount, response, jar, wire, outcome>>

(* The server answers when curl has read some of the body, which the        *)
(* response takes along.                                                    *)
Invoke(status, location, setCookie, moved) ==
    /\ pc = "invoke"
    /\ moved => request.body.kind # "empty"
    /\ wire' = Append(wire, [request |-> request, status |-> status])
    /\ response' = [status |-> status, location |-> location, setCookie |-> setCookie,
                    body |-> [request.body EXCEPT !.moved = @ \/ moved]]
    /\ pc' = "answered"
    /\ UNCHANGED <<call, request, builder, effectiveUri, redirectCount, jar, outcome>>

InvokeFails ==
    /\ pc = "invoke"
    /\ outcome' = "failed"
    /\ pc' = "done"
    /\ UNCHANGED <<call, request, builder, effectiveUri, redirectCount, response, jar, wire>>

(* The response has no effective URI yet when the cookie interceptor asks.  *)
StoreCookies ==
    /\ pc = "answered"
    /\ jar' = IF response.setCookie
              THEN jar \cup {[host |-> request.uri.host, from |-> wire[Len(wire)].request.uri.host]}
              ELSE jar
    /\ pc' = "decide"
    /\ UNCHANGED <<call, request, builder, effectiveUri, redirectCount, response, wire, outcome>>

----------------------------------------------------------------------------
(* get_redirect_location *)
IsRedirect == response.status # "ok" /\ response.location # None

(* mutant: off by one *)
LimitPassed == redirectCount > RedirectLimit

LimitReached == redirectCount >= RedirectLimit

(* mutant: only the hosts are compared *)
SameHost(a, b) == a.host = b.host

SameAuthority(a, b) == a.scheme = b.scheme /\ a.host = b.host

ScrubSensitiveHeaders(headers) == [headers EXCEPT !["sensitive"] = "absent"]

(* create_referer; when it makes none, the header stays as it is. *)
NextReferer(location) ==
    IF call.autoReferer /\ ~(effectiveUri.scheme = "https" /\ location.scheme # "https")
    THEN effectiveUri
    ELSE builder.referer

(* AsyncBody::reset *)
CanReset(body) == body.kind # "reader"

(* mutant: the cursor stays where it is *)
ResetNothing(body) == body

Reset(body) == IF CanReset(body) THEN [body EXCEPT !.moved = FALSE] ELSE body

(* What the builder makes of the preserved request. *)
NextRequest(location) ==
    [builder EXCEPT
        !.uri = location,
        !.referer = NextReferer(location),
        !.method = IF response.status = "seeOther" THEN "GET" ELSE @,
        !.headers = IF SameAuthority(effectiveUri, location) THEN @ ELSE ScrubSensitiveHeaders(@),
        !.authentication = @ /\ SameAuthority(effectiveUri, location),
        !.body = Reset(response.body)]

Finish(how) ==
    /\ outcome' = how
    /\ pc' = "done"
    /\ UNCHANGED <<call, request, builder, effectiveUri, redirectCount, response, jar, wire>>

Return ==
    /\ pc = "decide"
    /\ call.policy = "none" \/ ~IsRedirect
    /\ Finish("response")

Follows == pc = "decide" /\ call.policy # "none" /\ IsRedirect

TooManyRedirects ==
    /\ Follows
    /\ LimitReached
    /\ Finish("tooManyRedirects")

BodyNotRewindable ==
    /\ Follows
    /\ ~LimitReached
    /\ ~CanReset(response.body)
    /\ Finish("bodyNotRewindable")

(* mutant: the effective URI is that of the first request *)
FollowSilently ==
    /\ Follows
    /\ ~LimitReached
    /\ CanReset(response.body)
    /\ request' = NextRequest(response.location)
    /\ redirectCount' = redirectCount + 1
    /\ pc' = "redirect"
    /\ UNCHANGED <<call, builder, effectiveUri, response, jar, wire, outcome>>

Follow ==
    /\ Follows
    /\ ~LimitReached
    /\ CanReset(response.body)
    /\ request' = NextRequest(response.location)
    /\ effectiveUri' = response.location
    /\ redirectCount' = redirectCount + 1
    /\ pc' = "redirect"
    /\ UNCHANGED <<call, builder, response, jar, wire, outcome>>

(* Other calls store cookies in the jar, and cookies expire. *)
OthersUseJar ==
    /\ pc # "done"
    /\ jar' \in SUBSET {c \in Cookie : c.from = c.host}
    /\ UNCHANGED <<call, pc, request, builder, effectiveUri, redirectCount, response, wire, outcome>>

Over == pc = "done" /\ UNCHANGED vars

Next ==
    \/ PreserveRequest \/ AddCookies \/ AddDefaultHeaders
    \/ \E status \in {"ok", "seeOther", "temporary"}, location \in Uri \cup {None}, setCookie, moved \in BOOLEAN :
           Invoke(status, location, setCookie, moved)
    \/ InvokeFails \/ StoreCookies
    \/ Return \/ TooManyRedirects \/ BodyNotRewindable \/ Follow
    \/ OthersUseJar
    \/ Over

Spec == Init /\ [][Next]_vars

----------------------------------------------------------------------------
(* A call makes one request more than redirects are allowed at most, and it *)
(* gives up for too many redirects only after just as many.                 *)
LimitRespected ==
    /\ Len(wire) <= IF call.policy = "none" THEN 1 ELSE RedirectLimit + 1
    /\ outcome = "tooManyRedirects" => Len(wire) = RedirectLimit + 1

(* Every request is sent with the caller's body, from its start, though the *)
(* exchanges before it have read some of it and answers came at any moment. *)
BodyIsWhole == \A i \in DOMAIN wire : wire[i].request.body = call.request.body

(* Over any number of hops, the method is the caller's until an answer made *)
(* it a GET, and a header is the caller's unless an authority changed on    *)
(* the way and it is sensitive; a default stands in for what is missing.    *)
(* Of the extensions the configuration stays, credentials and all, whatever *)
(* authority the hop is for, and only the caller's own request can have an  *)
(* Authentication.  The comment at redirect.rs:112 ("Remove auth            *)
(* configuration.") says otherwise; what the code removes is never there.   *)
LeftAuthority(i) == \E j \in 2..i : wire[j].request.uri # wire[j - 1].request.uri

KeepsHeader(i, n) == call.request.headers[n] = "caller" /\ ~(n = "sensitive" /\ LeftAuthority(i))

RequestsAreDerived ==
    \A i \in DOMAIN wire :
        /\ wire[i].request.method =
               IF \E j \in 1..(i - 1) : wire[j].status = "seeOther" THEN "GET" ELSE call.request.method
        /\ \A n \in Name : wire[i].request.headers[n] =
               IF KeepsHeader(i, n) THEN "caller" ELSE IF n \in Defaults THEN "default" ELSE "absent"
        /\ wire[i].request.config = call.request.config
        /\ wire[i].request.authentication => i = 1

(* Cookies of the jar go to the host they are kept for, though a request is *)
(* built from the one before it, and are kept for the host that set them,   *)
(* which need not be the one the caller asked.                              *)
CookiesAreOwn ==
    /\ \A c \in jar : c.host = c.from
    /\ \A i \in DOMAIN wire : \A c \in wire[i].request.cookies : c.host = wire[i].request.uri.host

(* The response that is returned comes from the effective URI, and a call   *)
(* that follows redirects returns none that it could have followed.         *)
AnswerIsTheLast ==
    outcome = "response" =>
        /\ effectiveUri = wire[Len(wire)].request.uri
        /\ call.policy # "none" => ~IsRedirect
=============================================================================
