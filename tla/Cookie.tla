------------------------------- MODULE Cookie -------------------------------
(***************************************************************************)
(* What a cookie is (cookies/cookie.rs) and which requests it matches (the  *)
(* functions of cookies/jar.rs), without the jar.                           *)
(*                                                                          *)
(* A domain is the sequence of its labels, the top-level one first; a path  *)
(* is the sequence of its segments: "/" is <<"">>, "/a" is <<"a">> and      *)
(* "/a/" is <<"a", "">>.  A Set-Cookie header is whether its first pair is  *)
(* legal, that pair, and its attributes; an attribute whose value cannot be *)
(* read (a bad date, a negative Max-Age) has the value None.                *)
(***************************************************************************)
EXTENDS Naturals, SequencesExt

CONSTANTS
    Lower,   \* label -> the label in lower case
    Ip,      \* the hosts that are IP addresses
    None

ToLower(domain) == [i \in DOMAIN domain |-> Lower[domain[i]]]

(* CookieBuilder: a domain is kept as it is given. *)
Built(name, value, domain, path, secure, expiration) ==
    [name |-> name, value |-> value, domain |-> domain, path |-> path,
     secure |-> secure, expiration |-> expiration]

New(name, value) == Built(name, value, None, None, FALSE, None)

(* The first date counts unless a Max-Age, before or after it, overrides it. *)
Attribute(cookie, attribute, now) ==
    CASE attribute.name = "expires" /\ cookie.expiration = None ->
            [cookie EXCEPT !.expiration = attribute.value]
      [] attribute.name = "domain" -> [cookie EXCEPT !.domain = ToLower(attribute.value)]
      [] attribute.name = "max-age" /\ attribute.value # None ->
            [cookie EXCEPT !.expiration = now + attribute.value]
      [] attribute.name = "path" -> [cookie EXCEPT !.path = attribute.value]
      [] attribute.name = "secure" -> [cookie EXCEPT !.secure = TRUE]
      [] OTHER -> cookie

Parse(header, now) ==
    IF header.legal
    THEN FoldLeft(LAMBDA cookie, attribute : Attribute(cookie, attribute, now),
                  New(header.name, header.value), header.attributes)
    ELSE None

IsExpired(cookie, now) == cookie.expiration # None /\ cookie.expiration < now

----------------------------------------------------------------------------
(* An IP address matches itself only, and nothing is under an empty domain. *)
DomainMatches(host, domain) ==
    \/ ToLower(domain) = ToLower(host)
    \/ /\ domain # <<>> /\ IsStrictPrefix(ToLower(domain), ToLower(host))
       /\ host \notin Ip

PathMatches(request, path) ==
    \/ request = path
    \/ IsPrefix(path, request)
    \/ Last(path) = "" /\ IsPrefix(Front(path), request) /\ Len(request) >= Len(path)

DefaultPath(uri) == IF Len(uri.path) < 2 THEN <<"">> ELSE Front(uri.path)

(* CookieWithContext: the domain-value and the path-value come from the     *)
(* request where the cookie gives none.                                     *)
WithContext(cookie, uri) ==
    [domain |-> IF cookie.domain = None THEN uri.host ELSE cookie.domain,
     path |-> IF cookie.path = None THEN DefaultPath(uri) ELSE cookie.path,
     cookie |-> cookie]

SameCookie(e, f) == e.domain = f.domain /\ e.path = f.path /\ e.cookie.name = f.cookie.name

(* mutant: a cookie without a domain goes to the hosts below as well *)
NeverHostOnly(e) == FALSE

IsHostOnly(e) == e.cookie.domain = None

Matches(e, uri, now) ==
    /\ e.cookie.secure => uri.scheme = "https"
    /\ IF IsHostOnly(e) THEN ToLower(e.domain) = ToLower(uri.host) ELSE DomainMatches(uri.host, e.domain)
    /\ PathMatches(uri.path, e.path)
    /\ ~IsExpired(e.cookie, now)
=============================================================================
