-------------------------- MODULE ConfigureProofs ----------------------------
(****************************************************************************)
(* Proofs about the builder, the options and the framing of a request, as   *)
(* steps of Client: for every set of values that fields, headers, methods   *)
(* and bodies may have, and for any number of calls.                        *)
(*                                                                          *)
(* An induction over numbers is by the least counterexample: LeastNumber.   *)
(****************************************************************************)
EXTENDS Client, WellFoundedInduction, TLAPS

USE DEF ++

(* The fields that set options.                                             *)
Listed == {Order[i] : i \in 1..Len(Order)}

(* The names of the options that a field may set, and the side of the       *)
(* connection it sets them for. No name is written in two cases but those   *)
(* of a field and its counterpart for the proxy, and those of a negotiation *)
(* and of credentials.                                                      *)
AuthNames == {"USERNAME", "PASSWORD", "AUTH"}
ProxyFieldsOf == {"proxy_authentication", "proxy_credentials", "proxy_tls_config"}
Side(f) == IF f \in ProxyFieldsOf THEN "proxy" ELSE "origin"

Names(f) ==
    CASE f \in DOMAIN Plain -> Plain[f]
      [] f = "version_negotiation" -> {"HTTP_VERSION"}
      [] f = "automatic_decompression" -> {"ACCEPT_ENCODING"}
      [] f = "expect_continue" -> {"EXPECT_100_TIMEOUT"}
      [] f \in {"authentication", "credentials", "proxy_authentication", "proxy_credentials"} -> AuthNames
      [] f = "interface" -> {"INTERFACE"}
      [] f = "dial" -> {"CONNECT_TO", "UNIX_SOCKET_PATH"}
      [] f = "proxy" -> {"PROXY"}
      [] f \in {"tls_config", "proxy_tls_config"} -> TlsNames
      [] f = "dns_cache" -> {"DNS_CACHE_TIMEOUT"}

(* The field that sets an option: for the options of a proxy, the           *)
(* counterpart of that field.                                               *)
Owner(n) ==
    CASE n = "TIMEOUT" -> "timeout"
      [] n \in {"LOW_SPEED_LIMIT", "LOW_SPEED_TIME"} -> "low_speed_timeout"
      [] n = "CONNECTTIMEOUT" -> "connect_timeout"
      [] n \in {"TCP_KEEPALIVE", "TCP_KEEPINTVL"} -> "tcp_keepalive"
      [] n = "TCP_NODELAY" -> "tcp_nodelay"
      [] n = "IPRESOLVE" -> "ip_version"
      [] n = "NOPROXY" -> "proxy_blacklist"
      [] n = "MAX_SEND_SPEED" -> "max_upload_speed"
      [] n = "MAX_RECV_SPEED" -> "max_download_speed"
      [] n = "NOPROGRESS" -> "enable_metrics"
      [] n = "MAXAGE_CONN" -> "connection_cache_ttl"
      [] n = "RESOLVE" -> "dns_resolve"
      [] n = "HTTP_VERSION" -> "version_negotiation"
      [] n = "ACCEPT_ENCODING" -> "automatic_decompression"
      [] n = "EXPECT_100_TIMEOUT" -> "expect_continue"
      [] n \in AuthNames -> "credentials"
      [] n = "INTERFACE" -> "interface"
      [] n \in {"CONNECT_TO", "UNIX_SOCKET_PATH"} -> "dial"
      [] n = "PROXY" -> "proxy"
      [] n \in TlsNames -> "tls_config"
      [] n = "DNS_CACHE_TIMEOUT" -> "dns_cache"

OriginField(f) ==
    CASE f \in {"authentication", "proxy_authentication", "proxy_credentials"} -> "credentials"
      [] f = "proxy_tls_config" -> "tls_config"
      [] OTHER -> f

(* The induction that the proofs use: a set of numbers has a least one.     *)
LEMMA LeastNumber ==
    ASSUME NEW T, T \subseteq Nat, T # {}
    PROVE  \E n \in T : \A m \in T : n <= m
<1> DEFINE R == {pair \in Nat \X Nat : pair[1] < pair[2]}
<1>1. IsWellFoundedOn(R, Nat)
  BY NatLessThanWellFounded, Zenon DEF OpToRel
<1> HIDE DEF R
<1>2. PICK n \in T : \A m \in T : <<m, n>> \notin R
  BY <1>1, WFMin
<1>3. ASSUME NEW m \in T PROVE n <= m
  <2>1. <<m, n>> \notin R
    BY <1>2
  <2> QED
    BY <2>1 DEF R
<1> QED
  BY <1>3

(* The fields of the two set_opt functions, one by one.                     *)
LEMMA ListedFields == Listed = {
    "timeout", "low_speed_timeout", "connect_timeout", "version_negotiation", "automatic_decompression",
    "expect_continue", "authentication", "credentials", "tcp_keepalive", "tcp_nodelay", "interface", "ip_version", "dial",
    "proxy", "proxy_blacklist", "proxy_authentication", "proxy_credentials", "max_upload_speed",
    "max_download_speed", "tls_config", "proxy_tls_config", "enable_metrics",
    "connection_cache_ttl", "dns_cache", "dns_resolve"}
BY DEF Listed, Order, OrderWith

(* No field sets its options twice.                                         *)
LEMMA OrderIsInjective ==
   /\ Len(Order) = 25
   /\ \A i, j \in 1..25 : Order[i] = Order[j] => i = j
BY DEF Order, OrderWith

(* The fields whose options take their value as it is.                      *)
LEMMA PlainFields == 
  /\ DOMAIN Plain = {"timeout", "low_speed_timeout", "connect_timeout", "tcp_keepalive", "tcp_nodelay", "ip_version", "proxy_blacklist", "max_upload_speed", "max_download_speed", "enable_metrics", "connection_cache_ttl", "dns_resolve"}
BY DEF Plain

(* Two fields share the name of an option only when one is of the proxy, or *)
(* when both are about who authenticates.                                   *)
LEMMA NamesOwned == ASSUME NEW f \in Listed, NEW n \in Names(f) PROVE Owner(n) = OriginField(f)
<1>1. CASE f \in DOMAIN Plain
  BY <1>1, PlainFields DEF Plain, Names, Owner, OriginField, AuthNames, TlsNames, IdentityNames
<1>2. CASE f \notin DOMAIN Plain
  BY <1>2, ListedFields, PlainFields DEF Names, Owner, OriginField, AuthNames, TlsNames, IdentityNames
<1> QED BY <1>1, <1>2

(* What is first goes before what is second.                                *)
LEMMA OverDomain ==
    ASSUME NEW f, NEW g, NEW x
    PROVE  x \in DOMAIN Over(f, g) <=> x \in DOMAIN f \/ x \in DOMAIN g
BY DEF Over

(* The value is of the first that has one.                                  *)
LEMMA OverValue ==
    ASSUME NEW f, NEW g, NEW x \in DOMAIN f \cup DOMAIN g
    PROVE  Over(f, g)[x] = IF x \in DOMAIN f THEN f[x] ELSE g[x]
BY DEF Over

(* The options that one call of curl sets.                                  *)
LEMMA OptionDomain ==
    ASSUME NEW side, NEW names, NEW v, NEW o
    PROVE  o \in DOMAIN Option(side, names, v) <=> o \in {side} \X names
BY DEF Option

(* One call of curl sets one value.                                         *)
LEMMA OptionValue ==
    ASSUME NEW side, NEW names, NEW v, NEW o \in {side} \X names
    PROVE  Option(side, names, v)[o] = v
BY DEF Option

(* A new handle has no options.                                             *)
LEMMA NoOptionIsEmpty == DOMAIN NoOption = {}
BY DEF NoOption, Option

(* Options of one side, with some of the names.                             *)
Within(options, side, names) == DOMAIN options \subseteq {side} \X names

(* An option is within the names that have its own.                         *)
LEMMA WithinOption ==
    ASSUME NEW side, NEW names, NEW all, names \subseteq all, NEW v
    PROVE  Within(Option(side, names, v), side, all)
BY DEF Within, Option

(* And also when it is set on a condition.                                  *)
LEMMA WithinWhen ==
    ASSUME NEW options, NEW side, NEW all, Within(options, side, all), NEW condition
    PROVE  Within(When(condition, options), side, all)
BY NoOptionIsEmpty DEF Within, When

(* Options over options are within the names of both.                       *)
LEMMA WithinOverride ==
    ASSUME NEW f, NEW g, NEW side, NEW all, Within(f, side, all), Within(g, side, all)
    PROVE  Within(f ++ g, side, all)
BY OverDomain, OverValue DEF Within

(* A client certificate sets options of TLS.                                *)
LEMMA IdentityIsTls == ASSUME NEW side, NEW v PROVE Within(Identity(side, v), side, TlsNames)
<1> DEFINE T(options) == Within(options, side, TlsNames)
<1>0. ASSUME NEW names, names \subseteq TlsNames, NEW x PROVE T(Option(side, names, x))
  BY <1>0, WithinOption
<1>1. ASSUME NEW x PROVE T(Password(side, x))
  BY <1>0, WithinWhen DEF TlsNames, IdentityNames, Password
<1>2. \A x, y : T(x) /\ T(y) => T(x ++ y)
  BY WithinOverride
<1>3. T(NoOption)
  BY NoOptionIsEmpty DEF Within
<1>4. ASSUME NEW key PROVE T(PrivateKey(side, key))
  <2>1. T(Option(side, {"KEYTYPE"}, key.format))
    BY <1>0 DEF TlsNames, IdentityNames
  <2>2. T(Option(side, {IF IsFile(key.data) THEN "KEY" ELSE "KEY_BLOB"}, key.data))
    BY <1>0 DEF TlsNames, IdentityNames
  <2> HIDE DEF T
  <2> QED BY <1>1, <1>2, <2>1, <2>2 DEF PrivateKey
<1>5. T(Option(side, {"CERTTYPE"}, v.format))
  BY <1>0 DEF TlsNames, IdentityNames
<1>6. T(Option(side, {IF IsFile(v.data) THEN "CERT" ELSE "CERT_BLOB"}, v.data))
  BY <1>0 DEF TlsNames, IdentityNames
<1>7. T(IF v.key = None THEN NoOption ELSE PrivateKey(side, v.key))
  BY <1>3, <1>4
<1> HIDE DEF T
<1>8. T(Identity(side, v))
  BY <1>1, <1>2, <1>5, <1>6, <1>7 DEF Identity
<1> QED
  BY <1>8 DEF T

(* A TLS configuration sets options of TLS, on its own side.                *)
LEMMA TlsConfigNames == ASSUME NEW side, NEW v PROVE Within(TlsConfig(side, v), side, TlsNames)
<1> DEFINE T(options) == Within(options, side, TlsNames)
<1>0. ASSUME NEW names, names \subseteq TlsNames, NEW x PROVE T(Option(side, names, x))
  BY <1>0, WithinOption
<1>1. ASSUME NEW condition, NEW options, T(options) PROVE T(When(condition, options))
  BY <1>1, WithinWhen
<1>2. \A x, y : T(x) /\ T(y) => T(x ++ y)
  BY WithinOverride
<1>3. T(NoOption)
  BY NoOptionIsEmpty DEF Within
<1>4. T(When(v.ciphers # None, Option(side, {"CIPHER_LIST"}, v.ciphers)))
  BY <1>0, <1>1 DEF TlsNames, IdentityNames
<1>5. T(Option(side, {"OPTIONS"}, TlsFlags(v))) /\ T(Option(side, {"VERSION"}, <<v.min, v.max>>))
  BY <1>0 DEF TlsNames, IdentityNames
<1>6. ASSUME NEW x PROVE T(Option(side, {"VERIFYPEER"}, x)) /\ T(Option(side, {"VERIFYHOST"}, x))
  BY <1>0 DEF TlsNames, IdentityNames
<1>7. T(TrustStore(side, v.trust))
  <2>1. /\ T(Option(side, {"CAINFO", "CAPATH"}, None))
        /\ T(Option(side, {"CAINFO"}, v.trust)) /\ T(Option(side, {"CAINFO_BLOB"}, v.trust))
    BY <1>0 DEF TlsNames, IdentityNames
  <2> HIDE DEF T
  <2> QED BY <1>3, <2>1 DEF TrustStore
<1>8. T(When(v.issuer # None, Option(side, {"ISSUERCERT_BLOB"}, v.issuer)))
  BY <1>0, <1>1 DEF TlsNames, IdentityNames
<1>9. T(IF v.identity = None THEN NoOption ELSE Identity(side, v.identity))
  BY <1>3, IdentityIsTls
<1> HIDE DEF T
<1>10. T(Verify(side, v))
  BY <1>2, <1>6 DEF Verify
<1>11. T(TlsConfig(side, v))
  BY <1>2, <1>4, <1>5, <1>7, <1>8, <1>9, <1>10 DEF TlsConfig
<1> QED
  BY <1>11 DEF T

(* Every field sets options of its own names, on its own side, whatever its *)
(* value is.                                                                *)
LEMMA OptionsNamed ==
    ASSUME NEW f \in Listed, NEW v
    PROVE  Within(OptionsOf(f, v), Side(f), Names(f))
<1> DEFINE T(options) == Within(options, Side(f), Names(f))
<1>0. ASSUME NEW names, names \subseteq Names(f), NEW x PROVE T(Option(Side(f), names, x))
  BY <1>0, WithinOption
<1>1. CASE f \in DOMAIN Plain
  BY <1>0, <1>1, PlainFields DEF OptionsOf, Names, Side, ProxyFieldsOf
<1>2. CASE f = "version_negotiation"
  BY <1>0, <1>2, PlainFields, WithinWhen DEF OptionsOf, Names, Side, ProxyFieldsOf, VersionNegotiation
<1>3. CASE f \in {"automatic_decompression", "interface", "proxy", "dns_cache"}
  BY <1>0, <1>3, PlainFields DEF OptionsOf, Names, Side, ProxyFieldsOf, AutomaticDecompression, Interface, Proxy, DnsCache
<1>4. CASE f = "expect_continue"
  BY <1>0, <1>4, PlainFields, WithinWhen DEF OptionsOf, Names, Side, ProxyFieldsOf, ExpectContinue
<1>5. CASE f = "dial"
  BY <1>0, <1>5, PlainFields, WithinOverride DEF OptionsOf, Names, Side, ProxyFieldsOf, Dialer
<1>6. CASE f \in {"credentials", "proxy_credentials"}
  BY <1>0, <1>6, PlainFields DEF OptionsOf, Names, Side, ProxyFieldsOf, Credentials, AuthNames
<1>7. CASE f \in {"authentication", "proxy_authentication"}
  <2>1. T(Credentials(Side(f), "")) /\ T(Option(Side(f), {"AUTH"}, v))
    BY <1>0, <1>7, PlainFields DEF Credentials, Names, AuthNames
  <2>2. T(When("negotiate" \in v, Credentials(Side(f), "")))
    BY <2>1, WithinWhen
  <2>3. T(Authentication(Side(f), v))
    BY <2>1, <2>2, WithinOverride DEF Authentication
  <2> QED
    BY <1>7, <2>3, PlainFields DEF OptionsOf, Side, ProxyFieldsOf
<1>8. CASE f \in {"tls_config", "proxy_tls_config"}
  BY <1>8, TlsConfigNames, PlainFields DEF OptionsOf, Names, Side, ProxyFieldsOf
<1> QED
  BY <1>1, <1>2, <1>3, <1>4, <1>5, <1>6, <1>7, <1>8, ListedFields, PlainFields

(* Two fields set the same option only when they are the two that           *)
(* authenticate on one side. This is why the order of set_opt matters for   *)
(* those, and for no other pair.                                            *)
LEMMA FieldsMeet ==
    ASSUME NEW f \in Listed, NEW g \in Listed, f # g, NEW v, NEW w,
           NEW o \in DOMAIN OptionsOf(f, v), o \in DOMAIN OptionsOf(g, w)
    PROVE  {f, g} \in {{"authentication", "credentials"}, {"proxy_authentication", "proxy_credentials"}}
<1>1. Side(f) = Side(g) /\ OriginField(f) = OriginField(g)
  BY OptionsNamed, NamesOwned DEF Within
<1> QED
  BY <1>1, ListedFields DEF Side, OriginField, ProxyFieldsOf

----------------------------------------------------------------------------
(* The invariant behind BuildRefusesBadHeaders: the error of the builder    *)
(* remembers every bad header ever given, also one that was replaced since, *)
(* and the headers are the good ones since the last replacement.            *)
Builder ==
    /\ calls \in Seq([replace : BOOLEAN, given : Seq(Headers)])
    /\ ~error => \A i \in DOMAIN calls : Named(calls[i].given) \cap BadHeaders = {}
    /\ headers = UNION {Named(calls[i].given) \ BadHeaders : i \in Since}
    /\ phase = "built" => ~error

(* One call of default_header or default_headers keeps it.                  *)
LEMMA CallAppended ==
    ASSUME Builder, NEW replace \in BOOLEAN, NEW given \in Seq(Headers),
           calls' = Append(calls, [replace |-> replace, given |-> given]),
           AppendHeaders(IF replace THEN {} ELSE headers, given), phase' = phase, phase = "building"
    PROVE  Builder'
<1> DEFINE n == Len(calls)
           call == [replace |-> replace, given |-> given]
<1>1. calls' \in Seq([replace : BOOLEAN, given : Seq(Headers)])
  BY DEF Builder
<1>2. /\ n \in Nat /\ DOMAIN calls = 1..n /\ DOMAIN calls' = 1..(n + 1) /\ Len(calls') = n + 1
      /\ calls'[n + 1] = call /\ \A i \in 1..n : calls'[i] = calls[i]
  BY DEF Builder
<1>3. ~error' => \A i \in DOMAIN calls' : Named(calls[i].given)' \cap BadHeaders = {}
  <2> SUFFICES ASSUME ~error', NEW i \in 1..(n + 1) PROVE Named(calls'[i].given) \cap BadHeaders = {}
    BY <1>2 DEF Named
  <2>1. ~error /\ Named(given) \cap BadHeaders = {}
    BY DEF AppendHeaders
  <2>2. CASE i = n + 1
    BY <1>2, <2>1, <2>2
  <2>3. CASE i # n + 1
    BY <1>2, <2>1, <2>3 DEF Builder
  <2> QED
    BY <2>2, <2>3
<1>4. Since' = (IF replace THEN {} ELSE Since) \cup {n + 1}
  <2>1. ASSUME NEW i \in 1..(n + 1)
        PROVE  i \in Since' <=> i = n + 1 \/ (~replace /\ i \in Since)
    <3>1. i \in Since' <=> \A j \in (i + 1)..(n + 1) : ~calls'[j].replace
      BY <1>2 DEF Since
    <3>2. i \in Since <=> i \in 1..n /\ \A j \in (i + 1)..n : ~calls[j].replace
      BY <1>2 DEF Since
    <3>3. CASE i = n + 1
      BY <1>2, <3>1, <3>3
    <3>4. CASE i # n + 1
      <4>1. n + 1 \in (i + 1)..(n + 1) /\ i \in 1..n
        BY <1>2, <3>4
      <4>2. calls'[n + 1].replace = replace /\ \A j \in (i + 1)..n : calls'[j].replace = calls[j].replace
        BY <1>2, <4>1
      <4>3. \A j : j \in (i + 1)..(n + 1) <=> j = n + 1 \/ j \in (i + 1)..n
        BY <1>2, <4>1
      <4> QED
        BY <3>1, <3>2, <3>4, <4>1, <4>2, <4>3
    <3> QED
      BY <3>3, <3>4
  <2>2. Since \subseteq 1..n /\ Since' \subseteq 1..(n + 1)
    BY <1>2 DEF Since
  <2>3. n + 1 \in 1..(n + 1) /\ \A i \in 1..n : i \in 1..(n + 1)
    BY <1>2
  <2>4. ASSUME NEW i PROVE i \in Since' <=> i \in (IF replace THEN {} ELSE Since) \cup {n + 1}
    <3>1. CASE i \in 1..(n + 1)
      BY <2>1, <3>1
    <3>2. CASE i \notin 1..(n + 1)
      BY <1>2, <2>2, <2>3, <3>2
    <3> QED
      BY <3>1, <3>2
  <2> QED
    BY <2>4
<1>5. headers' = UNION {Named(calls'[i].given) \ BadHeaders : i \in Since'}
  <2>1. headers' = (IF replace THEN {} ELSE headers) \cup (Named(given) \ BadHeaders)
    BY DEF AppendHeaders
  <2>2. Named(calls'[n + 1].given) = Named(given)
    BY <1>2
  <2>3. \A i \in Since : i # n + 1 /\ Named(calls'[i].given) = Named(calls[i].given)
    BY <1>2 DEF Since
  <2>4. headers = UNION {Named(calls[i].given) \ BadHeaders : i \in Since}
    BY DEF Builder
  <2>5. ASSUME NEW h PROVE h \in headers' <=> h \in UNION {Named(calls'[i].given) \ BadHeaders : i \in Since'}
    BY <1>4, <2>1, <2>2, <2>3, <2>4
  <2> QED
    BY <2>5
<1> QED
  BY <1>1, <1>3, <1>5 DEF Builder, Named

(* A step that leaves the calls, the error and the headers alone keeps it.  *)
LEMMA BuilderKept ==
    ASSUME Builder, UNCHANGED <<calls, error, headers>>, phase' = "built" => phase = "built"
    PROVE  Builder'
BY DEF Builder, Since

(* Every step of the client keeps it.                                       *)
LEMMA BuilderStep == Builder /\ [Next]_clientVars => Builder'
<1> SUFFICES ASSUME Builder, [Next]_clientVars PROVE Builder'
  OBVIOUS
<1> USE DEF builderVars
<1>1. ASSUME NEW f, NEW v, SetField(f, v) PROVE Builder'
  BY <1>1, BuilderKept DEF SetField
<1>2. ASSUME NEW n, ConnectionCacheSize(n) PROVE Builder'
  BY <1>2, BuilderKept DEF ConnectionCacheSize
<1>3. ASSUME NEW i, AddInterceptor(i) PROVE Builder'
  BY <1>3, BuilderKept DEF AddInterceptor
<1>4. ASSUME NEW h \in Headers, DefaultHeader(h) PROVE Builder'
  <2>1. <<h>> \in Seq(Headers)
    OBVIOUS
  <2> QED
    BY <1>4, <2>1, CallAppended DEF DefaultHeader
<1>5. ASSUME NEW given \in Seq(Headers), DefaultHeaders(given) PROVE Builder'
  BY <1>5, CallAppended DEF DefaultHeaders
<1>6. CASE BuildFails
  BY <1>6, BuilderKept DEF BuildFails, Fail
<1>7. CASE Build
  BY <1>7 DEF Build, Builder, Since
<1>8. CASE Use
  <2>1. calls' = <<>> /\ headers' = {} /\ Since' = {}
    BY <1>8 DEF Use, Since
  <2> QED
    BY <1>8, <2>1 DEF Use, Builder
<1>9. ASSUME NEW f, NEW v, SetRequestField(f, v) PROVE Builder'
  BY <1>9, BuilderKept DEF SetRequestField
<1>10. CASE Send
  BY <1>10, BuilderKept DEF Send
<1>11. ASSUME NEW f, SetOption(f) PROVE Builder'
  BY <1>11, BuilderKept DEF SetOption
<1>12. ASSUME NEW f, NEW kind, SetOptionFails(f, kind) PROVE Builder'
  BY <1>12, BuilderKept DEF SetOptionFails, Fail
<1>13. CASE OptionsEnd
  BY <1>13, BuilderKept DEF OptionsEnd
<1>14. ASSUME NEW kind, HandleFails(kind) PROVE Builder'
  BY <1>14, BuilderKept DEF HandleFails, Fail
<1>15. ASSUME NEW method, NEW content, NEW header, CreateEasyHandle(method, content, header) PROVE Builder'
  BY <1>15, BuilderKept DEF CreateEasyHandle
<1>16. CASE Configure
  <2>1. ASSUME NEW n \in 0..2, NEW given \in [1..n -> Headers] PROVE given \in Seq(Headers)
    OBVIOUS
  <2> QED
    BY <1>1, <1>2, <1>3, <1>4, <1>5, <1>6, <1>7, <1>8, <1>9, <1>10, <1>11, <1>12, <1>13, <1>14, <1>15, <1>16, <2>1
    DEF Configure
<1>17. CASE Submit
  BY <1>17, BuilderKept DEF Submit
<1>18. ASSUME NEW code, ExchangeFails(code) PROVE Builder'
  BY <1>18, BuilderKept DEF ExchangeFails, Fail
<1>19. ASSUME NEW r, HeadersCome(r) PROVE Builder'
  BY <1>19, BuilderKept DEF HeadersCome
<1>20. CASE UNCHANGED configureVars
  BY <1>20, BuilderKept DEF configureVars
<1> QED
  BY <1>16, <1>17, <1>18, <1>19, <1>20 DEF Next, Watch, clientVars

(* A client is built only of good headers, those given since they were last *)
(* replaced, however many calls of default_header and default_headers there *)
(* were and in whatever order: the error that append_header remembers is    *)
(* never taken back (client.rs).                                            *)
THEOREM HeadersAreGood == Spec => []BuildRefusesBadHeaders
<1>1. Init => Builder
  BY DEF Init, ConfigureInit, Builder, Since
<1>2. Builder => BuildRefusesBadHeaders
  <2> SUFFICES ASSUME Builder, phase = "built" PROVE BuildRefusesBadHeaders
    BY DEF BuildRefusesBadHeaders
  <2>1. \A i \in DOMAIN calls : Named(calls[i].given) \cap BadHeaders = {}
    BY DEF Builder
  <2>2. \A i \in Since : Named(calls[i].given) \ BadHeaders = Named(calls[i].given)
    BY <2>1 DEF Since
  <2>3. headers = UNION {Named(calls[i].given) : i \in Since}
    BY <2>2 DEF Builder
  <2> QED
    BY <2>1, <2>3 DEF BuildRefusesBadHeaders
<1> QED
  BY <1>1, <1>2, BuilderStep, PTL DEF Spec

----------------------------------------------------------------------------
(* Where a configuration is: merged while its options are set, and nothing  *)
(* of it left in the handle at any other time.                              *)
Handled == phase \in {"options", "method"}
Switch(config) == config["automatic_decompression"]

Places ==
    /\ DOMAIN client = Field /\ DOMAIN request = Field
    /\ Switch(client) \in BOOLEAN /\ Switch(request) \in BOOLEAN \cup {None} /\ Switch(own) \in BOOLEAN \cup {None}
    /\ position \in 0..25
    /\ Handled => request = Merge(own, client)
    /\ ~Handled => position = 0 /\ easy = NoOption /\ blobs = NoOption
    /\ phase = "method" => Pending = {} /\ Given(<<"origin", "FORBID_REUSE">>, closing)

(* The fields whose options curl has been given.                            *)
Done(f) == \E i \in 1..position : Order[i] = f /\ request[f] # None

(* An authentication that negotiates sets the credentials' options too, and *)
(* then the credentials, which come later, replace them.                    *)
Meet(f, g) == <<f, g>> \in {<<"authentication", "credentials">>, <<"proxy_authentication", "proxy_credentials">>}

(* The invariant behind OptionsAreConfigured. What a field has set is       *)
(* there, and has the value the field gave it unless a field that comes     *)
(* later sets the same option.                                              *)
Kept ==
    \A f \in Listed : Done(f) =>
        \A o \in DOMAIN OptionsOf(f, request[f]) :
            /\ o \in DOMAIN easy
            /\ (\A g \in Listed : Meet(f, g) => ~Done(g)) \/ o[2] = "AUTH" => easy[o] = OptionsOf(f, request[f])[o]

(* And what is there was set by a field that has a value.                   *)
Sourced ==
    \A o \in DOMAIN easy :
        \/ o[2] \in {"NOSIGNAL", "FORBID_REUSE"}
        \/ \E f \in Listed : Done(f) /\ o \in DOMAIN OptionsOf(f, request[f])

(* The invariant of the handle while its options are set.                   *)
Handle == Places /\ Kept /\ Sourced /\ BlobsAreKept

(* A handle that is not there has nothing to say.                           *)
LEMMA NoHandle ==
    ASSUME position = 0, easy = NoOption
    PROVE  Kept /\ Sourced /\ BlobsAreKept
BY NoOptionIsEmpty DEF Kept, Sourced, BlobsAreKept, Done

(* Which steps begin, continue or end the setting of options.               *)
LEMMA HandledSteps ==
    ASSUME [Next]_clientVars, Handled'
    PROVE  Send \/ (\E f \in Field : SetOption(f)) \/ OptionsEnd \/ UNCHANGED configureVars
<1>1. ASSUME NEW f \in Field, NEW v, SetField(f, v) PROVE FALSE
  BY <1>1 DEF SetField, Handled
<1>2. ASSUME NEW n, ConnectionCacheSize(n) PROVE FALSE
  BY <1>2 DEF ConnectionCacheSize, Handled
<1>3. ASSUME NEW i, AddInterceptor(i) PROVE FALSE
  BY <1>3 DEF AddInterceptor, Handled
<1>4. ASSUME NEW h, DefaultHeader(h) PROVE FALSE
  BY <1>4 DEF DefaultHeader, Handled
<1>5. ASSUME NEW given, DefaultHeaders(given) PROVE FALSE
  BY <1>5 DEF DefaultHeaders, Handled
<1>6. ~BuildFails /\ ~Build /\ ~Use /\ ~Submit
  BY DEF BuildFails, Fail, Build, Use, Submit, Handled
<1>7. ASSUME NEW f, NEW v, SetRequestField(f, v) PROVE FALSE
  BY <1>7 DEF SetRequestField, Handled
<1>8. ASSUME NEW f, NEW kind, SetOptionFails(f, kind) PROVE FALSE
  BY <1>8 DEF SetOptionFails, Fail, Handled
<1>9. ASSUME NEW kind, HandleFails(kind) PROVE FALSE
  BY <1>9 DEF HandleFails, Fail, Handled
<1>10. ASSUME NEW method, NEW content, NEW header, CreateEasyHandle(method, content, header) PROVE FALSE
  BY <1>10 DEF CreateEasyHandle, Handled
<1>11. ASSUME NEW code, ExchangeFails(code) PROVE FALSE
  BY <1>11 DEF ExchangeFails, Fail, Handled
<1>12. ASSUME NEW r, HeadersCome(r) PROVE FALSE
  BY <1>12 DEF HeadersCome, Handled
<1>13. CASE Configure
  BY <1>1, <1>2, <1>3, <1>4, <1>5, <1>6, <1>7, <1>8, <1>9, <1>10, <1>13 DEF Configure
<1> QED
  BY <1>6, <1>11, <1>12, <1>13 DEF Next, Watch, clientVars, configureVars

(* Merging a request into a client always tells whether to decompress.      *)
LEMMA MergedSwitch ==
    ASSUME Places
    PROVE  Switch(Merge(request, client)) \in BOOLEAN
BY DEF Places, Switch, Merge, Field, RequestFields, ProtocolFields

(* The next field whose options are set is the first that has a value.      *)
LEMMA PendingPosition ==
    ASSUME Places, NEW f, SetsOption(f)
    PROVE  /\ Min(Pending) \in (position + 1)..25 /\ f = Order[Min(Pending)] /\ request[f] # None
           /\ \A i \in (position + 1)..(Min(Pending) - 1) : request[Order[i]] = None
<1>1. Pending \subseteq (position + 1)..25 /\ Pending # {}
  BY OrderIsInjective DEF Pending, SetsOption
<1>2. \E i \in Pending : \A j \in Pending : i <= j
  <2>1. Pending \subseteq Nat
    BY <1>1 DEF Places
  <2> QED
    BY <1>1, <2>1, LeastNumber
<1>3. Min(Pending) \in Pending /\ \A j \in Pending : Min(Pending) <= j
  BY <1>2 DEF Min
<1>4. ASSUME NEW i \in (position + 1)..(Min(Pending) - 1) PROVE request[Order[i]] = None
  <2> DEFINE least == Min(Pending)
  <2>1. position \in 0..25 /\ least \in (position + 1)..25
    BY <1>1, <1>3 DEF Places
  <2> HIDE DEF least
  <2>2. i \in (position + 1)..25 /\ ~(least <= i)
    BY <2>1 DEF least
  <2> QED
    BY <1>3, <2>2, OrderIsInjective DEF Pending, least
<1> QED
  BY <1>1, <1>3, <1>4 DEF Pending, SetsOption

(* Every step of the client keeps Places.                                   *)
LEMMA PlacesStep == Places /\ [Next]_clientVars => Places'
<1> SUFFICES ASSUME Places, [Next]_clientVars PROVE Places'
  OBVIOUS
<1> USE DEF builderVars, clientConfig, requestConfig, handleVars
<1>a. Switch(ClientDefaults) = TRUE /\ DOMAIN ClientDefaults = Field /\ Switch(NoConfig) = None /\ DOMAIN NoConfig = Field
  BY DEF Switch, ClientDefaults, NoConfig, Field, RequestFields, ProtocolFields
<1>b. \A v \in Value["automatic_decompression"].values : v \in BOOLEAN
  BY ConfigureAssumption
(* Before and after, there is no handle. *)
<1>c. ASSUME ~Handled', position' = 0, easy' = NoOption, blobs' = NoOption,
             DOMAIN client' = Field, DOMAIN request' = Field,
             Switch(client)' \in BOOLEAN, Switch(request)' \in BOOLEAN \cup {None}, Switch(own)' \in BOOLEAN \cup {None}
      PROVE  Places'
  BY <1>c DEF Places, Handled
<1>d. ASSUME UNCHANGED <<clientConfig, requestConfig, position, easy, blobs>>, ~Handled, ~Handled'
      PROVE  Places'
  BY <1>c, <1>d DEF Places, Switch
<1>e. ASSUME NEW kind, Fail(kind), UNCHANGED client PROVE Places'
  BY <1>a, <1>c, <1>e DEF Fail, Places, Switch, Handled
<1>1. ASSUME NEW f \in Field, NEW v \in Value[f].values, SetField(f, v) PROVE Places'
  <2>1. DOMAIN client' = Field /\ Switch(client)' \in BOOLEAN
    BY <1>1, <1>b DEF SetField, Places, Switch
  <2> QED
    BY <1>1, <1>c, <2>1 DEF SetField, Places, Handled, Switch
<1>2. ASSUME NEW n, ConnectionCacheSize(n) PROVE Places'
  BY <1>2, <1>c DEF ConnectionCacheSize, Handled, Places, Switch
<1>3. ASSUME NEW i, AddInterceptor(i) PROVE Places'
  BY <1>3, <1>d DEF AddInterceptor, Handled
<1>4. ASSUME NEW h, DefaultHeader(h) PROVE Places'
  BY <1>4, <1>d DEF DefaultHeader, Handled
<1>5. ASSUME NEW given, DefaultHeaders(given) PROVE Places'
  BY <1>5, <1>d DEF DefaultHeaders, Handled
<1>6. CASE BuildFails
  BY <1>6, <1>e DEF BuildFails
<1>7. CASE Build
  BY <1>7, <1>d DEF Build, Handled
<1>8. CASE Use
  BY <1>8, <1>d DEF Use, Handled
<1>9. ASSUME NEW f \in RequestFields, NEW v \in Value[f].values, SetRequestField(f, v) PROVE Places'
  <2>1. DOMAIN request' = Field /\ Switch(request)' \in BOOLEAN \cup {None}
    BY <1>9, <1>b DEF SetRequestField, Places, Switch
  <2> QED
    BY <1>9, <1>c, <2>1 DEF SetRequestField, Places, Handled, Switch
<1>10. CASE Send
  <2>1. DOMAIN request' = Field /\ Switch(request)' \in BOOLEAN
    BY <1>10, MergedSwitch DEF Send, Merge, Switch
  <2>2. request' = Merge(own', client') /\ Switch(own)' \in BOOLEAN \cup {None}
    BY <1>10 DEF Send, Places, Switch
  <2> QED
    BY <1>10, <2>1, <2>2 DEF Send, Places, Handled, Switch
<1>11. ASSUME NEW f, SetOption(f) PROVE Places'
  <2>1. position' \in 0..25
    BY <1>11, PendingPosition DEF SetOption, Places
  <2> QED
    BY <1>11, <2>1 DEF SetOption, SetsOption, Places, Handled, Switch
<1>12. ASSUME NEW f, NEW kind, SetOptionFails(f, kind) PROVE Places'
  BY <1>12, <1>e DEF SetOptionFails
<1>13. CASE OptionsEnd
  <2>1. Given(<<"origin", "FORBID_REUSE">>, closing)'
    <3>1. easy' = Over(Option("origin", {"FORBID_REUSE"}, closing), easy) /\ closing' = closing
      BY <1>13 DEF OptionsEnd
    <3> QED
      BY <3>1 DEF Given, Option, Over
  <2>2. Pending' = Pending /\ Pending = {}
    BY <1>13 DEF OptionsEnd, Pending
  <2> QED
    BY <1>13, <2>1, <2>2 DEF OptionsEnd, Places, Handled, Switch
<1>14. ASSUME NEW kind, HandleFails(kind) PROVE Places'
  BY <1>14, <1>e DEF HandleFails
<1>15. ASSUME NEW method, NEW content, NEW header, CreateEasyHandle(method, content, header) PROVE Places'
  BY <1>15, <1>a, <1>c DEF CreateEasyHandle, Handled, Switch
<1>16. CASE Configure
  BY <1>1, <1>2, <1>3, <1>4, <1>5, <1>6, <1>7, <1>8, <1>9, <1>10, <1>11, <1>12, <1>13, <1>14, <1>15, <1>16 DEF Configure
<1>17. CASE Submit
  BY <1>17, <1>d DEF Submit, Handled
<1>18. ASSUME NEW code, ExchangeFails(code) PROVE Places'
  BY <1>18, <1>e DEF ExchangeFails
<1>19. ASSUME NEW r, HeadersCome(r) PROVE Places'
  BY <1>19, <1>d DEF HeadersCome, Handled
<1>20. CASE UNCHANGED configureVars
  BY <1>20 DEF configureVars, Places, Handled, Switch, Pending, Given
<1> QED
  BY <1>16, <1>17, <1>18, <1>19, <1>20 DEF Next, Watch, clientVars

(* The step that sets the options of f adds f to what is done, and the      *)
(* credentials have not been done when an authentication is.                *)
LEMMA OneMoreDone ==
    ASSUME Places, NEW f, SetOption(f)
    PROVE  /\ f \in Listed /\ Done(f)' /\ ~Done(f)
           /\ \A g : Done(g)' <=> Done(g) \/ g = f
           /\ \A g \in Listed : Meet(f, g) => ~Done(g)
<1> DEFINE least == Min(Pending)
<1>1. /\ position \in 0..25 /\ least \in (position + 1)..25 /\ f = Order[least] /\ request[f] # None
      /\ \A i \in (position + 1)..(least - 1) : request[Order[i]] = None
  BY PendingPosition DEF SetOption, Places
<1>2. position' = least /\ request' = request
  BY DEF SetOption, requestConfig
<1> HIDE DEF least
<1>3. ASSUME NEW g PROVE Done(g)' <=> Done(g) \/ g = f
  <2>1. ASSUME Done(g)', g # f PROVE Done(g)
    <3>1. PICK i \in 1..least : Order[i] = g /\ request[g] # None
      BY <1>2, <2>1 DEF Done
    <3>2. i <= position
      BY <1>1, <2>1, <3>1
    <3> QED
      BY <1>1, <3>1, <3>2 DEF Done
  <2>2. ASSUME Done(g) PROVE Done(g)'
    BY <1>1, <1>2, <2>2 DEF Done
  <2>3. Done(f)'
    BY <1>1, <1>2 DEF Done
  <2> QED
    BY <2>1, <2>2, <2>3
<1>4. ~Done(f)
  BY <1>1, OrderIsInjective DEF Done
<1>5. ASSUME NEW g \in Listed, Meet(f, g), Done(g) PROVE FALSE
  <2>1. PICK i \in 1..position : Order[i] = g
    BY <1>5 DEF Done
  <2>2. /\ f = "authentication" => least = 7
        /\ g = "credentials" => i = 8
        /\ f = "proxy_authentication" => least = 16
        /\ g = "proxy_credentials" => i = 17
    <3>1. Order[7] = "authentication" /\ Order[8] = "credentials" /\ Order[16] = "proxy_authentication" /\ Order[17] = "proxy_credentials"
      BY DEF Order, OrderWith
    <3> QED
      BY <1>1, <2>1, <3>1, OrderIsInjective
  <2> QED
    BY <1>1, <1>5, <2>1, <2>2 DEF Meet
<1> QED
  BY <1>1, <1>3, <1>4, <1>5, OrderIsInjective DEF Listed

(* Only a listed field is ever done.                                        *)
LEMMA OnlyListedDone == ASSUME Places, NEW f, Done(f) PROVE f \in Listed
BY OrderIsInjective DEF Done, Listed, Places

(* What an authentication sets: its methods, and empty credentials when it  *)
(* negotiates.                                                              *)
LEMMA AuthenticationOptions ==
    ASSUME NEW side \in Sides, NEW v
    PROVE  LET f == IF side = "origin" THEN "authentication" ELSE "proxy_authentication" IN
           /\ f \in Listed /\ OptionsOf(f, v) = Authentication(side, v)
           /\ <<side, "AUTH">> \in DOMAIN Authentication(side, v) /\ Authentication(side, v)[<<side, "AUTH">>] = v
           /\ \A n \in {"USERNAME", "PASSWORD"} :
                  /\ <<side, n>> \in DOMAIN Authentication(side, v) <=> "negotiate" \in v
                  /\ "negotiate" \in v => Authentication(side, v)[<<side, n>>] = ""
<1> DEFINE f == IF side = "origin" THEN "authentication" ELSE "proxy_authentication"
           auth == <<side, "AUTH">>
           names == When("negotiate" \in v, Credentials(side, ""))
<1>1. f \in Listed /\ OptionsOf(f, v) = Authentication(side, v)
  BY ListedFields, PlainFields DEF OptionsOf, Sides
<1>2. auth \notin DOMAIN names
  <2>1. auth \notin DOMAIN Credentials(side, "")
    BY DEF Credentials, Option
  <2> QED
    BY <2>1, NoOptionIsEmpty DEF When
<1>3. auth \in DOMAIN Option(side, {"AUTH"}, v) /\ Option(side, {"AUTH"}, v)[auth] = v
  BY OptionDomain, OptionValue
<1>4. Authentication(side, v) = Over(names, Option(side, {"AUTH"}, v))
  BY DEF Authentication
<1> HIDE DEF names, auth
<1>5. auth \in DOMAIN Authentication(side, v) /\ Authentication(side, v)[auth] = v
  <2>1. auth \in DOMAIN Over(names, Option(side, {"AUTH"}, v))
    BY <1>3, OverDomain
  <2>2. Over(names, Option(side, {"AUTH"}, v))[auth] = Option(side, {"AUTH"}, v)[auth]
    BY <1>2, <1>3, OverValue
  <2> QED
    BY <1>3, <1>4, <2>1, <2>2
<1>6. ASSUME NEW n \in {"USERNAME", "PASSWORD"}
      PROVE  /\ <<side, n>> \in DOMAIN Authentication(side, v) <=> "negotiate" \in v
             /\ "negotiate" \in v => Authentication(side, v)[<<side, n>>] = ""
  <2> DEFINE user == <<side, n>>
  <2>1. user \in DOMAIN Credentials(side, "") /\ Credentials(side, "")[user] = ""
    BY DEF Credentials, Option
  <2>2. /\ user \in DOMAIN names <=> "negotiate" \in v
        /\ "negotiate" \in v => names[user] = ""
    BY <2>1, NoOptionIsEmpty DEF When, names
  <2>3. user \notin DOMAIN Option(side, {"AUTH"}, v)
    BY OptionDomain
  <2> HIDE DEF user
  <2>4. user \in DOMAIN Authentication(side, v) <=> "negotiate" \in v
    BY <1>4, <2>2, <2>3, OverDomain
  <2>5. "negotiate" \in v => Authentication(side, v)[user] = ""
    <3>1. "negotiate" \in v => Over(names, Option(side, {"AUTH"}, v))[user] = names[user]
      BY <2>2, OverValue
    <3> QED
      BY <1>4, <2>2, <3>1
  <2> QED
    BY <2>4, <2>5 DEF user
<1> QED
  BY <1>1, <1>5, <1>6 DEF auth

(* What credentials set.                                                    *)
LEMMA CredentialsOptions ==
    ASSUME NEW side \in Sides, NEW v
    PROVE  LET f == IF side = "origin" THEN "credentials" ELSE "proxy_credentials" IN
           /\ f \in Listed /\ OptionsOf(f, v) = Credentials(side, v)
           /\ \A o : o \in DOMAIN Credentials(side, v) <=> o \in {side} \X {"USERNAME", "PASSWORD"}
           /\ \A o \in DOMAIN Credentials(side, v) : Credentials(side, v)[o] = v
<1>1. LET f == IF side = "origin" THEN "credentials" ELSE "proxy_credentials" IN
      f \in Listed /\ OptionsOf(f, v) = Credentials(side, v)
  BY ListedFields, PlainFields DEF OptionsOf, Sides
<1>2. /\ \A o : o \in DOMAIN Credentials(side, v) <=> o \in {side} \X {"USERNAME", "PASSWORD"}
      /\ \A o \in DOMAIN Credentials(side, v) : Credentials(side, v)[o] = v
  BY OptionDomain, OptionValue DEF Credentials
<1> QED
  BY <1>1, <1>2

(* Every step of the client keeps Kept: a field that overwrites an option   *)
(* of another is one of the credentials, and comes after.                   *)
LEMMA KeptStep == Places /\ Kept /\ [Next]_clientVars => Kept'
<1> SUFFICES ASSUME Places, Kept, [Next]_clientVars PROVE Kept'
  OBVIOUS
<1> USE DEF requestConfig, handleVars
<1>1. CASE ~Handled'
  BY <1>1, PlacesStep, NoHandle, PTL DEF Places
<1>2. CASE Send
  BY <1>2 DEF Send, Places, Handled, Kept, Done
<1>3. ASSUME NEW h \in Field, SetOption(h) PROVE Kept'
  <2> DEFINE new == OptionsOf(h, request[h])
  <2>1. request' = request /\ easy' = new ++ easy
    BY <1>3 DEF SetOption
  <2>2. /\ h \in Listed /\ \A g : Done(g)' <=> Done(g) \/ g = h
        /\ \A g \in Listed : Meet(h, g) => ~Done(g)
    BY <1>3, OneMoreDone
  <2> SUFFICES ASSUME NEW f \in Listed, Done(f)', NEW o \in DOMAIN OptionsOf(f, request[f])
               PROVE  /\ o \in DOMAIN easy'
                      /\ (\A g \in Listed : Meet(f, g) => ~Done(g)') \/ o[2] = "AUTH"
                            => easy'[o] = OptionsOf(f, request[f])[o]
    BY <2>1 DEF Kept
  <2> HIDE DEF new
  <2>3. CASE f = h
    BY <2>1, <2>3, OverDomain, OverValue DEF new
  <2>4. CASE f # h
    <3>1. /\ Done(f) /\ o \in DOMAIN easy
          /\ (\A g \in Listed : Meet(f, g) => ~Done(g)) \/ o[2] = "AUTH" => easy[o] = OptionsOf(f, request[f])[o]
      BY <2>2, <2>4 DEF Kept
    <3>2. CASE o \notin DOMAIN new
      BY <2>1, <2>2, <3>1, <3>2, OverDomain, OverValue
    <3>3. CASE o \in DOMAIN new
      <4>1. {f, h} \in {{"authentication", "credentials"}, {"proxy_authentication", "proxy_credentials"}}
        BY <2>2, <2>4, <3>3, FieldsMeet DEF new
      <4>2. Meet(f, h)
        BY <2>2, <2>4, <3>1, <4>1 DEF Meet
      <4>3. o[2] # "AUTH"
        BY <3>3, <4>1, <4>2, CredentialsOptions DEF Meet, Sides, new
      <4> QED
        BY <2>1, <2>2, <3>1, <4>2, <4>3, OverDomain, OverValue
    <3> QED
      BY <3>2, <3>3
  <2> QED
    BY <2>3, <2>4
<1>4. CASE OptionsEnd
  <2>1. /\ request' = request /\ position' = position
        /\ easy' = Option("origin", {"FORBID_REUSE"}, closing) ++ easy
    BY <1>4 DEF OptionsEnd
  <2>2. \A f : Done(f)' <=> Done(f)
    BY <2>1 DEF Done
  <2>3. ASSUME NEW f \in Listed, NEW o \in DOMAIN OptionsOf(f, request[f])
        PROVE  o \notin DOMAIN Option("origin", {"FORBID_REUSE"}, closing)
    <3>1. o[2] \in Names(f)
      BY OptionsNamed DEF Within
    <3>2. "FORBID_REUSE" \notin Names(f)
      BY ListedFields, PlainFields DEF Names, Plain, AuthNames, TlsNames, IdentityNames
    <3> QED
      BY <3>1, <3>2, OptionDomain, OptionValue
  <2> QED
    BY <2>1, <2>2, <2>3, OverDomain, OverValue DEF Kept
<1>5. CASE UNCHANGED configureVars
  BY <1>5 DEF configureVars, Kept, Done
<1> QED
  BY <1>1, <1>2, <1>3, <1>4, <1>5, HandledSteps

(* Every step of the client keeps Sourced.                                  *)
LEMMA SourcedStep == Places /\ Sourced /\ [Next]_clientVars => Sourced'
<1> SUFFICES ASSUME Places, Sourced, [Next]_clientVars PROVE Sourced'
  OBVIOUS
<1> USE DEF requestConfig, handleVars
<1>1. CASE ~Handled'
  BY <1>1, PlacesStep, NoHandle, PTL DEF Places
<1>2. CASE Send
  <2>1. easy' = Option("origin", {"NOSIGNAL"}, TRUE)
    BY <1>2 DEF Send
  <2>2. \A o \in DOMAIN easy' : o[2] = "NOSIGNAL"
    BY <2>1 DEF Option
  <2> QED
    BY <2>2 DEF Sourced
<1>3. ASSUME NEW h \in Field, SetOption(h) PROVE Sourced'
  <2>1. request' = request /\ easy' = OptionsOf(h, request[h]) ++ easy
    BY <1>3 DEF SetOption
  <2>2. h \in Listed /\ Done(h)' /\ \A g : Done(g) => Done(g)'
    BY <1>3, OneMoreDone
  <2>3. ASSUME NEW o \in DOMAIN easy'
        PROVE  o[2] \in {"NOSIGNAL", "FORBID_REUSE"} \/ \E f \in Listed : Done(f)' /\ o \in DOMAIN OptionsOf(f, request[f])
    <3>1. o \in DOMAIN OptionsOf(h, request[h]) \/ o \in DOMAIN easy
      BY <2>1, OverDomain, OverValue
    <3> QED
      BY <2>2, <3>1 DEF Sourced
  <2> QED
    BY <2>1, <2>3 DEF Sourced
<1>4. CASE OptionsEnd
  <2>1. /\ request' = request /\ position' = position
        /\ easy' = Option("origin", {"FORBID_REUSE"}, closing) ++ easy
    BY <1>4 DEF OptionsEnd
  <2>2. \A f : Done(f)' <=> Done(f)
    BY <2>1 DEF Done
  <2>3. \A o \in DOMAIN easy' : o[2] = "FORBID_REUSE" \/ o \in DOMAIN easy
    BY <2>1, OverDomain, OverValue, OptionDomain, OptionValue
  <2> QED
    BY <2>1, <2>2, <2>3 DEF Sourced
<1>5. CASE UNCHANGED configureVars
  BY <1>5 DEF configureVars, Sourced, Done
<1> QED
  BY <1>1, <1>2, <1>3, <1>4, <1>5, HandledSteps

(* Every step of the client keeps BlobsAreKept: the blobs that a field adds *)
(* go before the older ones, as its options do.                             *)
LEMMA BlobsStep == Places /\ BlobsAreKept /\ [Next]_clientVars => BlobsAreKept'
<1> SUFFICES ASSUME Places, BlobsAreKept, [Next]_clientVars PROVE BlobsAreKept'
  OBVIOUS
<1> USE DEF requestConfig, handleVars
<1>1. CASE ~Handled'
  BY <1>1, PlacesStep, NoHandle, PTL DEF Places
<1>2. CASE Send
  <2>1. easy' = Option("origin", {"NOSIGNAL"}, TRUE)
    BY <1>2 DEF Send
  <2>2. \A o \in DOMAIN easy' : o[2] = "NOSIGNAL"
    BY <2>1 DEF Option
  <2> QED
    BY <2>2 DEF BlobsAreKept, IsBlob
<1>3. ASSUME NEW h \in Field, SetOption(h) PROVE BlobsAreKept'
  <2> DEFINE new == OptionsOf(h, request[h])
             kept == [o \in {p \in DOMAIN new : IsBlob(p)} |-> new[o]]
  <2>1. easy' = new ++ easy /\ blobs' = kept ++ blobs
    BY <1>3 DEF SetOption, Keep
  <2>2. DOMAIN kept = {p \in DOMAIN new : IsBlob(p)} /\ \A o \in DOMAIN kept : kept[o] = new[o]
    OBVIOUS
  <2> HIDE DEF new, kept
  <2>3. ASSUME NEW o \in DOMAIN easy', IsBlob(o) PROVE o \in DOMAIN blobs' /\ blobs'[o] = easy'[o]
    <3>1. CASE o \in DOMAIN new
      BY <2>1, <2>2, <2>3, <3>1, OverDomain, OverValue
    <3>2. CASE o \notin DOMAIN new
      BY <2>1, <2>2, <2>3, <3>2, OverDomain, OverValue DEF BlobsAreKept
    <3> QED
      BY <3>1, <3>2
  <2> QED
    BY <2>3 DEF BlobsAreKept, IsBlob
<1>4. CASE OptionsEnd
  <2>1. blobs' = blobs /\ easy' = Option("origin", {"FORBID_REUSE"}, closing) ++ easy
    BY <1>4 DEF OptionsEnd
  <2>2. \A o \in DOMAIN easy' : o[2] = "FORBID_REUSE" \/ (o \in DOMAIN easy /\ easy'[o] = easy[o])
    BY <2>1, OverDomain, OverValue, OptionDomain, OptionValue
  <2> QED
    BY <2>1, <2>2 DEF BlobsAreKept, IsBlob
<1>5. CASE UNCHANGED configureVars
  BY <1>5 DEF configureVars, BlobsAreKept, IsBlob
<1> QED
  BY <1>1, <1>2, <1>3, <1>4, <1>5, HandledSteps

----------------------------------------------------------------------------
(* The value that options give to a name of their side.                     *)
Has(options, o, x) == o \in DOMAIN options /\ options[o] = x

Lacks(options, side, n) == <<side, n>> \notin DOMAIN options

(* An option has the value it was set to.                                   *)
LEMMA HasNamed ==
    ASSUME NEW side, NEW n, NEW v
    PROVE  Has(Option(side, {n}, v), <<side, n>>, v)
BY DEF Has, Option

(* Of all names, only those that are set have the value.                    *)
LEMMA ValueOption ==
    ASSUME NEW side, NEW names, NEW v, NEW n
    PROVE  ValueIn(Option(side, names, v), side, n) = IF n \in names THEN v ELSE None
BY DEF ValueIn, Option

(* No name has one when nothing is set.                                     *)
LEMMA ValueNothing ==
    ASSUME NEW side, NEW n
    PROVE  ValueIn(NoOption, side, n) = None
BY NoOptionIsEmpty DEF ValueIn

(* A condition decides whether the names have values.                       *)
LEMMA ValueWhen ==
    ASSUME NEW condition, NEW options, NEW side, NEW n
    PROVE  ValueIn(When(condition, options), side, n) = IF condition THEN ValueIn(options, side, n) ELSE None
BY ValueNothing DEF When

(* A value that may be None sets its option or leaves it without a value.   *)
LEMMA ValueOptional ==
    ASSUME NEW side, NEW n, NEW v
    PROVE  ValueIn(When(v # None, Option(side, {n}, v)), side, n) = v
<1>1. ValueIn(Option(side, {n}, v), side, n) = v
  BY ValueOption
<1>2. CASE v # None
  BY <1>1, <1>2 DEF When
<1>3. CASE v = None
  BY <1>3, ValueNothing DEF When
<1> QED
  BY <1>2, <1>3

(* Where one of two sets of options lacks a name, the other decides.        *)
LEMMA ValueOver ==
    ASSUME NEW f, NEW g, NEW side, NEW n
    PROVE  /\ Lacks(Over(f, g), side, n) <=> Lacks(f, side, n) /\ Lacks(g, side, n)
           /\ Lacks(f, side, n) => ValueIn(Over(f, g), side, n) = ValueIn(g, side, n)
           /\ Lacks(g, side, n) => ValueIn(Over(f, g), side, n) = ValueIn(f, side, n)
<1> DEFINE o == <<side, n>>
<1>1. o \in DOMAIN Over(f, g) <=> o \in DOMAIN f \/ o \in DOMAIN g
  BY OverDomain
<1>2. o \in DOMAIN Over(f, g) => Over(f, g)[o] = IF o \in DOMAIN f THEN f[o] ELSE g[o]
  BY <1>1, OverValue
<1> QED
  BY <1>1, <1>2 DEF Lacks, ValueIn

(* Options lack the names that they are not within.                         *)
LEMMA OutOfNames ==
    ASSUME NEW options, NEW side, NEW names, Within(options, side, names), NEW n, n \notin names
    PROVE  Lacks(options, side, n)
BY DEF Within, Lacks

(* A name that only one of seven sets of options may have is decided by it. *)
LEMMA ValueOverSeven ==
    ASSUME NEW a, NEW b, NEW c, NEW d, NEW e, NEW f, NEW g, NEW side, NEW n
    PROVE  LET L(x) == Lacks(x, side, n)
               all == Over(Over(Over(Over(Over(Over(a, b), c), d), e), f), g)
               V(x) == ValueIn(all, side, n) = ValueIn(x, side, n) /\ (L(all) <=> L(x))
           IN  /\ L(b) /\ L(c) /\ L(d) /\ L(e) /\ L(f) /\ L(g) => V(a)
               /\ L(a) /\ L(c) /\ L(d) /\ L(e) /\ L(f) /\ L(g) => V(b)
               /\ L(a) /\ L(b) /\ L(d) /\ L(e) /\ L(f) /\ L(g) => V(c)
               /\ L(a) /\ L(b) /\ L(c) /\ L(e) /\ L(f) /\ L(g) => V(d)
               /\ L(a) /\ L(b) /\ L(c) /\ L(d) /\ L(f) /\ L(g) => V(e)
               /\ L(a) /\ L(b) /\ L(c) /\ L(d) /\ L(e) /\ L(g) => V(f)
               /\ L(a) /\ L(b) /\ L(c) /\ L(d) /\ L(e) /\ L(f) => V(g)
<1> DEFINE ab == Over(a, b)
           abc == Over(ab, c)
           abcd == Over(abc, d)
           abcde == Over(abcd, e)
           abcdef == Over(abcde, f)
           all == Over(abcdef, g)
           L(x) == Lacks(x, side, n)
           V(x) == ValueIn(x, side, n)
           Joined(x, y, xy) == (L(xy) <=> L(x) /\ L(y)) /\ (L(x) => V(xy) = V(y)) /\ (L(y) => V(xy) = V(x))
<1>1. /\ Joined(a, b, ab) /\ Joined(ab, c, abc) /\ Joined(abc, d, abcd) /\ Joined(abcd, e, abcde)
      /\ Joined(abcde, f, abcdef) /\ Joined(abcdef, g, all)
  <2>1. ASSUME NEW x, NEW y PROVE Joined(x, y, Over(x, y))
    BY ValueOver
  <2> HIDE DEF Joined
  <2> QED
    BY <2>1
<1> HIDE DEF ab, abc, abcd, abcde, abcdef, all, L, V
<1>2. /\ L(b) /\ L(c) /\ L(d) /\ L(e) /\ L(f) /\ L(g) => V(all) = V(a) /\ (L(all) <=> L(a))
      /\ L(a) /\ L(c) /\ L(d) /\ L(e) /\ L(f) /\ L(g) => V(all) = V(b) /\ (L(all) <=> L(b))
      /\ L(a) /\ L(b) /\ L(d) /\ L(e) /\ L(f) /\ L(g) => V(all) = V(c) /\ (L(all) <=> L(c))
      /\ L(a) /\ L(b) /\ L(c) /\ L(e) /\ L(f) /\ L(g) => V(all) = V(d) /\ (L(all) <=> L(d))
      /\ L(a) /\ L(b) /\ L(c) /\ L(d) /\ L(f) /\ L(g) => V(all) = V(e) /\ (L(all) <=> L(e))
      /\ L(a) /\ L(b) /\ L(c) /\ L(d) /\ L(e) /\ L(g) => V(all) = V(f) /\ (L(all) <=> L(f))
      /\ L(a) /\ L(b) /\ L(c) /\ L(d) /\ L(e) /\ L(f) => V(all) = V(g) /\ (L(all) <=> L(g))
  BY <1>1
<1> QED
  BY <1>2 DEF ab, abc, abcd, abcde, abcdef, all, L, V

(* What the dialer, the protocol, the network and the DNS cache become.     *)
LEMMA DialerValues ==
    ASSUME NEW v
    PROVE  /\ ValueIn(Dialer(v), "origin", "CONNECT_TO") = IF v = "ip" THEN v ELSE None
           /\ ValueIn(Dialer(v), "origin", "UNIX_SOCKET_PATH") = IF v = "unix" THEN v ELSE None
<1> DEFINE ip == Option("origin", {"CONNECT_TO"}, IF v = "ip" THEN v ELSE None)
           unix == Option("origin", {"UNIX_SOCKET_PATH"}, IF v = "unix" THEN v ELSE None)
<1>1. Dialer(v) = Over(ip, unix)
  BY DEF Dialer
<1>2. Within(ip, "origin", {"CONNECT_TO"}) /\ Within(unix, "origin", {"UNIX_SOCKET_PATH"})
  BY WithinOption
<1>3. /\ ValueIn(ip, "origin", "CONNECT_TO") = IF v = "ip" THEN v ELSE None
      /\ ValueIn(unix, "origin", "UNIX_SOCKET_PATH") = IF v = "unix" THEN v ELSE None
  BY ValueOption
<1> HIDE DEF ip, unix
<1>4. Lacks(unix, "origin", "CONNECT_TO") /\ Lacks(ip, "origin", "UNIX_SOCKET_PATH")
  BY <1>2, OutOfNames
<1> QED
  BY <1>1, <1>3, <1>4, ValueOver

(* What a private key becomes.                                              *)
KeyNames == {"KEYTYPE", "KEY", "KEY_BLOB", "KEYPASSWD"}

LEMMA KeyValues ==
    ASSUME NEW side, NEW v
    PROVE  LET V(n) == ValueIn(PrivateKey(side, v), side, n) IN
           /\ Within(PrivateKey(side, v), side, KeyNames)
           /\ V("KEYTYPE") = v.format
           /\ V("KEY") = IF IsFile(v.data) THEN v.data ELSE None
           /\ V("KEY_BLOB") = IF IsFile(v.data) THEN None ELSE v.data
           /\ V("KEYPASSWD") = v.password
<1> DEFINE format == Option(side, {"KEYTYPE"}, v.format)
           data == Option(side, {IF IsFile(v.data) THEN "KEY" ELSE "KEY_BLOB"}, v.data)
           password == Password(side, v.password)
           all == PrivateKey(side, v)
           DataNames == {"KEY", "KEY_BLOB"}
           V(x, n) == ValueIn(x, side, n)
<1>1. all = Over(Over(format, data), password)
  BY DEF PrivateKey
<1>2. Within(format, side, {"KEYTYPE"}) /\ Within(data, side, DataNames) /\ Within(password, side, {"KEYPASSWD"})
  BY WithinOption, WithinWhen DEF Password
<1>3. Within(format, side, KeyNames) /\ Within(data, side, KeyNames) /\ Within(password, side, KeyNames)
  BY WithinOption, WithinWhen DEF Password, KeyNames
<1>4. /\ V(format, "KEYTYPE") = v.format
      /\ V(data, "KEY") = IF IsFile(v.data) THEN v.data ELSE None
      /\ V(data, "KEY_BLOB") = IF IsFile(v.data) THEN None ELSE v.data
      /\ V(password, "KEYPASSWD") = v.password
  <2>1. V(format, "KEYTYPE") = v.format
    BY ValueOption
  <2>2. ASSUME NEW n PROVE V(data, n) = IF n \in {IF IsFile(v.data) THEN "KEY" ELSE "KEY_BLOB"} THEN v.data ELSE None
    BY ValueOption
  <2>3. V(password, "KEYPASSWD") = v.password
    BY ValueOptional DEF Password
  <2> HIDE DEF format, data, password
  <2> QED
    BY <2>1, <2>2, <2>3
<1> HIDE DEF format, data, password, all
<1>5. Within(all, side, KeyNames)
  BY <1>1, <1>3, WithinOverride
<1>6. ASSUME NEW n
      PROVE  /\ n \notin {"KEYTYPE"} => Lacks(format, side, n)
             /\ n \notin {"KEY", "KEY_BLOB"} => Lacks(data, side, n)
             /\ n \notin {"KEYPASSWD"} => Lacks(password, side, n)
  BY <1>2, OutOfNames
<1>7. ASSUME NEW n
      PROVE  /\ n = "KEYTYPE" => V(all, n) = V(format, n)
             /\ n \in {"KEY", "KEY_BLOB"} => V(all, n) = V(data, n)
             /\ n = "KEYPASSWD" => V(all, n) = V(password, n)
  BY <1>1, <1>6, ValueOver
<1> QED
  BY <1>4, <1>5, <1>7 DEF all

(* What a client certificate becomes, with a key or a password of its own.  *)
LEMMA IdentityValues ==
    ASSUME NEW side, NEW v
    PROVE  LET V(n) == ValueIn(Identity(side, v), side, n)
               key == IF v.key = None THEN NoOption ELSE PrivateKey(side, v.key)
           IN
           /\ Within(Identity(side, v), side, IdentityNames)
           /\ V("CERTTYPE") = v.format
           /\ V("CERT") = IF IsFile(v.data) THEN v.data ELSE None
           /\ V("CERT_BLOB") = IF IsFile(v.data) THEN None ELSE v.data
           /\ \A n \in {"KEYTYPE", "KEY", "KEY_BLOB"} : V(n) = ValueIn(key, side, n)
           /\ v.key = None => V("KEYPASSWD") = v.password
           /\ v.key # None /\ v.password = None => V("KEYPASSWD") = v.key.password
<1> DEFINE password == Password(side, v.password)
           format == Option(side, {"CERTTYPE"}, v.format)
           data == Option(side, {IF IsFile(v.data) THEN "CERT" ELSE "CERT_BLOB"}, v.data)
           key == IF v.key = None THEN NoOption ELSE PrivateKey(side, v.key)
           all == Identity(side, v)
           V(x, n) == ValueIn(x, side, n)
<1>1. all = Over(Over(Over(password, format), data), key)
  BY DEF Identity
<1>2. /\ Within(password, side, {"KEYPASSWD"}) /\ Within(format, side, {"CERTTYPE"}) /\ Within(data, side, {"CERT", "CERT_BLOB"})
  BY WithinOption, WithinWhen DEF Password
<1>3. Within(key, side, KeyNames)
  BY KeyValues, NoOptionIsEmpty DEF Within
<1>4. /\ V(password, "KEYPASSWD") = v.password
      /\ V(format, "CERTTYPE") = v.format
      /\ V(data, "CERT") = IF IsFile(v.data) THEN v.data ELSE None
      /\ V(data, "CERT_BLOB") = IF IsFile(v.data) THEN None ELSE v.data
  <2>1. V(format, "CERTTYPE") = v.format
    BY ValueOption
  <2>2. ASSUME NEW n PROVE V(data, n) = IF n \in {IF IsFile(v.data) THEN "CERT" ELSE "CERT_BLOB"} THEN v.data ELSE None
    BY ValueOption
  <2>3. V(password, "KEYPASSWD") = v.password
    BY ValueOptional DEF Password
  <2> HIDE DEF format, data, password
  <2> QED
    BY <2>1, <2>2, <2>3
<1>5. v.key = None => Lacks(key, side, "KEYPASSWD")
  BY NoOptionIsEmpty DEF Lacks
<1>6. v.key # None => V(key, "KEYPASSWD") = v.key.password
  BY KeyValues
<1>7. v.password = None => Lacks(password, side, "KEYPASSWD")
  BY NoOptionIsEmpty DEF Lacks, Password, When
<1> HIDE DEF password, format, data, key, all
<1>8. ASSUME NEW n
      PROVE  /\ n \notin {"KEYPASSWD"} => Lacks(password, side, n)
             /\ n \notin {"CERTTYPE"} => Lacks(format, side, n)
             /\ n \notin {"CERT", "CERT_BLOB"} => Lacks(data, side, n)
             /\ n \notin KeyNames => Lacks(key, side, n)
  BY <1>2, <1>3, OutOfNames
<1>9. ASSUME NEW n
      PROVE  /\ n = "CERTTYPE" => V(all, n) = V(format, n)
             /\ n \in {"CERT", "CERT_BLOB"} => V(all, n) = V(data, n)
             /\ n \in {"KEYTYPE", "KEY", "KEY_BLOB"} => V(all, n) = V(key, n)
             /\ n = "KEYPASSWD" /\ Lacks(key, side, n) => V(all, n) = V(password, n)
             /\ n = "KEYPASSWD" /\ Lacks(password, side, n) => V(all, n) = V(key, n)
  BY <1>1, <1>8, ValueOver DEF KeyNames
<1>10. Within(all, side, IdentityNames)
  <2>1. /\ Within(password, side, IdentityNames) /\ Within(format, side, IdentityNames)
        /\ Within(data, side, IdentityNames) /\ Within(key, side, IdentityNames)
    BY <1>2, <1>3 DEF Within, IdentityNames, KeyNames
  <2> QED
    BY <1>1, <2>1, WithinOverride
<1> QED
  BY <1>4, <1>5, <1>6, <1>7, <1>9, <1>10 DEF all, key

(* What a trust store becomes: one of its options, nulls or nothing.        *)
TrustNames == {"CAINFO", "CAPATH", "CAINFO_BLOB"}

LEMMA TrustValues ==
    ASSUME NEW side, NEW v
    PROVE  LET V(n) == ValueIn(TrustStore(side, v), side, n)
               kept == v \in {"noop", "native", "unset"}
           IN
           /\ Within(TrustStore(side, v), side, TrustNames)
           /\ V("CAINFO") = IF ~kept /\ IsFile(v) THEN v ELSE None
           /\ V("CAINFO_BLOB") = IF ~kept /\ ~IsFile(v) THEN v ELSE None
           /\ V("CAPATH") = None
           /\ v = "unset" => ~Lacks(TrustStore(side, v), side, "CAINFO") /\ ~Lacks(TrustStore(side, v), side, "CAPATH")
<1>1. CASE v \in {"noop", "native"}
  BY <1>1, ValueNothing, NoOptionIsEmpty DEF TrustStore, Within, IsFile
<1>2. CASE v = "unset"
  <2>1. TrustStore(side, v) = Option(side, {"CAINFO", "CAPATH"}, None)
    BY <1>2 DEF TrustStore, IsFile
  <2>2. ~Lacks(TrustStore(side, v), side, "CAINFO") /\ ~Lacks(TrustStore(side, v), side, "CAPATH")
    BY <2>1, OptionDomain DEF Lacks
  <2> QED
    BY <1>2, <2>1, <2>2, ValueOption, WithinOption DEF TrustNames
<1>3. CASE v \notin {"noop", "native", "unset"} /\ IsFile(v)
  <2>1. TrustStore(side, v) = Option(side, {"CAINFO"}, v)
    BY <1>3 DEF TrustStore
  <2> QED
    BY <1>3, <2>1, ValueOption, WithinOption DEF TrustNames
<1>4. CASE v \notin {"noop", "native", "unset"} /\ ~IsFile(v)
  <2>1. TrustStore(side, v) = Option(side, {"CAINFO_BLOB"}, v)
    BY <1>4 DEF TrustStore
  <2> QED
    BY <1>4, <2>1, ValueOption, WithinOption DEF TrustNames
<1> QED
  BY <1>1, <1>2, <1>3, <1>4

(* What a TLS configuration becomes: no two of its parts share a name.      *)
LEMMA TlsConfigValues ==
    ASSUME NEW side, NEW v
    PROVE  LET V(n) == ValueIn(TlsConfig(side, v), side, n)
               identity == IF v.identity = None THEN NoOption ELSE Identity(side, v.identity)
           IN
           /\ V("CIPHER_LIST") = v.ciphers
           /\ V("OPTIONS") = TlsFlags(v)
           /\ side = "origin" => V("VERIFYPEER") = ~v.acceptCerts /\ V("VERIFYHOST") = ~v.acceptHosts
           /\ V("VERSION") = <<v.min, v.max>>
           /\ \A n \in TrustNames :
                  V(n) = ValueIn(TrustStore(side, v.trust), side, n) /\
                  (Lacks(TlsConfig(side, v), side, n) <=> Lacks(TrustStore(side, v.trust), side, n))
           /\ V("ISSUERCERT_BLOB") = v.issuer
           /\ \A n \in IdentityNames : V(n) = ValueIn(identity, side, n)
<1> DEFINE ciphers == When(v.ciphers # None, Option(side, {"CIPHER_LIST"}, v.ciphers))
           flags == Option(side, {"OPTIONS"}, TlsFlags(v))
           verify == Verify(side, v)
           versions == Option(side, {"VERSION"}, <<v.min, v.max>>)
           trust == TrustStore(side, v.trust)
           issuer == When(v.issuer # None, Option(side, {"ISSUERCERT_BLOB"}, v.issuer))
           identity == IF v.identity = None THEN NoOption ELSE Identity(side, v.identity)
           all == TlsConfig(side, v)
           V(x, n) == ValueIn(x, side, n)
<1>1. all = Over(Over(Over(Over(Over(Over(ciphers, flags), verify), versions), trust), issuer), identity)
  BY DEF TlsConfig
<1>2. /\ Within(ciphers, side, {"CIPHER_LIST"}) /\ Within(flags, side, {"OPTIONS"})
      /\ Within(versions, side, {"VERSION"}) /\ Within(issuer, side, {"ISSUERCERT_BLOB"})
  BY WithinOption, WithinWhen
<1>3. Within(trust, side, TrustNames)
  BY TrustValues
<1>4. Within(identity, side, IdentityNames)
  BY IdentityValues, NoOptionIsEmpty DEF Within
<1>5. /\ V(ciphers, "CIPHER_LIST") = v.ciphers /\ V(flags, "OPTIONS") = TlsFlags(v)
      /\ V(versions, "VERSION") = <<v.min, v.max>> /\ V(issuer, "ISSUERCERT_BLOB") = v.issuer
  <2>1. V(flags, "OPTIONS") = TlsFlags(v) /\ V(versions, "VERSION") = <<v.min, v.max>>
    BY ValueOption
  <2>2. V(ciphers, "CIPHER_LIST") = v.ciphers /\ V(issuer, "ISSUERCERT_BLOB") = v.issuer
    <3>1. ASSUME NEW n, NEW x PROVE V(When(x # None, Option(side, {n}, x)), n) = x
      BY ValueOptional
    <3> QED
      BY <3>1
  <2> QED
    BY <2>1, <2>2
<1>6. /\ Within(verify, side, {"VERIFYPEER", "VERIFYHOST"})
      /\ side = "origin" => V(verify, "VERIFYPEER") = ~v.acceptCerts /\ V(verify, "VERIFYHOST") = ~v.acceptHosts
  <2> DEFINE peer == Option(side, {"VERIFYPEER"}, IF side = "origin" THEN ~v.acceptCerts ELSE v.acceptCerts)
             host == Option(side, {"VERIFYHOST"}, IF side = "origin" THEN ~v.acceptHosts ELSE v.acceptHosts)
  <2>1. verify = Over(peer, host)
    BY DEF Verify
  <2>2. /\ Within(peer, side, {"VERIFYPEER", "VERIFYHOST"}) /\ Within(host, side, {"VERIFYPEER", "VERIFYHOST"})
        /\ Within(peer, side, {"VERIFYPEER"}) /\ Within(host, side, {"VERIFYHOST"})
    BY WithinOption
  <2>3. /\ V(peer, "VERIFYPEER") = IF side = "origin" THEN ~v.acceptCerts ELSE v.acceptCerts
        /\ V(host, "VERIFYHOST") = IF side = "origin" THEN ~v.acceptHosts ELSE v.acceptHosts
    BY ValueOption
  <2> HIDE DEF peer, host, verify
  <2>4. Lacks(host, side, "VERIFYPEER") /\ Lacks(peer, side, "VERIFYHOST")
    BY <2>2, OutOfNames
  <2>5. V(verify, "VERIFYPEER") = V(peer, "VERIFYPEER") /\ V(verify, "VERIFYHOST") = V(host, "VERIFYHOST")
    BY <2>1, <2>4, ValueOver
  <2> QED
    BY <2>1, <2>2, <2>3, <2>5, WithinOverride
<1> HIDE DEF ciphers, flags, verify, versions, trust, issuer, identity, all
<1>7. ASSUME NEW n
      PROVE  /\ n \notin {"CIPHER_LIST"} => Lacks(ciphers, side, n)
             /\ n \notin {"OPTIONS"} => Lacks(flags, side, n)
             /\ n \notin {"VERIFYPEER", "VERIFYHOST"} => Lacks(verify, side, n)
             /\ n \notin {"VERSION"} => Lacks(versions, side, n)
             /\ n \notin TrustNames => Lacks(trust, side, n)
             /\ n \notin {"ISSUERCERT_BLOB"} => Lacks(issuer, side, n)
             /\ n \notin IdentityNames => Lacks(identity, side, n)
  BY <1>2, <1>3, <1>4, <1>6, OutOfNames
<1>8. ASSUME NEW n
      PROVE  /\ n = "CIPHER_LIST" => V(all, n) = V(ciphers, n)
             /\ n = "OPTIONS" => V(all, n) = V(flags, n)
             /\ n \in {"VERIFYPEER", "VERIFYHOST"} => V(all, n) = V(verify, n)
             /\ n = "VERSION" => V(all, n) = V(versions, n)
             /\ n \in TrustNames => V(all, n) = V(trust, n) /\ (Lacks(all, side, n) <=> Lacks(trust, side, n))
             /\ n = "ISSUERCERT_BLOB" => V(all, n) = V(issuer, n)
             /\ n \in IdentityNames => V(all, n) = V(identity, n)
  <2> DEFINE L(x) == Lacks(x, side, n)
             Decides(x) == V(all, n) = V(x, n) /\ (L(all) <=> L(x))
  <2>1. /\ L(flags) /\ L(verify) /\ L(versions) /\ L(trust) /\ L(issuer) /\ L(identity) => Decides(ciphers)
        /\ L(ciphers) /\ L(verify) /\ L(versions) /\ L(trust) /\ L(issuer) /\ L(identity) => Decides(flags)
        /\ L(ciphers) /\ L(flags) /\ L(versions) /\ L(trust) /\ L(issuer) /\ L(identity) => Decides(verify)
        /\ L(ciphers) /\ L(flags) /\ L(verify) /\ L(trust) /\ L(issuer) /\ L(identity) => Decides(versions)
        /\ L(ciphers) /\ L(flags) /\ L(verify) /\ L(versions) /\ L(issuer) /\ L(identity) => Decides(trust)
        /\ L(ciphers) /\ L(flags) /\ L(verify) /\ L(versions) /\ L(trust) /\ L(identity) => Decides(issuer)
        /\ L(ciphers) /\ L(flags) /\ L(verify) /\ L(versions) /\ L(trust) /\ L(issuer) => Decides(identity)
    BY <1>1, ValueOverSeven
  <2> QED
    BY <1>7, <2>1 DEF TrustNames, IdentityNames
<1> QED
  BY <1>5, <1>6, <1>8 DEF all, trust, identity

----------------------------------------------------------------------------
(* When all options are set, every field that has a value has been done.    *)
LEMMA AllDone ==
    ASSUME Places, phase = "method", NEW f \in Listed
    PROVE  Done(f) <=> request[f] # None
<1>1. PICK i \in 1..25 : f = Order[i]
  BY OrderIsInjective DEF Listed
<1>2. ASSUME request[f] # None PROVE Done(f)
  <2>1. i \notin (position + 1)..25
    BY <1>1, <1>2, OrderIsInjective DEF Places, Pending
  <2>2. i \in 1..position
    BY <2>1 DEF Places
  <2> QED
    BY <1>1, <1>2, <2>2 DEF Done
<1> QED
  BY <1>2 DEF Done

(* Then curl has the options of a field, but for those that credentials     *)
(* replace.                                                                 *)
LEMMA DoneIsGiven ==
    ASSUME Handle, phase = "method", NEW f \in Listed, request[f] # None,
           NEW o \in DOMAIN OptionsOf(f, request[f]),
           (\A g \in Listed : Meet(f, g) => request[g] = None) \/ o[2] = "AUTH"
    PROVE  Given(o, OptionsOf(f, request[f])[o])
<1>1. Done(f) /\ \A g \in Listed : Meet(f, g) /\ request[g] = None => ~Done(g)
  BY AllDone DEF Handle
<1> QED
  BY <1>1 DEF Handle, Kept, Given

(* And an option that curl has comes from a field of its side that has a    *)
(* value.                                                                   *)
LEMMA GivenBySomeone ==
    ASSUME Handle, phase = "method", NEW side, NEW n, n \notin {"NOSIGNAL", "FORBID_REUSE"},
           <<side, n>> \in DOMAIN easy
    PROVE  \E f \in Listed :
               /\ request[f] # None /\ <<side, n>> \in DOMAIN OptionsOf(f, request[f])
               /\ Side(f) = side /\ Owner(n) = OriginField(f)
<1>1. PICK f \in Listed : Done(f) /\ <<side, n>> \in DOMAIN OptionsOf(f, request[f])
  BY DEF Handle, Sourced
<1>2. Side(f) = side /\ n \in Names(f)
  BY <1>1, OptionsNamed DEF Within
<1>3. Owner(n) = OriginField(f) /\ request[f] # None
  BY <1>1, <1>2, NamesOwned DEF Done
<1> QED
  BY <1>1, <1>2, <1>3

(* Curl has what one field says, when no other field may set the option.    *)
LEMMA OneField ==
    ASSUME Handle, phase = "method", NEW f \in Listed, OriginField(f) # "credentials", NEW n \in Names(f)
    PROVE  /\ Curl(Side(f), n) = IF request[f] = None THEN None ELSE ValueIn(OptionsOf(f, request[f]), Side(f), n)
           /\ request[f] # None /\ ~Lacks(OptionsOf(f, request[f]), Side(f), n) => <<Side(f), n>> \in DOMAIN easy
<1> DEFINE o == <<Side(f), n>>
           options == OptionsOf(f, request[f])
<1>1. n \notin {"NOSIGNAL", "FORBID_REUSE"}
  BY ListedFields, PlainFields DEF Names, Plain, AuthNames, TlsNames, IdentityNames
<1>2. \A g : ~Meet(f, g)
  BY DEF Meet, OriginField
<1>3. ASSUME request[f] # None, o \in DOMAIN options PROVE o \in DOMAIN easy /\ easy[o] = options[o]
  BY <1>2, <1>3, DoneIsGiven DEF Given
<1>4. ASSUME o \in DOMAIN easy PROVE request[f] # None /\ o \in DOMAIN options
  <2>1. PICK g \in Listed : /\ request[g] # None /\ o \in DOMAIN OptionsOf(g, request[g])
                            /\ Side(g) = Side(f) /\ Owner(n) = OriginField(g)
    BY <1>1, <1>4, GivenBySomeone
  <2>2. OriginField(g) = OriginField(f)
    BY <2>1, NamesOwned
  <2>3. g = f
    BY <2>1, <2>2, ListedFields DEF Side, OriginField, ProxyFieldsOf
  <2> QED
    BY <2>1, <2>3
<1> HIDE DEF options
<1>5. Curl(Side(f), n) = IF request[f] = None THEN None ELSE ValueIn(options, Side(f), n)
  BY <1>3, <1>4 DEF Curl, ValueIn
<1>6. request[f] # None /\ ~Lacks(options, Side(f), n) => o \in DOMAIN easy
  BY <1>3 DEF Lacks
<1> QED
  BY <1>5, <1>6 DEF options

(* A merged configuration is what the request, else the client, asks for.   *)
LEMMA MergedIsAsked ==
    ASSUME Handle, phase = "method", NEW f \in Listed
    PROVE  request[f] = Asked(f)
<1>1. f \in Field
  BY ListedFields DEF Field, RequestFields, ClientFields, TimeoutFields, ProtocolFields, AuthFields, NetworkFields,
     ProxyFields, SpeedFields, TlsFields, OtherFields
<1> QED
  BY <1>1 DEF Handle, Places, Handled, Merge, Asked

(* The fields whose options take their value as it is.                      *)
LEMMA PlainFollow == ASSUME Handle, phase = "method" PROVE PlainOptions
<1> SUFFICES ASSUME NEW f \in DOMAIN Plain, NEW n \in Plain[f] PROVE Curl("origin", n) = Asked(f)
  BY DEF PlainOptions
<1>1. f \in Listed /\ Side(f) = "origin" /\ OriginField(f) # "credentials" /\ n \in Names(f)
  BY ListedFields, PlainFields DEF Side, ProxyFieldsOf, OriginField, Names
<1>2. OptionsOf(f, request[f]) = Option("origin", Plain[f], request[f])
  BY PlainFields DEF OptionsOf
<1>3. Curl("origin", n) = IF request[f] = None THEN None ELSE ValueIn(OptionsOf(f, request[f]), "origin", n)
  BY <1>1, OneField
<1>4. ValueIn(OptionsOf(f, request[f]), "origin", n) = request[f]
  BY <1>2, ValueOption
<1> QED
  BY <1>1, <1>3, <1>4, MergedIsAsked

(* The options of one field that is not plain and not of TLS.               *)
LEMMA SingleField ==
    ASSUME Handle, phase = "method", NEW f \in Listed, NEW n \in Names(f),
           f \in {"version_negotiation", "automatic_decompression", "expect_continue", "interface", "dial", "proxy", "dns_cache"}
    PROVE  Curl("origin", n) = IF Asked(f) = None THEN None ELSE ValueIn(OptionsOf(f, Asked(f)), "origin", n)
<1>1. Side(f) = "origin" /\ OriginField(f) # "credentials"
  BY DEF Side, ProxyFieldsOf, OriginField
<1> QED
  BY <1>1, OneField, MergedIsAsked

(* The version, the decompression and the expectation of 100 Continue.      *)
LEMMA HttpFollow == ASSUME Handle, phase = "method" PROVE HttpOptions
<1>0. None \notin {"latest", "disable", "forever", "all"}
  BY ConfigureAssumption
<1>1. Curl("origin", "HTTP_VERSION") =
         LET v == Asked("version_negotiation") IN IF v # "latest" THEN v ELSE IF Http2Supported THEN "V2TLS" ELSE None
  <2> DEFINE v == Asked("version_negotiation")
  <2>1. Curl("origin", "HTTP_VERSION") = IF v = None THEN None ELSE ValueIn(VersionNegotiation(v), "origin", "HTTP_VERSION")
    BY SingleField, ListedFields, PlainFields DEF OptionsOf, Names
  <2> HIDE DEF v
  <2>2. ValueIn(VersionNegotiation(v), "origin", "HTTP_VERSION") = IF v # "latest" THEN v ELSE IF Http2Supported THEN "V2TLS" ELSE None
    BY ValueOption, ValueWhen DEF VersionNegotiation
  <2> QED
    BY <1>0, <2>1, <2>2 DEF v
<1>2. Curl("origin", "ACCEPT_ENCODING") = IF Asked("automatic_decompression") THEN "all" ELSE None
  <2> DEFINE v == Asked("automatic_decompression")
  <2>1. v \in BOOLEAN /\ v # None
    <3>1. v = request["automatic_decompression"]
      BY MergedIsAsked, ListedFields
    <3>2. Switch(request) \in BOOLEAN
      BY DEF Handle, Places, Handled, Switch, Merge, Field, RequestFields, ProtocolFields
    <3> QED
      BY <3>1, <3>2, ConfigureAssumption DEF Switch
  <2>2. Curl("origin", "ACCEPT_ENCODING") = IF v = None THEN None ELSE ValueIn(AutomaticDecompression(v), "origin", "ACCEPT_ENCODING")
    BY SingleField, ListedFields, PlainFields DEF OptionsOf, Names
  <2> HIDE DEF v
  <2>3. ValueIn(AutomaticDecompression(v), "origin", "ACCEPT_ENCODING") = IF v THEN "all" ELSE None
    BY ValueOption DEF AutomaticDecompression
  <2> QED
    BY <2>1, <2>2, <2>3 DEF v
<1>3. Curl("origin", "EXPECT_100_TIMEOUT") = IF Asked("expect_continue") = "disabled" THEN None ELSE Asked("expect_continue")
  <2> DEFINE v == Asked("expect_continue")
  <2>1. Curl("origin", "EXPECT_100_TIMEOUT") = IF v = None THEN None ELSE ValueIn(ExpectContinue(v), "origin", "EXPECT_100_TIMEOUT")
    BY SingleField, ListedFields, PlainFields DEF OptionsOf, Names
  <2> HIDE DEF v
  <2>2. ValueIn(ExpectContinue(v), "origin", "EXPECT_100_TIMEOUT") = IF v # "disabled" THEN v ELSE None
    <3>1. ValueIn(Option("origin", {"EXPECT_100_TIMEOUT"}, v), "origin", "EXPECT_100_TIMEOUT") = v
      BY ValueOption
    <3> QED
      BY <3>1, ValueNothing DEF ExpectContinue, When
  <2> QED
    BY <2>1, <2>2 DEF v
<1> QED
  BY <1>1, <1>2, <1>3 DEF HttpOptions

(* The interface, the dialer, the proxy, the DNS cache and the connections. *)
LEMMA NetworkFollow == ASSUME Handle, phase = "method" PROVE NetworkOptions
<1>0. None \notin {"latest", "disable", "forever", "all"}
  BY ConfigureAssumption
<1>1. Curl("origin", "INTERFACE") = IF Asked("interface") = "any" THEN None ELSE Asked("interface")
  <2> DEFINE v == Asked("interface")
  <2>1. Curl("origin", "INTERFACE") = IF v = None THEN None ELSE ValueIn(Interface(v), "origin", "INTERFACE")
    BY SingleField, ListedFields, PlainFields DEF OptionsOf, Names
  <2> HIDE DEF v
  <2>2. ValueIn(Interface(v), "origin", "INTERFACE") = IF v = "any" THEN None ELSE v
    BY ValueOption DEF Interface
  <2> QED
    BY <2>1, <2>2 DEF v
<1>2. /\ Curl("origin", "CONNECT_TO") = IF Asked("dial") = "ip" THEN Asked("dial") ELSE None
      /\ Curl("origin", "UNIX_SOCKET_PATH") = IF Asked("dial") = "unix" THEN Asked("dial") ELSE None
  <2> DEFINE v == Asked("dial")
  <2>1. ASSUME NEW n \in {"CONNECT_TO", "UNIX_SOCKET_PATH"}
        PROVE  Curl("origin", n) = IF v = None THEN None ELSE ValueIn(Dialer(v), "origin", n)
    BY SingleField, ListedFields, PlainFields DEF OptionsOf, Names
  <2> HIDE DEF v
  <2> QED
    BY <2>1, DialerValues DEF v
<1>3. Curl("origin", "PROXY") = Asked("proxy")
  <2> DEFINE v == Asked("proxy")
  <2>1. Curl("origin", "PROXY") = IF v = None THEN None ELSE ValueIn(Proxy(v), "origin", "PROXY")
    BY SingleField, ListedFields, PlainFields DEF OptionsOf, Names
  <2> HIDE DEF v
  <2>2. ValueIn(Proxy(v), "origin", "PROXY") = v
    BY ValueOption DEF Proxy
  <2> QED
    BY <2>1, <2>2 DEF v
<1>4. Curl("origin", "DNS_CACHE_TIMEOUT") =
         LET v == Asked("dns_cache") IN CASE v = "disable" -> 0 [] v = "forever" -> 0 - 1 [] OTHER -> v
  <2> DEFINE v == Asked("dns_cache")
  <2>1. Curl("origin", "DNS_CACHE_TIMEOUT") = IF v = None THEN None ELSE ValueIn(DnsCache(v), "origin", "DNS_CACHE_TIMEOUT")
    BY SingleField, ListedFields, PlainFields DEF OptionsOf, Names
  <2> HIDE DEF v
  <2>2. ValueIn(DnsCache(v), "origin", "DNS_CACHE_TIMEOUT") = CASE v = "disable" -> 0 [] v = "forever" -> 0 - 1 [] OTHER -> v
    BY ValueOption DEF DnsCache
  <2> QED
    BY <1>0, <2>1, <2>2 DEF v
<1>5. Curl("origin", "FORBID_REUSE") = closing
  BY DEF Handle, Places, Given, Curl, ValueIn
<1> QED
  BY <1>1, <1>2, <1>3, <1>4, <1>5 DEF NetworkOptions

(* The authentication and the credentials of a side: the two that share     *)
(* names.                                                                   *)
LEMMA AuthFollow ==
    ASSUME Handle, phase = "method", NEW side \in Sides
    PROVE  AuthOptions(side, AskedFor(side, "authentication"), AskedFor(side, "credentials"))
<1> DEFINE A == IF side = "origin" THEN "authentication" ELSE "proxy_authentication"
           C == IF side = "origin" THEN "credentials" ELSE "proxy_credentials"
           auth == request[A]
           credentials == request[C]
<1>1. /\ A \in Listed /\ C \in Listed /\ A # C
      /\ \A g : ~Meet(C, g) /\ (Meet(A, g) => g = C)
      /\ \A f \in Listed : Side(f) = side /\ OriginField(f) = "credentials" => f \in {A, C}
  BY ListedFields DEF Sides, Side, ProxyFieldsOf, OriginField, Meet
<1>2. AskedFor(side, "authentication") = auth /\ AskedFor(side, "credentials") = credentials
  BY <1>1, MergedIsAsked DEF AskedFor, ProxyField, Sides
<1>3. /\ OptionsOf(A, auth) = Authentication(side, auth)
      /\ OptionsOf(C, credentials) = Credentials(side, credentials)
  <2>1. ASSUME NEW v PROVE OptionsOf(A, v) = Authentication(side, v)
    BY AuthenticationOptions
  <2>2. ASSUME NEW v PROVE OptionsOf(C, v) = Credentials(side, v)
    BY CredentialsOptions
  <2> QED
    BY <2>1, <2>2
<1>4. \A n \in AuthNames : Owner(n) = "credentials" /\ n \notin {"NOSIGNAL", "FORBID_REUSE"}
  BY DEF Owner, AuthNames, TlsNames, IdentityNames
<1> HIDE DEF A, C
<1>5. ASSUME NEW n \in AuthNames, <<side, n>> \in DOMAIN easy
      PROVE  \/ auth # None /\ <<side, n>> \in DOMAIN Authentication(side, auth)
             \/ credentials # None /\ <<side, n>> \in DOMAIN Credentials(side, credentials)
  <2>1. PICK f \in Listed : /\ request[f] # None /\ <<side, n>> \in DOMAIN OptionsOf(f, request[f])
                            /\ Side(f) = side /\ Owner(n) = OriginField(f)
    BY <1>4, <1>5, GivenBySomeone
  <2>2. f \in {A, C}
    BY <1>1, <1>4, <2>1
  <2> QED
    BY <1>3, <2>1, <2>2
<1>6. Curl(side, "AUTH") = auth
  <2> DEFINE o == <<side, "AUTH">>
  <2>1. o \in DOMAIN Authentication(side, auth) /\ Authentication(side, auth)[o] = auth
    BY AuthenticationOptions
  <2>2. o \notin DOMAIN Credentials(side, credentials)
    BY CredentialsOptions
  <2>3. auth # None => Given(o, auth)
    BY <1>1, <1>3, <2>1, DoneIsGiven
  <2>4. auth = None => o \notin DOMAIN easy
    BY <1>5, <2>2 DEF AuthNames
  <2> QED
    BY <2>3, <2>4 DEF Curl, ValueIn, Given
<1>7. ASSUME NEW n \in {"USERNAME", "PASSWORD"}
      PROVE  Curl(side, n) = IF credentials # None THEN credentials ELSE IF auth # None /\ "negotiate" \in auth THEN "" ELSE None
  <2> DEFINE o == <<side, n>>
  <2>1. o \in DOMAIN Credentials(side, credentials) /\ Credentials(side, credentials)[o] = credentials
    BY CredentialsOptions
  <2>2. /\ o \in DOMAIN Authentication(side, auth) <=> "negotiate" \in auth
        /\ "negotiate" \in auth => Authentication(side, auth)[o] = ""
    BY AuthenticationOptions
  <2>3. credentials # None => Given(o, credentials)
    BY <1>1, <1>3, <2>1, DoneIsGiven
  <2>4. credentials = None /\ auth # None /\ "negotiate" \in auth => Given(o, "")
    <3>1. SUFFICES ASSUME credentials = None, auth # None, "negotiate" \in auth PROVE Given(o, "")
      OBVIOUS
    <3>2. \A g \in Listed : Meet(A, g) => request[g] = None
      BY <1>1, <3>1
    <3>3. o \in DOMAIN OptionsOf(A, auth) /\ OptionsOf(A, auth)[o] = ""
      BY <1>3, <2>2, <3>1
    <3> HIDE DEF o
    <3> QED
      BY <1>1, <3>1, <3>2, <3>3, DoneIsGiven
  <2>5. credentials = None /\ ~(auth # None /\ "negotiate" \in auth) => o \notin DOMAIN easy
    BY <1>5, <2>2 DEF AuthNames
  <2> HIDE DEF credentials, auth
  <2> QED
    BY <2>3, <2>4, <2>5 DEF Curl, ValueIn, Given
<1> QED
  BY <1>2, <1>6, <1>7 DEF AuthOptions

(* The TLS configuration of a side.                                         *)
LEMMA TlsFollow ==
    ASSUME Handle, phase = "method", NEW side \in Sides
    PROVE  TlsOptions(side, AskedFor(side, "tls_config"))
<1> DEFINE T == IF side = "origin" THEN "tls_config" ELSE "proxy_tls_config"
           config == AskedFor(side, "tls_config")
           options == TlsConfig(side, config)
<1>1. T \in Listed /\ Side(T) = side /\ OriginField(T) # "credentials" /\ Names(T) = TlsNames
  BY ListedFields, PlainFields DEF Sides, Side, ProxyFieldsOf, OriginField, Names
<1>2. config = request[T]
  BY <1>1, MergedIsAsked DEF AskedFor, ProxyField, Sides
<1>3. OptionsOf(T, config) = options
  BY PlainFields DEF OptionsOf, Sides
<1> HIDE DEF T, config, options
<1>4. ASSUME NEW n \in TlsNames
      PROVE  /\ Curl(side, n) = IF config = None THEN None ELSE ValueIn(options, side, n)
             /\ config # None /\ ~Lacks(options, side, n) => <<side, n>> \in DOMAIN easy
  BY <1>1, <1>2, <1>3, OneField
<1>5. CASE config = None
  BY <1>4, <1>5 DEF TlsOptions, config
<1>6. CASE config # None
  <2>0. ASSUME NEW n \in TlsNames PROVE Curl(side, n) = ValueIn(options, side, n)
    BY <1>4, <1>6
  <2> DEFINE V(n) == ValueIn(options, side, n)
             identity == IF config.identity = None THEN NoOption ELSE Identity(side, config.identity)
  <2>1. /\ Curl(side, "CIPHER_LIST") = V("CIPHER_LIST") /\ Curl(side, "OPTIONS") = V("OPTIONS")
        /\ Curl(side, "VERIFYPEER") = V("VERIFYPEER") /\ Curl(side, "VERIFYHOST") = V("VERIFYHOST")
        /\ Curl(side, "VERSION") = V("VERSION") /\ Curl(side, "ISSUERCERT_BLOB") = V("ISSUERCERT_BLOB")
        /\ Curl(side, "CAINFO") = V("CAINFO") /\ Curl(side, "CAPATH") = V("CAPATH") /\ Curl(side, "CAINFO_BLOB") = V("CAINFO_BLOB")
        /\ \A n \in IdentityNames : Curl(side, n) = V(n)
    BY <2>0 DEF TlsNames
  <2>2. /\ V("CIPHER_LIST") = config.ciphers /\ V("OPTIONS") = TlsFlags(config)
        /\ V("VERSION") = <<config.min, config.max>> /\ V("ISSUERCERT_BLOB") = config.issuer
        /\ side = "origin" => V("VERIFYPEER") = ~config.acceptCerts /\ V("VERIFYHOST") = ~config.acceptHosts
    BY TlsConfigValues DEF options
  <2>3. TlsFlags(config) = {flag \in {"no_revoke", "native_ca"} :
            (flag = "no_revoke" /\ config.acceptRevoked) \/ (flag = "native_ca" /\ config.trust = "native")}
    BY DEF TlsFlags
  <2>4. TrustOptions(side, config.trust)
    <3> DEFINE store == TrustStore(side, config.trust)
               S(n) == ValueIn(store, side, n)
    <3>1. /\ V("CAINFO") = S("CAINFO") /\ V("CAPATH") = S("CAPATH") /\ V("CAINFO_BLOB") = S("CAINFO_BLOB")
          /\ Lacks(options, side, "CAINFO") <=> Lacks(store, side, "CAINFO")
          /\ Lacks(options, side, "CAPATH") <=> Lacks(store, side, "CAPATH")
      BY TlsConfigValues DEF options, TrustNames
    <3>2. LET kept == config.trust \in {"noop", "native", "unset"} IN
          /\ S("CAINFO") = IF ~kept /\ IsFile(config.trust) THEN config.trust ELSE None
          /\ S("CAINFO_BLOB") = IF ~kept /\ ~IsFile(config.trust) THEN config.trust ELSE None
          /\ S("CAPATH") = None
      BY TrustValues
    <3>3. config.trust = "unset" => ~Lacks(store, side, "CAINFO") /\ ~Lacks(store, side, "CAPATH")
      BY TrustValues
    <3> HIDE DEF store, S, V
    <3>4. config.trust = "unset" => <<side, "CAINFO">> \in DOMAIN easy /\ <<side, "CAPATH">> \in DOMAIN easy
      BY <1>4, <1>6, <3>1, <3>3 DEF TlsNames
    <3>5. Curl(side, "CAPATH") = None
      BY <2>1, <3>1, <3>2
    <3>6. IF config.trust \in {"noop", "native", "unset"} THEN Curl(side, "CAINFO") = None /\ Curl(side, "CAINFO_BLOB") = None
          ELSE DataOptions(side, "CAINFO", "CAINFO_BLOB", config.trust)
      BY <2>1, <3>1, <3>2 DEF DataOptions
    <3>7. config.trust = "unset" => Given(<<side, "CAINFO">>, None) /\ Given(<<side, "CAPATH">>, None)
      <4>1. config.trust = "unset" => Curl(side, "CAINFO") = None /\ Curl(side, "CAPATH") = None
        BY <3>5, <3>6
      <4> QED
        BY <3>4, <4>1 DEF Curl, ValueIn, Given
    <3> QED
      BY <3>5, <3>6, <3>7 DEF TrustOptions
  <2>5. IdentityOptions(side, config.identity)
    <3> DEFINE I(n) == ValueIn(identity, side, n)
               i == config.identity
    <3>1. \A n \in IdentityNames : Curl(side, n) = I(n)
      <4>1. \A n \in IdentityNames : V(n) = I(n)
        BY TlsConfigValues DEF options
      <4> QED
        BY <2>1, <4>1
    <3>2. CASE i = None
      <4>1. \A n \in IdentityNames : I(n) = None
        BY <3>2, ValueNothing
      <4> QED
        BY <3>1, <3>2, <4>1 DEF IdentityOptions
    <3>3. CASE i # None
      <4> DEFINE key == IF i.key = None THEN NoOption ELSE PrivateKey(side, i.key)
                 K(n) == ValueIn(key, side, n)
      <4>1. identity = Identity(side, i)
        BY <3>3
      <4>2. /\ I("CERTTYPE") = i.format
            /\ I("CERT") = IF IsFile(i.data) THEN i.data ELSE None
            /\ I("CERT_BLOB") = IF IsFile(i.data) THEN None ELSE i.data
            /\ I("KEYTYPE") = K("KEYTYPE") /\ I("KEY") = K("KEY") /\ I("KEY_BLOB") = K("KEY_BLOB")
            /\ i.key = None => I("KEYPASSWD") = i.password
            /\ i.key # None /\ i.password = None => I("KEYPASSWD") = i.key.password
        BY <4>1, IdentityValues
      <4>3. i.key = None => K("KEYTYPE") = None /\ K("KEY") = None /\ K("KEY_BLOB") = None
        BY ValueNothing
      <4>4. i.key # None =>
              /\ K("KEYTYPE") = i.key.format
              /\ K("KEY") = IF IsFile(i.key.data) THEN i.key.data ELSE None
              /\ K("KEY_BLOB") = IF IsFile(i.key.data) THEN None ELSE i.key.data
        BY KeyValues
      <4>5. /\ Curl(side, "CERTTYPE") = I("CERTTYPE") /\ Curl(side, "CERT") = I("CERT") /\ Curl(side, "CERT_BLOB") = I("CERT_BLOB")
            /\ Curl(side, "KEYTYPE") = I("KEYTYPE") /\ Curl(side, "KEY") = I("KEY") /\ Curl(side, "KEY_BLOB") = I("KEY_BLOB")
            /\ Curl(side, "KEYPASSWD") = I("KEYPASSWD")
        BY <3>1 DEF IdentityNames
      <4> HIDE DEF I, K, V, identity, key, i
      <4>6. DataOptions(side, "CERT", "CERT_BLOB", i.data)
        BY <4>2, <4>5 DEF DataOptions
      <4>7. KeyOptions(side, i.key)
        BY <4>2, <4>3, <4>4, <4>5 DEF KeyOptions, DataOptions
      <4>8. IdentityOptions(side, i)
        BY <3>3, <4>2, <4>5, <4>6, <4>7 DEF IdentityOptions
      <4> QED
        BY <4>8 DEF i
    <3> QED
      BY <3>2, <3>3
  <2> HIDE DEF V
  <2>6. TlsOptions(side, config)
    BY <1>6, <2>1, <2>2, <2>3, <2>4, <2>5 DEF TlsOptions
  <2> QED
    BY <2>6 DEF config
<1> QED
  BY <1>5, <1>6

(* The invariant says what OptionsAreConfigured does.                       *)
LEMMA OptionsFollow == Handle => OptionsAreConfigured
BY PlainFollow, HttpFollow, NetworkFollow, AuthFollow, TlsFollow DEF OptionsAreConfigured

(* The handle keeps its invariant.                                          *)
LEMMA HandleInvariant == Spec => []Handle
<1>1. Init => Handle
  <2> SUFFICES ASSUME Init PROVE Handle
    OBVIOUS
  <2>1. position = 0 /\ easy = NoOption /\ blobs = NoOption /\ phase = "building" /\ client = ClientDefaults
        /\ request = NoConfig /\ own = NoConfig
    BY DEF Init, ConfigureInit
  <2>2. Switch(ClientDefaults) = TRUE /\ DOMAIN ClientDefaults = Field /\ Switch(NoConfig) = None /\ DOMAIN NoConfig = Field
    BY DEF Switch, ClientDefaults, NoConfig, Field, RequestFields, ProtocolFields
  <2> QED
    BY <2>1, <2>2, NoHandle DEF Handle, Places, Handled
<1>2. Handle /\ [Next]_clientVars => Handle'
  BY PlacesStep, KeptStep, SourcedStep, BlobsStep DEF Handle
<1> QED
  BY <1>1, <1>2, PTL DEF Spec

(* What curl has been given when all options are set is what the request    *)
(* asks for, else the client, else the defaults: for every set of values of *)
(* every field, RequestConfig::merge and the two set_opt functions          *)
(* (config/request.rs, config/client.rs) give each option the value of the  *)
(* field it belongs to and none when nobody asks, credentials go before the *)
(* empty ones of a negotiation, and no option of a proxy is taken from the  *)
(* origin. Two things are not in OptionsAreConfigured, for which see there: *)
(* the verification of a proxy, and an identity with two passwords.         *)
THEOREM Configured == Spec => []OptionsAreConfigured
BY HandleInvariant, OptionsFollow, PTL

(* While curl points to a blob, the handler keeps it, through every         *)
(* overwrite of its option by a later field: setopt_blob_nocopy             *)
(* (handler.rs).                                                            *)
THEOREM BlobsOutlive == Spec => []BlobsAreKept
<1>1. Handle => BlobsAreKept
  BY DEF Handle
<1> QED
  BY <1>1, HandleInvariant, PTL

----------------------------------------------------------------------------
(* The request that the agent is given, until its response comes: curl      *)
(* decodes a body only when the request asked for it.                       *)
Framed ==
    phase \in {"created", "sent"} =>
        http.decodes \in BOOLEAN /\ http.decompression \in BOOLEAN /\ (http.decodes => http.decompression)

(* An Accept-Encoding option is there only when the request or the client   *)
(* asked for decompression.                                                 *)
LEMMA DecodesWhenAsked ==
    ASSUME Handle, phase = "method"
    PROVE  /\ request["automatic_decompression"] \in BOOLEAN
           /\ easy[<<"origin", "ACCEPT_ENCODING">>] = "all" => request["automatic_decompression"]
<1> DEFINE f == "automatic_decompression"
           o == <<"origin", "ACCEPT_ENCODING">>
<1>1. request[f] \in BOOLEAN
  BY DEF Handle, Places, Handled, Switch, Merge, Field, RequestFields, ProtocolFields
<1>2. request[f] # None
  BY <1>1, ConfigureAssumption
<1>3. f \in Listed /\ \A g : ~Meet(f, g)
  BY ListedFields DEF Meet
<1>4. OptionsOf(f, request[f]) = Option("origin", {"ACCEPT_ENCODING"}, IF request[f] THEN "all" ELSE None)
  BY PlainFields DEF OptionsOf, AutomaticDecompression
<1>5. Has(OptionsOf(f, request[f]), o, IF request[f] THEN "all" ELSE None)
  BY <1>4, HasNamed
<1>6. Given(o, OptionsOf(f, request[f])[o])
  BY <1>2, <1>3, <1>5, DoneIsGiven DEF Has
<1>7. easy[o] = IF request[f] THEN "all" ELSE None
  BY <1>5, <1>6 DEF Has, Given
<1>8. None # "all"
  BY ConfigureAssumption
<1> QED
  BY <1>1, <1>7, <1>8

(* create_easy_handle frames the body it is given.                          *)
LEMMA HandleIsFramed ==
    ASSUME Handle, NEW method \in Method, NEW content \in Content, NEW header \in ContentLength,
           CreateEasyHandle(method, content, header)
    PROVE  Framed' /\ RequestIsFramed'
<1> DEFINE hasBody == content.kind # "empty"
           length == BodyLength(content, header)
           curl == MethodMode(method, hasBody)
           size == Size(method, hasBody, length)
<1>1. /\ phase = "method" /\ phase' = "created"
      /\ http'.method = method /\ http'.body = content /\ http'.curl = curl /\ http'.size = size
      /\ http'.chunked = (hasBody /\ length = None)
      /\ http'.decompression = request["automatic_decompression"]
      /\ http'.decodes = (easy[<<"origin", "ACCEPT_ENCODING">>] = "all")
  BY DEF CreateEasyHandle
<1>2. Framed'
  BY <1>1, DecodesWhenAsked DEF Framed
<1>3. length \in Nat \cup {None} /\ method # None
  BY ConfigureAssumption DEF BodyLength
<1>4. /\ size # None <=> hasBody /\ length # None
      /\ size # None => size.option = IF method = "POST" THEN "POSTFIELDSIZE" ELSE "INFILESIZE"
  <2>1. None \notin [option : {"POSTFIELDSIZE", "INFILESIZE"}, length : Nat]
    BY ConfigureAssumption
  <2> HIDE DEF length
  <2> QED
    BY <1>3, <2>1 DEF Size
<1>5. /\ curl.mode \in {"post", "upload"} <=> hasBody
      /\ hasBody => (curl.mode = "post" <=> method = "POST")
      /\ method = IF curl.custom # None THEN curl.custom
                  ELSE CASE curl.mode = "get" -> "GET" [] curl.mode = "nobody" -> "HEAD"
                         [] curl.mode = "post" -> "POST" [] curl.mode = "upload" -> "PUT"
  BY <1>3 DEF MethodMode
<1> HIDE DEF length, curl, size
<1> QED
  BY <1>1, <1>2, <1>4, <1>5 DEF RequestIsFramed

(* Every step of the client keeps both.                                     *)
LEMMA FramedStep ==
    Handle /\ Framed /\ RequestIsFramed /\ [Next]_clientVars => Framed' /\ RequestIsFramed'
<1> SUFFICES ASSUME Handle, Framed, RequestIsFramed, [Next]_clientVars PROVE Framed' /\ RequestIsFramed'
  OBVIOUS
<1> USE DEF handleVars
<1>a. ASSUME phase' \notin {"created", "sent"} PROVE Framed' /\ RequestIsFramed'
  BY <1>a DEF Framed, RequestIsFramed
<1>1. ASSUME NEW f, NEW v, SetField(f, v) \/ SetRequestField(f, v) PROVE Framed' /\ RequestIsFramed'
  BY <1>1, <1>a DEF SetField, SetRequestField
<1>2. ASSUME NEW n, ConnectionCacheSize(n) PROVE Framed' /\ RequestIsFramed'
  BY <1>2, <1>a DEF ConnectionCacheSize
<1>3. ASSUME NEW i, AddInterceptor(i) PROVE Framed' /\ RequestIsFramed'
  BY <1>3, <1>a DEF AddInterceptor
<1>4. ASSUME NEW h, DefaultHeader(h) \/ DefaultHeaders(h) PROVE Framed' /\ RequestIsFramed'
  BY <1>4, <1>a DEF DefaultHeader, DefaultHeaders
<1>5. CASE BuildFails \/ Build \/ Use \/ Send \/ OptionsEnd
  BY <1>5, <1>a DEF BuildFails, Fail, Build, Use, Send, OptionsEnd
<1>6. ASSUME NEW f, SetOption(f) PROVE Framed' /\ RequestIsFramed'
  BY <1>6, <1>a DEF SetOption, SetsOption
<1>7. ASSUME NEW f, NEW kind, SetOptionFails(f, kind) \/ HandleFails(kind) PROVE Framed' /\ RequestIsFramed'
  BY <1>7, <1>a DEF SetOptionFails, HandleFails, Fail
<1>8. ASSUME NEW method \in Method, NEW content \in Content, NEW header \in ContentLength,
             CreateEasyHandle(method, content, header)
      PROVE  Framed' /\ RequestIsFramed'
  BY <1>8, HandleIsFramed
<1>9. CASE Configure
  BY <1>1, <1>2, <1>3, <1>4, <1>5, <1>6, <1>7, <1>8, <1>9 DEF Configure
<1>10. CASE Submit
  BY <1>10 DEF Submit, Framed, RequestIsFramed
<1>11. ASSUME NEW code, ExchangeFails(code) PROVE Framed' /\ RequestIsFramed'
  BY <1>11, <1>a DEF ExchangeFails, Fail
<1>12. ASSUME NEW r, HeadersCome(r) PROVE Framed' /\ RequestIsFramed'
  BY <1>12, <1>a DEF HeadersCome
<1>13. CASE UNCHANGED configureVars
  BY <1>13 DEF configureVars, Framed, RequestIsFramed
<1> QED
  BY <1>9, <1>10, <1>11, <1>12, <1>13 DEF Next, Watch, clientVars

(* What the agent is given is framed.                                       *)
LEMMA FramedInvariant == Spec => [](Framed /\ RequestIsFramed)
<1>1. Init => Framed /\ RequestIsFramed
  BY DEF Init, ConfigureInit, Framed, RequestIsFramed
<1> QED
  BY <1>1, FramedStep, HandleInvariant, PTL DEF Spec

(* For every method, body and Content-Length header, curl reads a body if   *)
(* and only if there is one and knows its end, from the size option of its  *)
(* mode or by chunks, and the server sees the method of the request: the    *)
(* method and body options of create_easy_handle (client.rs).               *)
THEOREM RequestsAreFramed == Spec => []RequestIsFramed
BY FramedInvariant, PTL
==============================================================================
