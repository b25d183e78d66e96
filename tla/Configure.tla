------------------------------ MODULE Configure ------------------------------
(***************************************************************************)
(* From an HttpClientBuilder to a curl easy handle: the builder's calls and *)
(* its build (client.rs), a request's own configuration, the merge of the   *)
(* two, the options that each field sets in the order of set_opt            *)
(* (config/request.rs, config/client.rs) and the rest of create_easy_handle.*)
(*                                                                          *)
(* A configuration maps every field to a value or None.  External: whether  *)
(* curl takes an option, and whether the agent's thread starts.             *)
(***************************************************************************)
EXTENDS Options, Sequences, FiniteSetsExt

CONSTANTS
    Value,      \* field -> the values that are tried
    Headers,    \* arguments of default_header, in which the bad ones are BadHeaders
    BadHeaders,
    Method, Content, ContentLength,   \* of requests
    MaxCalls    \* bound: calls that configure the client or the request

ASSUME ConfigureAssumption ==
    /\ Value["automatic_decompression"].values \subseteq BOOLEAN
    /\ None \notin Method /\ None \notin BOOLEAN
    /\ None \notin {"all", "latest", "disable", "forever"}
    /\ None \notin [option : {"POSTFIELDSIZE", "INFILESIZE"}, length : Nat]
    /\ ContentLength \subseteq Nat \cup {None}
    /\ Content \subseteq [kind : {"empty", "buffer", "reader"}, length : Nat \cup {None}]
    /\ MaxCalls \in Nat

VARIABLES
    phase,
    calls,        \* history: the headers given to the builder
    budget,       \* MaxCalls less the calls made
    client,       \* request_config and client_config of the builder, then of the client
    closing,      \* close_connections
    error,        \* HttpClientBuilder::error is set
    headers,      \* the entries of default_headers
    interceptors,
    request,      \* the request's RequestConfig, then the merged one
    own,          \* history: the request's RequestConfig before the merge
    position,     \* the field whose options are set next
    easy,         \* the options that curl has been given
    blobs,        \* RequestHandler::blobs
    http,         \* the request line, the framing and the headers that curl is given
    outcome

builderVars == <<calls, headers, error, interceptors>>
clientConfig == <<client, closing>>
requestConfig == <<request, own>>
handleVars == <<position, easy, blobs, http>>
configureVars == <<phase, budget, outcome, builderVars, clientConfig, requestConfig, handleVars>>

----------------------------------------------------------------------------
(* Configurable: each method sets one field. *)
TimeoutFields == {"timeout", "low_speed_timeout", "connect_timeout"}
ProtocolFields == {"version_negotiation", "redirect_policy", "auto_referer", "automatic_decompression", "expect_continue"}
AuthFields == {"authentication", "credentials"}
NetworkFields == {"tcp_keepalive", "tcp_nodelay", "interface", "ip_version", "dial"}
ProxyFields == {"proxy", "proxy_blacklist", "proxy_authentication", "proxy_credentials"}
SpeedFields == {"max_upload_speed", "max_download_speed"}
TlsFields == {"tls_config", "proxy_tls_config"}
OtherFields == {"title_case_headers", "enable_metrics"}

RequestFields == TimeoutFields \cup ProtocolFields \cup AuthFields \cup NetworkFields \cup
                 ProxyFields \cup SpeedFields \cup TlsFields \cup OtherFields
ClientFields == {"connection_cache_ttl", "dns_cache", "dns_resolve"}
Field == RequestFields \cup ClientFields

ClientDefaults == [f \in Field |->
    CASE f = "version_negotiation" -> "latest"
      [] f = "automatic_decompression" -> TRUE
      [] f = "authentication" -> {}
      [] f = "tls_config" -> Value["tls_config"].default
      [] OTHER -> None]

NoConfig == [f \in Field |-> None]

(* The field that is for the proxy what another is for the origin, and the  *)
(* names of the options that a TLS configuration may set.                   *)
ProxyField == [
    authentication |-> "proxy_authentication", credentials |-> "proxy_credentials", tls_config |-> "proxy_tls_config"]

IdentityNames == {"CERTTYPE", "CERT", "CERT_BLOB", "KEYTYPE", "KEY", "KEY_BLOB", "KEYPASSWD"}
TlsNames == IdentityNames \cup
    {"CIPHER_LIST", "OPTIONS", "VERIFYPEER", "VERIFYHOST", "VERSION", "CAINFO", "CAPATH", "CAINFO_BLOB", "ISSUERCERT_BLOB"}

(* RequestConfig::set_opt, then ClientConfig::set_opt. *)
OrderWith(first, second) == <<
    "timeout", "low_speed_timeout", "connect_timeout", "version_negotiation", "automatic_decompression",
    "expect_continue", first, second, "tcp_keepalive", "tcp_nodelay", "interface", "ip_version", "dial",
    "proxy", "proxy_blacklist", "proxy_authentication", "proxy_credentials", "max_upload_speed",
    "max_download_speed", "tls_config", "proxy_tls_config", "enable_metrics",
    "connection_cache_ttl", "dns_cache", "dns_resolve">>

(* mutant: a negotiation's empty user name replaces the credentials *)
CredentialsFirst == OrderWith("credentials", "authentication")

Order == OrderWith("authentication", "credentials")

ASSUME OrderAssumption == {Order[i] : i \in DOMAIN Order} = Field \ {"redirect_policy", "auto_referer", "title_case_headers"}

(* The fields whose options all take the field's value as it is. *)
Plain == [
    timeout |-> {"TIMEOUT"}, low_speed_timeout |-> {"LOW_SPEED_LIMIT", "LOW_SPEED_TIME"},
    connect_timeout |-> {"CONNECTTIMEOUT"}, tcp_keepalive |-> {"TCP_KEEPALIVE", "TCP_KEEPINTVL"},
    tcp_nodelay |-> {"TCP_NODELAY"}, ip_version |-> {"IPRESOLVE"}, proxy_blacklist |-> {"NOPROXY"},
    max_upload_speed |-> {"MAX_SEND_SPEED"}, max_download_speed |-> {"MAX_RECV_SPEED"},
    enable_metrics |-> {"NOPROGRESS"}, connection_cache_ttl |-> {"MAXAGE_CONN"}, dns_resolve |-> {"RESOLVE"}]

OptionsOf(f, v) ==
    CASE f \in DOMAIN Plain -> Option("origin", Plain[f], v)
      [] f = "version_negotiation" -> VersionNegotiation(v)
      [] f = "automatic_decompression" -> AutomaticDecompression(v)
      [] f = "expect_continue" -> ExpectContinue(v)
      [] f = "authentication" -> Authentication("origin", v)
      [] f = "credentials" -> Credentials("origin", v)
      [] f = "interface" -> Interface(v)
      [] f = "dial" -> Dialer(v)
      [] f = "proxy" -> Proxy(v)
      [] f = "proxy_authentication" -> Authentication("proxy", v)
      [] f = "proxy_credentials" -> Credentials("proxy", v)
      [] f = "tls_config" -> TlsConfig("origin", v)
      [] f = "proxy_tls_config" -> TlsConfig("proxy", v)
      [] f = "dns_cache" -> DnsCache(v)

Refusal(f, v) ==
    CASE f = "tls_config" -> Refused("origin", v)
      [] f = "proxy_tls_config" -> Refused("proxy", v)
      [] OTHER -> None

----------------------------------------------------------------------------
ConfigureInit ==
    /\ phase = "building" /\ calls = <<>> /\ budget = MaxCalls
    /\ client = ClientDefaults /\ closing = FALSE /\ error = FALSE
    /\ headers = {} /\ interceptors = <<"redirect">>
    /\ request = NoConfig /\ own = NoConfig /\ position = 0 /\ easy = NoOption /\ blobs = NoOption
    /\ http = None /\ outcome = None

(* A field that is None or set once is not set again: setters overwrite. *)
SetField(f, v) ==
    /\ phase = "building" /\ budget > 0
    /\ client' = [client EXCEPT ![f] = v] /\ budget' = budget - 1
    /\ UNCHANGED <<phase, closing, outcome, builderVars, requestConfig, handleVars>>

ConnectionCacheSize(n) ==
    /\ phase = "building" /\ budget > 0
    /\ closing' = (n = 0) /\ budget' = budget - 1
    /\ UNCHANGED <<phase, client, outcome, builderVars, requestConfig, handleVars>>

AddInterceptor(i) ==
    /\ phase = "building" /\ budget > 0
    /\ interceptors' = Append(interceptors, i) /\ budget' = budget - 1
    /\ UNCHANGED <<phase, calls, error, headers, outcome, clientConfig, requestConfig, handleVars>>

Named(given) == {given[i] : i \in DOMAIN given}

(* mutant: the headers that are replaced take their error with them *)
AppendForgetting(start, given) ==
    /\ headers' = start \cup (Named(given) \ BadHeaders)
    /\ error' = ((start # {} /\ error) \/ Named(given) \cap BadHeaders # {})

AppendHeaders(start, given) ==
    /\ headers' = start \cup (Named(given) \ BadHeaders)
    /\ error' = (error \/ Named(given) \cap BadHeaders # {})

DefaultHeader(h) ==
    /\ phase = "building" /\ budget > 0
    /\ AppendHeaders(headers, <<h>>)
    /\ calls' = Append(calls, [replace |-> FALSE, given |-> <<h>>]) /\ budget' = budget - 1
    /\ UNCHANGED <<phase, interceptors, outcome, clientConfig, requestConfig, handleVars>>

DefaultHeaders(given) ==
    /\ phase = "building" /\ budget > 0
    /\ AppendHeaders({}, given)
    /\ calls' = Append(calls, [replace |-> TRUE, given |-> given]) /\ budget' = budget - 1
    /\ UNCHANGED <<phase, interceptors, outcome, clientConfig, requestConfig, handleVars>>

Fail(kind) ==
    /\ phase' = "failed" /\ outcome' = kind
    /\ request' = NoConfig /\ own' = NoConfig /\ position' = 0 /\ easy' = NoOption /\ blobs' = NoOption /\ http' = None

BuildFails ==
    /\ phase = "building"
    /\ Fail("ClientInitialization")
    /\ UNCHANGED <<budget, builderVars, clientConfig>>

(* Cookies and default headers come after the interceptors of the user. *)
Build ==
    /\ phase = "building" /\ ~error
    /\ phase' = "built"
    /\ interceptors' = interceptors \o <<"cookies">> \o IF headers = {} THEN <<>> ELSE <<"default_headers">>
    /\ UNCHANGED <<calls, budget, error, headers, outcome, clientConfig, requestConfig, handleVars>>

----------------------------------------------------------------------------
(* RequestBuilder, before send: the builder's history is no longer needed. *)
Use ==
    /\ phase = "built"
    /\ phase' = "request"
    /\ calls' = <<>> /\ headers' = {} /\ interceptors' = <<>>
    /\ UNCHANGED <<budget, error, outcome, clientConfig, requestConfig, handleVars>>

SetRequestField(f, v) ==
    /\ phase = "request" /\ budget > 0
    /\ request' = [request EXCEPT ![f] = v] /\ budget' = budget - 1
    /\ UNCHANGED <<phase, own, outcome, builderVars, clientConfig, handleVars>>

Merge(mine, defaults) == [f \in Field |-> IF mine[f] # None THEN mine[f] ELSE defaults[f]]

(* send_async_inner *)
Send ==
    /\ phase = "request"
    /\ phase' = "options" /\ request' = Merge(request, client) /\ own' = request
    /\ easy' = Option("origin", {"NOSIGNAL"}, TRUE)
    /\ UNCHANGED <<budget, position, blobs, http, outcome, builderVars, clientConfig>>

----------------------------------------------------------------------------
Pending == {i \in (position + 1)..Len(Order) : request[Order[i]] # None}

SetsOption(f) ==
    /\ phase = "options" /\ Pending # {} /\ f = Order[Min(Pending)]

(* mutant: the blobs of the proxy take the places of the origin's *)
KeepBySideless(options) ==
    LET kept == {o \in DOMAIN options : IsBlob(o)}
    IN  blobs' = [o \in {p \in DOMAIN blobs : \A k \in kept : k[2] # p[2]} |-> blobs[o]] ++ [o \in kept |-> options[o]]

(* setopt_blob_nocopy keeps what curl only points to. *)
Keep(options) == blobs' = [o \in {p \in DOMAIN options : IsBlob(p)} |-> options[o]] ++ blobs

SetOption(f) ==
    /\ SetsOption(f) /\ Refusal(f, request[f]) = None
    /\ easy' = OptionsOf(f, request[f]) ++ easy
    /\ Keep(OptionsOf(f, request[f]))
    /\ position' = Min(Pending)
    /\ UNCHANGED <<phase, budget, http, outcome, builderVars, clientConfig, requestConfig>>

(* The engine or the paths are refused, or curl refuses an option: SetOptError. *)
SetOptionFails(f, kind) ==
    /\ SetsOption(f)
    /\ IF Refusal(f, request[f]) = None THEN kind = "Unknown" ELSE kind = Refusal(f, request[f])
    /\ Fail(kind)
    /\ UNCHANGED <<budget, builderVars, clientConfig>>

OptionsEnd ==
    /\ phase = "options" /\ Pending = {}
    /\ phase' = "method"
    /\ easy' = Option("origin", {"FORBID_REUSE"}, closing) ++ easy
    /\ UNCHANGED <<budget, position, blobs, http, outcome, builderVars, clientConfig, requestConfig>>

----------------------------------------------------------------------------
(* How curl is told the method, and what it does with a body then. *)
MethodMode(method, hasBody) ==
    CASE method = "GET" /\ ~hasBody -> [mode |-> "get", custom |-> None]
      [] method = "HEAD" /\ ~hasBody -> [mode |-> "nobody", custom |-> None]
      [] method = "POST" /\ hasBody -> [mode |-> "post", custom |-> None]
      [] method = "PUT" /\ hasBody -> [mode |-> "upload", custom |-> None]
      [] OTHER -> [mode |-> IF hasBody THEN "upload" ELSE "get", custom |-> method]

(* The Content-Length header, None when it does not parse, goes before the  *)
(* body's own length.                                                       *)
BodyLength(content, header) == IF header # None THEN header ELSE content.length

(* mutant: the size is left to the methods that upload *)
UploadSize(method, hasBody, length) ==
    IF hasBody /\ length # None THEN [option |-> "INFILESIZE", length |-> length] ELSE None

Size(method, hasBody, length) ==
    IF hasBody /\ length # None
    THEN [option |-> IF method = "POST" THEN "POSTFIELDSIZE" ELSE "INFILESIZE", length |-> length]
    ELSE None

(* What the model does not read again is forgotten with the handle.  *)
CreateEasyHandle(method, content, header) ==
    LET hasBody == content.kind # "empty"
        length == BodyLength(content, header)
    IN
    /\ phase = "method"
    /\ phase' = "created"
    /\ http' = [method |-> method, body |-> content,
                curl |-> MethodMode(method, hasBody),
                size |-> Size(method, hasBody, length),
                chunked |-> hasBody /\ length = None,
                titleCase |-> request["title_case_headers"] = TRUE,
                noExpect |-> request["expect_continue"] = "disabled",
                metrics |-> request["enable_metrics"] = TRUE,
                decompression |-> request["automatic_decompression"],
                decodes |-> easy[<<"origin", "ACCEPT_ENCODING">>] = "all"]
    /\ client' = ClientDefaults /\ closing' = FALSE /\ budget' = 0
    /\ request' = NoConfig /\ own' = NoConfig /\ position' = 0 /\ easy' = NoOption /\ blobs' = NoOption
    /\ UNCHANGED <<outcome, builderVars>>

(* curl refuses the method, the URL, the size or the headers; a header that *)
(* is not ASCII ends in a panic (parsing.rs).                               *)
HandleFails(kind) ==
    /\ phase = "method"
    /\ Fail(kind)
    /\ UNCHANGED <<budget, builderVars, clientConfig>>

----------------------------------------------------------------------------
Configure ==
    \/ \E f \in Field : \E v \in Value[f].values : SetField(f, v)
    \/ \E n \in {0, 1} : ConnectionCacheSize(n)
    \/ AddInterceptor("user")
    \/ \E h \in Headers : DefaultHeader(h)
    \/ \E given \in UNION {[1..n -> Headers] : n \in 0..2} : DefaultHeaders(given)
    \/ BuildFails \/ Build \/ Use
    \/ \E f \in RequestFields : \E v \in Value[f].values : SetRequestField(f, v)
    \/ Send
    \/ \E f \in Field : SetOption(f) \/ \E kind \in {"TlsEngine", "InvalidTlsConfiguration", "panic", "Unknown"} : SetOptionFails(f, kind)
    \/ OptionsEnd
    \/ \E kind \in {"Unknown", "panic"} : HandleFails(kind)
    \/ \E method \in Method, content \in Content, header \in ContentLength : CreateEasyHandle(method, content, header)

----------------------------------------------------------------------------
(* A client is built only of good headers, whatever became of the bad ones  *)
(* later, and with those that were given since they were last replaced.     *)
Since == {i \in DOMAIN calls : \A j \in (i + 1)..Len(calls) : ~calls[j].replace}

BuildRefusesBadHeaders ==
    phase = "built" =>
        /\ \A i \in DOMAIN calls : Named(calls[i].given) \cap BadHeaders = {}
        /\ headers = UNION {Named(calls[i].given) : i \in Since}

(* The value of an option, None when it is not set or is a null.            *)
Given(option, value) == option \in DOMAIN easy /\ easy[option] = value

ValueIn(options, side, name) == IF <<side, name>> \in DOMAIN options THEN options[<<side, name>>] ELSE None

Curl(side, name) == ValueIn(easy, side, name)

Asked(f) == IF own[f] # None THEN own[f] ELSE client[f]

AskedFor(side, f) == Asked(IF side = "origin" THEN f ELSE ProxyField[f])

PlainOptions == \A f \in DOMAIN Plain : \A name \in Plain[f] : Curl("origin", name) = Asked(f)

HttpOptions ==
    LET version == Asked("version_negotiation")
        expect == Asked("expect_continue")
    IN  /\ Curl("origin", "HTTP_VERSION") = IF version # "latest" THEN version ELSE IF Http2Supported THEN "V2TLS" ELSE None
        /\ Curl("origin", "ACCEPT_ENCODING") = IF Asked("automatic_decompression") THEN "all" ELSE None
        /\ Curl("origin", "EXPECT_100_TIMEOUT") = IF expect = "disabled" THEN None ELSE expect

NetworkOptions ==
    LET interface == Asked("interface")
        dial == Asked("dial")
        cache == Asked("dns_cache")
    IN  /\ Curl("origin", "INTERFACE") = IF interface = "any" THEN None ELSE interface
        /\ Curl("origin", "CONNECT_TO") = IF dial = "ip" THEN dial ELSE None
        /\ Curl("origin", "UNIX_SOCKET_PATH") = IF dial = "unix" THEN dial ELSE None
        /\ Curl("origin", "PROXY") = Asked("proxy")
        /\ Curl("origin", "DNS_CACHE_TIMEOUT") =
               CASE cache = "disable" -> 0 [] cache = "forever" -> 0 - 1 [] OTHER -> cache
        /\ Curl("origin", "FORBID_REUSE") = closing

AuthOptions(side, auth, credentials) ==
    LET user == IF credentials # None THEN credentials
                ELSE IF auth # None /\ "negotiate" \in auth THEN "" ELSE None
    IN  Curl(side, "AUTH") = auth /\ Curl(side, "USERNAME") = user /\ Curl(side, "PASSWORD") = user

(* Where data goes: to the option of a file or to that of a blob. *)
DataOptions(side, file, blob, data) ==
    /\ Curl(side, file) = IF IsFile(data) THEN data ELSE None
    /\ Curl(side, blob) = IF IsFile(data) THEN None ELSE data

KeyOptions(side, key) ==
    IF key = None THEN \A name \in {"KEYTYPE", "KEY", "KEY_BLOB"} : Curl(side, name) = None
    ELSE Curl(side, "KEYTYPE") = key.format /\ DataOptions(side, "KEY", "KEY_BLOB", key.data)

IdentityOptions(side, identity) ==
    IF identity = None THEN \A name \in IdentityNames : Curl(side, name) = None
    ELSE /\ Curl(side, "CERTTYPE") = identity.format
         /\ DataOptions(side, "CERT", "CERT_BLOB", identity.data)
         /\ KeyOptions(side, identity.key)
         /\ identity.key = None => Curl(side, "KEYPASSWD") = identity.password
         /\ identity.key # None /\ identity.password = None => Curl(side, "KEYPASSWD") = identity.key.password

TrustOptions(side, trust) ==
    /\ IF trust \in {"noop", "native", "unset"} THEN Curl(side, "CAINFO") = None /\ Curl(side, "CAINFO_BLOB") = None
       ELSE DataOptions(side, "CAINFO", "CAINFO_BLOB", trust)
    /\ Curl(side, "CAPATH") = None
    /\ trust = "unset" => Given(<<side, "CAINFO">>, None) /\ Given(<<side, "CAPATH">>, None)

TlsOptions(side, config) ==
    IF config = None THEN \A name \in TlsNames : Curl(side, name) = None
    ELSE /\ Curl(side, "CIPHER_LIST") = config.ciphers
         /\ Curl(side, "OPTIONS") = {flag \in {"no_revoke", "native_ca"} :
                (flag = "no_revoke" /\ config.acceptRevoked) \/ (flag = "native_ca" /\ config.trust = "native")}
         /\ Curl(side, "VERSION") = <<config.min, config.max>>
         /\ side = "origin" => Curl(side, "VERIFYPEER") = ~config.acceptCerts /\ Curl(side, "VERIFYHOST") = ~config.acceptHosts
         /\ TrustOptions(side, config.trust)
         /\ Curl(side, "ISSUERCERT_BLOB") = config.issuer
         /\ IdentityOptions(side, config.identity)

(* When create_easy_handle has set the options of a request, each option    *)
(* that the configuration may set (but for NOSIGNAL, which always is) has   *)
(* the value that the request asks for, else the client, else the defaults, *)
(* and has none when nobody asks, though options share names and are set in *)
(* an order: credentials go before the empty ones of a negotiation, one     *)
(* dialer and one trust store are in force, the proxy's options do not      *)
(* touch the origin's.  Not said here: whether a proxy is verified, which   *)
(* is ProxyIsVerified of Client, and which password an identity has that    *)
(* also has a key with its own, as no constructor makes one.                *)
OptionsAreConfigured ==
    phase = "method" =>
        /\ PlainOptions /\ HttpOptions /\ NetworkOptions
        /\ \A side \in Sides :
               /\ AuthOptions(side, AskedFor(side, "authentication"), AskedFor(side, "credentials"))
               /\ TlsOptions(side, AskedFor(side, "tls_config"))

(* While curl points to a blob, the handler keeps it. *)
BlobsAreKept == \A o \in DOMAIN easy : IsBlob(o) => o \in DOMAIN blobs /\ blobs[o] = easy[o]

(* curl reads a body if and only if there is one, and knows its end: from   *)
(* the size option of the mode it is in, or by chunks.  The server sees the *)
(* method of the request.                                                   *)
RequestIsFramed ==
    phase = "created" =>
        LET curl == http.curl IN
        /\ curl.mode \in {"post", "upload"} <=> http.body.kind # "empty"
        /\ http.body.kind = "empty" => http.size = None /\ ~http.chunked
        /\ http.body.kind # "empty" =>
               \/ http.chunked /\ http.size = None
               \/ ~http.chunked /\ http.size # None
        /\ http.size # None => http.size.option = IF curl.mode = "post" THEN "POSTFIELDSIZE" ELSE "INFILESIZE"
        /\ http.method = IF curl.custom # None THEN curl.custom
                         ELSE CASE curl.mode = "get" -> "GET" [] curl.mode = "nobody" -> "HEAD"
                                [] curl.mode = "post" -> "POST" [] curl.mode = "upload" -> "PUT"
=============================================================================
