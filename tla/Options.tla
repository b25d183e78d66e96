------------------------------- MODULE Options -------------------------------
(***************************************************************************)
(* The curl options that a configuration value sets: the impls of SetOpt    *)
(* and SetOptProxy (config/, auth.rs, net/interface.rs, tls/).              *)
(*                                                                          *)
(* An option is a side, "origin" or "proxy", and a name without SSL_ or     *)
(* PROXY_; a value's options are a function from options to what curl is    *)
(* given.  A path is "file", or "oddfile" when it is not UTF-8; any other   *)
(* certificate or key is a blob.  None as an option's value is a null.      *)
(***************************************************************************)
EXTENDS Errors, Naturals

CONSTANTS
    Engine,           \* the TLS engine of curl
    PlatformVerifier, \* curl can leave trust to the platform: 8.13.0 or later
    Http2Supported    \* is_http_version_supported(HTTP_2)

Sides == {"origin", "proxy"}

(* Earlier options go before later ones.  TLC's operator is written out, as *)
(* the prover knows neither it nor, unless told, an infix symbol.           *)
Over(f, g) == [o \in DOMAIN f \cup DOMAIN g |-> IF o \in DOMAIN f THEN f[o] ELSE g[o]]
f ++ g == Over(f, g)

Option(side, names, value) == [o \in {side} \X names |-> value]
NoOption == Option("origin", {}, None)
When(condition, options) == IF condition THEN options ELSE NoOption

IsFile(data) == data \in {"file", "oddfile"}

----------------------------------------------------------------------------
(* config/mod.rs, config/dial.rs, config/proxy.rs, net/interface.rs *)
VersionNegotiation(v) ==
    IF v = "latest" THEN When(Http2Supported, Option("origin", {"HTTP_VERSION"}, "V2TLS"))
    ELSE Option("origin", {"HTTP_VERSION"}, v)

ExpectContinue(v) == When(v # "disabled", Option("origin", {"EXPECT_100_TIMEOUT"}, v))

AutomaticDecompression(v) == Option("origin", {"ACCEPT_ENCODING"}, IF v THEN "all" ELSE None)

(* Both options are set, so that a dialer replaces the one before it. *)
Dialer(v) ==
    Option("origin", {"CONNECT_TO"}, IF v = "ip" THEN v ELSE None) ++
    Option("origin", {"UNIX_SOCKET_PATH"}, IF v = "unix" THEN v ELSE None)

(* Proxy: "none" is the empty string, which turns off the environment's. *)
Proxy(v) == Option("origin", {"PROXY"}, v)

Interface(v) == Option("origin", {"INTERFACE"}, IF v = "any" THEN None ELSE v)

DnsCache(v) ==
    Option("origin", {"DNS_CACHE_TIMEOUT"}, CASE v = "disable" -> 0 [] v = "forever" -> 0 - 1 [] OTHER -> v)

----------------------------------------------------------------------------
(* auth.rs *)
Credentials(side, v) == Option(side, {"USERNAME", "PASSWORD"}, v)

Authentication(side, v) ==
    When("negotiate" \in v, Credentials(side, "")) ++ Option(side, {"AUTH"}, v)

----------------------------------------------------------------------------
(* tls/identity.rs, tls/trust/mod.rs, tls/mod.rs.  The certificate of an    *)
(* identity has a key or a password of its own, never both.                 *)
Password(side, v) == When(v # None, Option(side, {"KEYPASSWD"}, v))

PrivateKey(side, v) ==
    Option(side, {"KEYTYPE"}, v.format) ++
    Option(side, {IF IsFile(v.data) THEN "KEY" ELSE "KEY_BLOB"}, v.data) ++
    Password(side, v.password)

Identity(side, v) ==
    Password(side, v.password) ++
    Option(side, {"CERTTYPE"}, v.format) ++
    Option(side, {IF IsFile(v.data) THEN "CERT" ELSE "CERT_BLOB"}, v.data) ++
    IF v.key = None THEN NoOption ELSE PrivateKey(side, v.key)

TrustStore(side, v) ==
    CASE v \in {"noop", "native"} -> NoOption
      [] v = "unset" -> Option(side, {"CAINFO", "CAPATH"}, None)
      [] IsFile(v) -> Option(side, {"CAINFO"}, v)
      [] OTHER -> Option(side, {"CAINFO_BLOB"}, v)

(* TrustStore::new_native *)
NativeStore(envFile) ==
    CASE envFile # None -> envFile
      [] envFile = None /\ Engine = "rustls" /\ PlatformVerifier -> "native"
      [] envFile = None /\ Engine \in {"schannel", "secure-transport"} -> "unset"
      [] OTHER -> "noop"

TlsFlags(v) == {f \in {"no_revoke", "native_ca"} :
                    IF f = "no_revoke" THEN v.acceptRevoked ELSE v.trust = "native"}

(* mutant and correction: set_opt_proxy with the negations of set_opt *)
VerifyAlike(side, v) ==
    Option(side, {"VERIFYPEER"}, ~v.acceptCerts) ++ Option(side, {"VERIFYHOST"}, ~v.acceptHosts)

Verify(side, v) ==
    Option(side, {"VERIFYPEER"}, IF side = "origin" THEN ~v.acceptCerts ELSE v.acceptCerts) ++
    Option(side, {"VERIFYHOST"}, IF side = "origin" THEN ~v.acceptHosts ELSE v.acceptHosts)

TlsConfig(side, v) ==
    When(v.ciphers # None, Option(side, {"CIPHER_LIST"}, v.ciphers)) ++
    Option(side, {"OPTIONS"}, TlsFlags(v)) ++
    Verify(side, v) ++
    Option(side, {"VERSION"}, <<v.min, v.max>>) ++
    TrustStore(side, v.trust) ++
    When(v.issuer # None, Option(side, {"ISSUERCERT_BLOB"}, v.issuer)) ++
    IF v.identity = None THEN NoOption ELSE Identity(side, v.identity)

(* What ends a set_opt before curl is asked: an error or, for the path of   *)
(* an identity, an unwrap.                                                  *)
OldVersions == {"Sslv2", "Sslv3", "Tlsv10", "Tlsv11"}

Paths(identity) == {identity.data} \cup IF identity.key = None THEN {} ELSE {identity.key.data}

Refused(side, v) ==
    CASE side = "origin" /\ Engine = "rustls" /\ v.max \in OldVersions -> "TlsEngine"
      [] side = "proxy" /\ v.trust = "oddfile" -> "InvalidTlsConfiguration"
      [] side = "proxy" /\ v.identity # None /\ "oddfile" \in Paths(v.identity) -> "panic"
      [] OTHER -> None

(* The options whose blobs curl reads where they are. *)
IsBlob(option) == option[2] \in {"CERT_BLOB", "KEY_BLOB", "CAINFO_BLOB"}
=============================================================================
