------------------------------- MODULE MCClient -------------------------------
EXTENDS Client

DefaultTls == [ciphers |-> None, acceptCerts |-> FALSE, acceptHosts |-> FALSE, acceptRevoked |-> FALSE,
               min |-> None, max |-> None, trust |-> NativeStore(None), issuer |-> None, identity |-> None]
Keyed(data, key) == [format |-> "pem", data |-> data, password |-> None,
                     key |-> [format |-> "pem", data |-> key, password |-> "k"]]
Pkcs12 == [format |-> "p12", data |-> "p12-c", password |-> "p", key |-> None]
CustomTls == {
    [DefaultTls EXCEPT !.ciphers = "c", !.acceptRevoked = TRUE, !.min = "Tlsv12", !.max = "Tlsv13", !.trust = "pem-1", !.identity = Pkcs12],
    [DefaultTls EXCEPT !.issuer = "pem-2", !.trust = "file", !.acceptHosts = TRUE, !.identity = Keyed("file", "pem-k")],
    [DefaultTls EXCEPT !.max = "Tlsv11", !.trust = "unset"],
    [DefaultTls EXCEPT !.acceptCerts = TRUE, !.trust = "oddfile"],
    [DefaultTls EXCEPT !.trust = "pem-3", !.identity = Keyed("pem-c", "oddfile")]}

MCValue == [f \in Field |-> [
    default |-> IF f = "tls_config" THEN DefaultTls ELSE None,
    values |->
        CASE f = "version_negotiation" -> {"latest", "V1_1"}
          [] f \in {"automatic_decompression", "auto_referer", "title_case_headers", "enable_metrics", "tcp_nodelay"} -> {FALSE, TRUE}
          [] f = "expect_continue" -> {"disabled", "1s"}
          [] f \in {"authentication", "proxy_authentication"} -> {{"basic"}, {"basic", "negotiate"}}
          [] f = "interface" -> {"any", "eth0"}
          [] f = "dial" -> {"default", "ip", "unix"}
          [] f = "proxy" -> {"none", "http://p"}
          [] f \in {"tls_config", "proxy_tls_config"} -> CustomTls
          [] f = "dns_cache" -> {"disable", "forever", "60s"}
          [] f \in {"credentials", "timeout"} -> {"v", "w"}
          [] OTHER -> {"v"}]]

MCContent == {[kind |-> "empty", length |-> 0], [kind |-> "buffer", length |-> 0],
              [kind |-> "reader", length |-> None], [kind |-> "reader", length |-> 5]}

Answer(length, encoding, charset, bytes, fate) ==
    [length |-> length, encoding |-> encoding, charset |-> charset, bytes |-> bytes, fate |-> fate]
MCReply ==
    {Answer(length, encoding, "unheard-of", bytes, "ok") :
        length \in {None, 1, 3}, encoding \in {None, "identity", "gzip"},
        bytes \in {<<>>, <<"a">>, <<"a", "lead", "cont">>, <<"lead", "lead", "cont", "cont", "lead">>}} \cup
    {Answer(None, None, charset, <<"a", "lead", "cont">>, "ok") : charset \in {None, "windows-1252"}} \cup
    {Answer(5, "gzip", None, <<"a">>, fate) : fate \in {"unfinished", "PARTIAL_FILE", "OPERATION_TIMEDOUT", "BAD_CONTENT_ENCODING"}}
=============================================================================
