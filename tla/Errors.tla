-------------------------------- MODULE Errors --------------------------------
(***************************************************************************)
(* Kinds of errors (error.rs): the kind that each failure of curl is given, *)
(* and the two conversions with io::Error, through which an error goes when *)
(* it is met by a reader.                                                   *)
(***************************************************************************)
CONSTANT None

ErrorKind == {
    "BadClientCertificate", "BadServerCertificate", "ClientInitialization", "ConnectionFailed", "InvalidContentEncoding",
    "InvalidCredentials", "InvalidRequest", "InvalidTlsConfiguration", "Io", "NameResolution", "ProtocolViolation",
    "RequestBodyNotRewindable", "Timeout", "TlsEngine", "TooManyRedirects", "Unknown"}

(* External: io::ErrorKind, as much of it as is met. *)
IoKind == {"ConnectionRefused", "ConnectionAborted", "TimedOut", "Other"}

(* An error's kind and an io::Error are always something. *)
ASSUME NoneAssumption == None \notin ErrorKind /\ None \notin [io : IoKind, inner : ErrorKind \cup {None}]

(* Error::from_any for a curl::Error; a code is curl's without CURLE_. *)
KindOf(code) ==
    CASE code = "SSL_CERTPROBLEM" -> "BadClientCertificate"
      [] code \in {"PEER_FAILED_VERIFICATION", "SSL_CACERT", "SSL_CIPHER", "SSL_ISSUER_ERROR"} -> "BadServerCertificate"
      [] code = "INTERFACE_FAILED" -> "ClientInitialization"
      [] code \in {"COULDNT_CONNECT", "SSL_CONNECT_ERROR"} -> "ConnectionFailed"
      [] code \in {"BAD_CONTENT_ENCODING", "CONV_FAILED"} -> "InvalidContentEncoding"
      [] code = "LOGIN_DENIED" -> "InvalidCredentials"
      [] code = "URL_MALFORMAT" -> "InvalidRequest"
      [] code = "SSL_CACERT_BADFILE" -> "InvalidTlsConfiguration"
      [] code \in {"COULDNT_RESOLVE_HOST", "COULDNT_RESOLVE_PROXY"} -> "NameResolution"
      [] code \in {"GOT_NOTHING", "HTTP2", "HTTP2_STREAM", "UNSUPPORTED_PROTOCOL", "FTP_WEIRD_SERVER_REPLY"} -> "ProtocolViolation"
      [] code \in {"SEND_ERROR", "RECV_ERROR", "READ_ERROR", "WRITE_ERROR", "UPLOAD_FAILED", "SEND_FAIL_REWIND",
                   "ABORTED_BY_CALLBACK", "PARTIAL_FILE"} -> "Io"
      [] code \in {"SSL_ENGINE_INITFAILED", "SSL_ENGINE_NOTFOUND", "SSL_ENGINE_SETFAILED"} -> "TlsEngine"
      [] code = "OPERATION_TIMEDOUT" -> "Timeout"
      [] code = "TOO_MANY_REDIRECTS" -> "TooManyRedirects"
      [] OTHER -> "Unknown"

(* An io::Error has a kind of its own and may hold an Error. *)
ToIo(kind) ==
    [io |-> CASE kind = "ConnectionFailed" -> "ConnectionRefused"
              [] kind = "Timeout" -> "TimedOut"
              [] OTHER -> "Other",
     inner |-> kind]

Aborted == [io |-> "ConnectionAborted", inner |-> None]

(* mutant: the error that is wrapped is not looked for *)
FromIoKind(e) ==
    CASE e.io = "ConnectionRefused" -> "ConnectionFailed"
      [] e.io = "TimedOut" -> "Timeout"
      [] OTHER -> "Io"

FromIo(e) ==
    CASE e.inner # None -> e.inner
      [] e.inner = None /\ e.io = "ConnectionRefused" -> "ConnectionFailed"
      [] e.inner = None /\ e.io = "TimedOut" -> "Timeout"
      [] OTHER -> "Io"
=============================================================================
