CONSTANTS
  None = None
  Engine = "openssl"
  PlatformVerifier = TRUE
  Http2Supported = TRUE
  Value <- MCValue
  Headers = {"x", "y", "bad"}
  BadHeaders = {"bad"}
  Method = {"GET", "HEAD", "POST", "PUT", "PATCH"}
  Content <- MCContent
  ContentLength = {None, 3}
  MaxCalls = 2
  Reply <- MCReply
  ChunkSize = 2
  MaxTime = 2
SPECIFICATION Spec
INVARIANT ProxyIsVerified
CHECK_DEADLOCK FALSE
