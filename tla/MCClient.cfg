CONSTANTS
  None = None
  Engine = "rustls"
  PlatformVerifier = TRUE
  Http2Supported = TRUE
  Value <- MCValue
  Headers = {"x", "y", "bad"}
  BadHeaders = {"bad"}
  Method = {"GET", "HEAD", "POST", "PUT", "PATCH"}
  Content <- MCContent
  ContentLength = {None, 3}
  MaxCalls = 2
  Reply <- MCReply
  ChunkSize = 2
  MaxTime = 2
SPECIFICATION Spec
INVARIANTS BuildRefusesBadHeaders OptionsAreConfigured BlobsAreKept RequestIsFramed AnswerIsWhole LengthIsRead ErrorKeepsKind DurationsAreNotNegative
CHECK_DEADLOCK FALSE
