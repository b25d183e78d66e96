CONSTANTS
  Thread = {t1, t2}
  MaxEdition = 1
  None = None
  Lower <- MCLower
  Ip <- MCIp
  Received <- MCReceived
  Offered <- MCOffered
  Suffix <- MCSuffix
  MaxClock = 1
SPECIFICATION LiveSpec
INVARIANTS LookupsAreIsolated OneRefreshPerTtl
PROPERTIES KeepsStore SetsAreAllowed SetsEnd
