\* send() returns, and the model stops
CHECK_DEADLOCK FALSE
CONSTANTS
  Chunks = 4
  PipeSize = 2
  EarlyAnswer = FALSE
SPECIFICATION LiveSpec
INVARIANT UploadIsWhole
PROPERTY SendReturns
