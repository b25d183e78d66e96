\* send() returns, or does not, and the model stops
CHECK_DEADLOCK FALSE
CONSTANTS
  Chunks = 4
  PipeSize = 2
  EarlyAnswer = TRUE
SPECIFICATION LiveSpec
PROPERTY AnswerIsReturned
