CONSTANTS
  Responses = 2
  BodyChunks = 2
  UploadChunks = 1
  PipeSize = 1
  Waiter = {w}
  TimedWaiter = {t}
  Unset = Unset
SPECIFICATION LiveSpec
INVARIANTS HeadersOfFinalResponse NoSilentTruncation TrailerReadyAtEof ErrorIsTheFirst
PROPERTIES SettledOnce EverybodyIsReleased
