CONSTANTS
  Responses = 2
  BodyChunks = 2
  UploadChunks = 1
  PipeSize = 1
  Waiter = {}
  TimedWaiter = {}
  Unset = Unset
SPECIFICATION Spec
INVARIANT UploadIsWhole
