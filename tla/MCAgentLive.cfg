CONSTANTS
  Request = {r1}
  Key = {k1}
  None = None
  Dir = {"read", "write"}
  MaxQueue = 2
  MayFail = FALSE
SPECIFICATION LiveSpec
PROPERTIES FiredWakerResumes DropEnds MessagesAreHandled
