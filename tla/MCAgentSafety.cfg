CONSTANTS
  Request = {r1, r2}
  Key = {k1, k2}
  None = None
  Dir = {"write"}
  MaxQueue = 1
  MayFail = TRUE
SPECIFICATION Spec
INVARIANTS NoStrandedMessage NoLostUnpause OwnResult CleanShutdown
PROPERTY KeepsContract
SYMMETRY Symmetry
