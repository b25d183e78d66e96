CONSTANTS
  Socket = {s1}
  Interest <- MCInterest
  None = None
  Remove = Remove
  WaitTimeout = 2
  MaxClock = 4
SPECIFICATION LiveSpec
INVARIANTS WatchedIsArmed NothingElseIsArmed RearmingIsSafe TimerIsCurls
PROPERTIES TimeoutIsServed WatchIsHonoured
