\* A message that outlasts the poll timeout.
SPECIFICATION MCFairSpec
CONSTANTS
  Unset = Unset
  N = 2
  EmailID <- Redelivered
  Nature <- SlowFirst
  IgnoreBefore = Unset
  BatchLimit = 1
  MaxAttempts = 2
  MaxFaults = 0
  MaxCrashes = 0
PROPERTIES
  NothingRetriedForever
CHECK_DEADLOCK FALSE
