\* A redelivered email behind a batch of poisoned messages, across a crash.
SPECIFICATION MCFairSpec
CONSTANTS
  Unset = Unset
  N = 8
  EmailID <- Redelivered
  Nature <- Assorted
  IgnoreBefore = Unset
  BatchLimit = 2
  MaxAttempts = 2
  MaxFaults = 1
  MaxCrashes = 1
INVARIANTS
  ReadMeansHandled
  FiledIsRead
  PollerInv
PROPERTIES
  GoodMailIngested
  PoisonQuarantined
\* All mail is read: a state in which nothing is left to do is no deadlock.
CHECK_DEADLOCK FALSE
