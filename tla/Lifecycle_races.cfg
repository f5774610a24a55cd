\* One submission: mail of every kind against every pass of the worker.
SPECIFICATION MCFairSpec
CONSTANTS
  Never = Never
  Subs = {s1}
  BindDates = {1}
  QuietAfter <- LongQuiet
  MinQuiet = 0
  BindWindow = 1
  BindGrace = 0
  MinGap = 1
  AutoClose = 1
  StalledClose = 2
  StaleBatch = 1
  SweepBatch = 1
  MaxLag = 1
  Horizon = 4
  MailKinds = {"broker", "auto", "bounce", "transient"}
  MaxMail = 2
  MaxFaults = 1
  MaxCrashes = 1
  MaxHolds = 1
INVARIANTS
  LifecycleInv
  StampsMatchState
  MailAlwaysFits
PROPERTIES
  CompletionDateKept
  EventuallyClosed
