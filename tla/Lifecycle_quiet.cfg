\* Two submissions and a batch of one, with the sweep of stalled ones off: quiet
\* submissions are escalated, or a batch that no nudge can help is ahead of them.
SPECIFICATION MCFairSpec
CONSTANTS
  Never = Never
  Subs = {s1, s2}
  BindDates = {}
  QuietAfter <- LongQuiet
  MinQuiet = 0
  BindWindow = 0
  BindGrace = 0
  MinGap = 1
  AutoClose = 0
  StalledClose = 0
  StaleBatch = 1
  SweepBatch = 1
  MaxLag = 1
  Horizon = 3
  MailKinds = {"broker", "bounce"}
  MaxMail = 2
  MaxFaults = 1
  MaxCrashes = 1
  MaxHolds = 1
PROPERTIES
  QuietIsEscalated
