\* A queued reply goes out, every claim is released, on_hold follows the folder.
SPECIFICATION MCFairSpec
CONSTANTS
  None = None
  Sweeper = Sweeper
  Subs = {s1}
  Asks = {a1, a2}
  RowIds = {r1, r2}
  Workers = {w1}
  QueueSize = 1
  MaxAttempts = 2
  RetryAfter = 0
  Window = 0
  TTL = 0
  MailKinds = {"broker"}
  MaxMail = 2
  MaxFaults = 1
  MaxCrashes = 1
  MaxMoves = 2
  MaxSweeps = 0
PROPERTIES
  KeepsPromise
  ReplyGoesOut
  ClaimsReleased
  HoldFollowsFolder
\* The budgets run out: a state in which nothing is left to do is no deadlock.
CHECK_DEADLOCK FALSE
