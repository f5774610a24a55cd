\* A failed send, then a hold and its release.
SPECIFICATION MCSpec
CONSTANTS
  None = None
  Sweeper = Sweeper
  Subs = {s1}
  Asks = {a1, a2}
  RowIds = {r1, r2}
  Workers = {w1}
  QueueSize = 1
  MaxAttempts = 2
  RetryAfter = 0
  Window = 0
  TTL = 0
  MailKinds = {"broker"}
  MaxMail = 1
  MaxFaults = 1
  MaxCrashes = 0
  MaxMoves = 2
  MaxSweeps = 0
SYMMETRY Symmetry
INVARIANTS
  AskNotStranded
\* The budgets run out: a state in which nothing is left to do is no deadlock.
CHECK_DEADLOCK FALSE
