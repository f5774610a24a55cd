\* Two submissions share the channel; all kinds of mail, with backoff, spacing
\* and expiry.
SPECIFICATION MCSpec
CONSTANTS
  None = None
  Sweeper = Sweeper
  Subs = {s1, s2}
  Asks = {a1, a2}
  RowIds = {r1, r2}
  Workers = {w1, w2}
  QueueSize = 1
  MaxAttempts = 2
  RetryAfter = 1
  Window = 1
  TTL = 1
  MailKinds = {"broker", "merged", "auto", "bounce", "transient"}
  MaxMail = 2
  MaxFaults = 1
  MaxCrashes = 0
  MaxMoves = 0
  MaxSweeps = 1
SYMMETRY Symmetry
INVARIANTS
  ClaimsAccounted
PROPERTIES
  KeepsPromise
\* The budgets run out: a state in which nothing is left to do is no deadlock.
CHECK_DEADLOCK FALSE
