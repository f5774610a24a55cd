\* One submission: every race on its reply, with faults, a crash and a hold.
SPECIFICATION MCSpec
CONSTANTS
  None = None
  Sweeper = Sweeper
  Subs = {s1}
  Asks = {a1, a2}
  RowIds = {r1, r2, r3}
  Workers = {w1}
  QueueSize = 1
  MaxAttempts = 2
  RetryAfter = 0
  Window = 0
  TTL = 0
  MailKinds = {"broker"}
  MaxMail = 3
  MaxFaults = 2
  MaxCrashes = 1
  MaxMoves = 2
  MaxSweeps = 0
SYMMETRY Symmetry
INVARIANTS
  SingleOwner
  ClaimsAccounted
  NoUnexplainedRepeat
  SentWasDelivered
  OutboxInv
PROPERTIES
  KillSwitchSilent
\* The budgets run out: a state in which nothing is left to do is no deadlock.
CHECK_DEADLOCK FALSE
