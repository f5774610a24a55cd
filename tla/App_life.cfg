\* Three migrations, all goroutines and two reply workers over any number of lives.
SPECIFICATION Spec
CONSTANTS
  Files = {1, 2, 3}
  Loops = {"http", "poller", "outbox", "escalation", "retention"}
  QueueSize = 2
  Workers = 2
INVARIANTS
  AppInv
  MigratedOnce
  NoSendOnClosed
  CleanExit
PROPERTIES
  ListenFailureShows
  ExitsOnSignal
