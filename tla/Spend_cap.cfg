\* A cap of three dearest-but-one answers over three days.
SPECIFICATION MCFairSpec
CONSTANTS
  Cap = 3
  MaxCost = 2
  Attempts = 3
  LastDay = 2
  MaxFaults = 2
INVARIANTS
  CapHolds
  AnswersRecorded
  CappedIsAudited
  SpendInv
PROPERTY CallEnds
