CONSTANTS
  Reqs = {1, 2, 3}
  Cores = {1, 2}
  Placement <- MCPlacement
  Plans <- MCPlans
  Faults = {"npu_fails", "npu_hangs"}
  MaxPending = 2
  MaxLen = 160
  HeadMax = 96
  MaxCandidates = 2
  History = 2
  Reasons = {"r1", "r2"}
  Tasks = {"r1"}
  Requested <- MCRequested
  Configs <- MCConfigs
  Limits <- MCLimits
  SeqBuckets = {32, 64}
SPECIFICATION MCSpec
INVARIANT CoresSerial
INVARIANT AsksExactly
INVARIANT BacklogBounded
INVARIANT DecisionsSound
PROPERTY EveryoneAnswered
CHECK_DEADLOCK FALSE
