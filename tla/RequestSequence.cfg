SPECIFICATION Spec
CONSTANTS
  Threads = {w1, w2}
  NoThread = NoThread
  Stamps <- ThreeStamps
  Speed = 2
  Interval = 2
  Stages <- TwoStages
  Configured <- SomeOptions
  MaxCalls = 5
  MaxTime = 4
SYMMETRY AnyThread
INVARIANTS
  RoundsAreEven
  SlotsAreSpaced
  LogOrderIsKept
  StageQuota
CHECK_DEADLOCK FALSE
