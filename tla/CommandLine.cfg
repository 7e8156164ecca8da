SPECIFICATION CommandSpec
CONSTANTS
  Inputs <- SomeInputs
  Commands <- SomeCommands
  Outcomes <- OutcomesOf
  Bad = Bad
  NoStamp = NoStamp
  BadStamp = BadStamp
  Unset = Unset
  MaxPatterns = 2
  MaxPattern = 5
  TooLong <- MoreThanTwo
  MaxCount = 4
  MaxLines = 3
  MaxLatency = 12
  SubBuckets = 4
  Average <- AverageOf
  Divide <- Quotient
  Times <- Product
  InSeconds <- Seconds
  Milli = 2
  Second = 8
INVARIANTS
  RefusedForCause
  ReplaysTheWanted
  LoadAccounts
  EngineAgrees
  NothingIgnored
  GateHolds
  TablesAgree
CHECK_DEADLOCK FALSE
