SPECIFICATION Spec
CONSTANTS
  Inputs <- StarInputs
  NoStamp = NoStamp
  BadStamp = BadStamp
  Unset = Unset
  MaxPatterns = 2
  MaxPattern = 5
  TooLong <- MoreThanTwo
  MaxCount = 4
  MaxLines = 3
INVARIANTS
  ReplaysTheWanted
CHECK_DEADLOCK FALSE
