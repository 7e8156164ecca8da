SPECIFICATION FairSpec
CONSTANTS
  Limits <- TwoRequests
  Deadline <- Never
  Timeout = 1
  RecoveryBudget = 1
  Addresses = 1
  RequestLen = 1
  Tls = FALSE
  PaceDelays = {0, 2}
  ConnectionAttempts = 1
  MaxTime = 12
  MaxLag = 0
  MaxGap = 0
  MaxFaults = 1
  MaxResponses = 3
PROPERTIES
  LatencyFromSlot
CHECK_DEADLOCK FALSE
