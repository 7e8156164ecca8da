SPECIFICATION FairSpec
CONSTANTS
  Limits <- OneRequest
  Deadline = 3
  Timeout = 1
  RecoveryBudget = 1
  Addresses = 1
  RequestLen = 1
  Tls = FALSE
  PaceDelays = {0, 2}
  ConnectionAttempts = 1
  MaxTime = 4
  MaxLag = 4
  MaxGap = 1
  MaxFaults = 1
  MaxResponses = 2
PROPERTIES
  Termination
CHECK_DEADLOCK FALSE
