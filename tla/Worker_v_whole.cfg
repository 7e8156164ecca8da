SPECIFICATION Spec
CONSTANTS
  Limits <- OneRequest
  Deadline <- Never
  Timeout = 1
  RecoveryBudget = 1
  Addresses = 1
  RequestLen = 2
  Tls = FALSE
  PaceDelays = {}
  ConnectionAttempts = 1
  MaxTime = 12
  MaxLag = 0
  MaxGap = 0
  MaxFaults = 1
  MaxResponses = 2
INVARIANTS
  WholeRequest
