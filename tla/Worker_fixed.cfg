SPECIFICATION FairSpec
CONSTANTS
  Limits <- OneEach
  Deadline <- Never
  Timeout = 1
  RecoveryBudget = 1
  Addresses = 1
  RequestLen = 1
  Tls = FALSE
  PaceDelays = {}
  ConnectionAttempts = 1
  MaxTime = 4
  MaxLag = 0
  MaxGap = 0
  MaxFaults = 1
  MaxResponses = 3
INVARIANTS
  TypeOK
  ActiveIsLive
  Accounting
PROPERTIES
  RecoveryIsCounted
  Termination
