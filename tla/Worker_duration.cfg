SPECIFICATION FairSpec
CONSTANTS
  Limits <- OneRequest
  Deadline = 2
  Timeout = 1
  RecoveryBudget = 1
  Addresses = 2
  RequestLen = 1
  Tls = FALSE
  PaceDelays = {1, 3}
  ConnectionAttempts = 1
  MaxTime = 3
  MaxLag = 3
  MaxGap = 1
  MaxFaults = 2
  MaxResponses = 2
INVARIANTS
  NeverFallsThrough
  ParkedIsWoken
  TimersInOrder
PROPERTIES
  KeepsContract
  StartsAreChecked
  TerminationUnlessStranded
CHECK_DEADLOCK FALSE
