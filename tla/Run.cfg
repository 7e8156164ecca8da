SPECIFICATION Spec
CONSTANTS
  Uris = {a, b, c, d}
  Capacity = 2
  NoLimit = NoLimit
  Requests <- SomeRequests
  MaxConnections = 3
  MaxThreads = 2
  MaxResponses = 4
SYMMETRY AnyUri
INVARIANTS
  SplitIsExact
  RunAccounts
  NoWorkerOutlivesTheRun
  TopBounds
  HeavyHittersTracked
