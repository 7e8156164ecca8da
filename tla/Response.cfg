SPECIFICATION Spec
CONSTANTS
  Responses <- SomeResponses
  NoLength = NoLength
  MaxHeader = 3
  MaxSize = 15
  MaxBytes = 8
  MaxTokens = 4
INVARIANTS
  BufferIsBounded
  AgreesWithWhole
PROPERTY FeedReturns
CHECK_DEADLOCK FALSE
