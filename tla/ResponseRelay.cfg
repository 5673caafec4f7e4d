SPECIFICATION MCFairSpec
CONSTANTS
  MaxBody = 7
  ReadSize = 4
  ObserveSize = 2
  CaptureLimit = 4
  None = None
  MaxPieces = 4
INVARIANTS
  NothingLost
  LogCoversClient
  CompleteMeansComplete
  CaptureExact
  ConversionFaithful
PROPERTIES
  NobodyHeld
