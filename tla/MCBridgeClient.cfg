CONSTANTS
  LeaseTicks = 2
  MaxLease = 3
  Failures = TRUE
  Size = 3
  MaxBatch = 3
  MaxSample = 5
SPECIFICATION MCSpec
INVARIANTS
  UploaderUndisturbed
PROPERTIES
  PttOffEnds
  
  CarrierEnds
  ShutdownEnds
  TakesOldest
