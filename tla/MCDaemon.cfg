CONSTANTS
  LeaseMs = 2
  HardMs = 3
  Timeouts <- MCTimeouts
  MaxKeyMs = 4
  LoopMs = 1
  Prebuffer = 1
  MaxLeases = 2
  MaxAge = 5
SPECIFICATION Spec
CHECK_DEADLOCK FALSE
INVARIANTS
  UnderStationLease
  TuneAgrees
  SessionAgrees
  LeasesBounded
  StreamOfSession
