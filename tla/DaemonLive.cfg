CONSTANTS
  LeaseMs = 2
  HardMs = 2
  Timeouts <- MCTimeouts
  MaxKeyMs = 3
  LoopMs = 1
  Prebuffer = 1
  MaxLeases = 1
  MaxAge = 5
SPECIFICATION FairSpec
CHECK_DEADLOCK FALSE
PROPERTIES
  TransmissionEnds
  ClientsForgotten
