CONSTANTS
  Clients <- MCClients
  Bytes = 2
  FrameSamples = 2
  Capacity = 2
  MaxSample = 3
SPECIFICATION FairSpec
INVARIANTS
  InOrder
PROPERTIES
  WholeFrames
  FramesFinish
