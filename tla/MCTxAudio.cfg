CONSTANTS
  FrameBytes = 2
  Capacity = 2
  Prebuffer = 1
  PrebufferRoom = 2
  Transfers = 2
  SlotFrames = 1
  MaxFrames = 4
SPECIFICATION FairSpec
INVARIANTS
  NothingStale
  OneSourceInOrder
  NoFrameLost
  DrainBounded
PROPERTIES
  DrainReportTrue
  DrainFinishes
