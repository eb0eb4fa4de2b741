SPECIFICATION FairSpec
CONSTANTS
  Buses = 2
  FifoDepth = 1
  QueueSize = 3
  EngageDepth = 2
  ReleaseDepth = 1
  ThrottlePasses = 2
  AuditPasses = 2
  PacketFrames = 3
  FrameCount <- FrameCountDef
INVARIANT TypeOK
PROPERTIES
  BusExact
  ArmedAgain
