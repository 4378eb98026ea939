SPECIFICATION FairSpec
CONSTANTS
  HeaderSize = 1
  MaxPackets = 3
  Sizes = {2}
INVARIANTS
  TypeOK
  StatsAlwaysFound
  NeverStarvedMidPacket
  HandledAsSent
  HeardUnlessConnectOrData
PROPERTIES
  KeepsSession
  KeepsRoutes
  PartialPacketIsFinished
CHECK_DEADLOCK FALSE
