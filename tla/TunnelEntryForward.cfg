SPECIFICATION FairSpec
CONSTANTS
  HeaderSize = 1
  MaxPackets = 3
  Sizes = {1}
PROPERTY
  DataIsForwarded
CHECK_DEADLOCK FALSE
