SPECIFICATION FairSpec
CONSTANTS
  HeaderSize = 2
  MaxPackets = 1
  Sizes = {2}
PROPERTY
  ErrorAnswerCloses
CHECK_DEADLOCK FALSE
