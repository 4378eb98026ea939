SPECIFICATION Spec
CONSTANTS
  HeaderSize = 2
  MaxPackets = 3
  Sizes = {2}
INVARIANT
  ReadsDoNotOverlap
CHECK_DEADLOCK FALSE
