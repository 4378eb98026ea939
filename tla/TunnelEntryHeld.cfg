SPECIFICATION Spec
CONSTANTS
  HeaderSize = 2
  MaxPackets = 3
  Sizes = {2}
INVARIANT
  HeldUntilShutdown
CHECK_DEADLOCK FALSE
