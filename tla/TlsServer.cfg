SPECIFICATION FairSpec
CONSTANTS
  Clients = {c1, c2, c3}
  NoClient = NoClient
  MaxDescriptors = 2
INVARIANTS
  TypeOK
  TwoAccepts
  OwnConnections
PROPERTIES
  EveryClientIsAccepted
  LeavingIsNoticed
CHECK_DEADLOCK FALSE
