SPECIFICATION Spec
CONSTANTS
  Clients = {k1, k2}
  Conns = {c1, c2}
  Tokens = {t1, t2}
  MaxItems = 2
  MaxPending = 2
SYMMETRY Symmetry
INVARIANTS
  TypeOK
  RoutesAgree
  ConnectingIsListed
  AnsweredOnceWithItsToken
  RelayedInOrder
PROPERTIES
  TokenKeepsItsConnection
  RelayGoesOn
  ImplementsDirectory
  KeepsClientRoutes
CHECK_DEADLOCK FALSE
