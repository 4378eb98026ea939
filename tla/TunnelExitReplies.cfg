SPECIFICATION Spec
CONSTANTS
  Clients = {k1}
  Conns = {c1, c2}
  Tokens = {t1, t2}
  MaxItems = 2
  MaxPending = 2
INVARIANT
  RepliesIntact
CHECK_DEADLOCK FALSE
