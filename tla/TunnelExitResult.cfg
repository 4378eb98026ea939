SPECIFICATION FairSpec
CONSTANTS
  Clients = {k1}
  Conns = {c1, c2}
  Tokens = {t1, t2}
  MaxItems = 2
  MaxPending = 2
PROPERTY
  ResultIsGiven
CHECK_DEADLOCK FALSE
