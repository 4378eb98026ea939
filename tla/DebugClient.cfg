SPECIFICATION FairSpec
CONSTANTS
  Amounts <- MCAmounts
  MaxStream = 1563
  Room = 2
INVARIANTS TypeOK ShownAsSent BreaksOnlyAfterLateWrite OneReadAtATime
PROPERTY StreamIsShown
CHECK_DEADLOCK FALSE
