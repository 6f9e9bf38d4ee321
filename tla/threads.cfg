SPECIFICATION FairSpec
CONSTANTS
  ClientPerNode = 3
  OpNum = 2
  QPsFail = TRUE
INVARIANTS TypeOK OwnCompletion
PROPERTIES IsClient RunEnds
CHECK_DEADLOCK FALSE
