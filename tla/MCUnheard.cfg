CONSTANTS
  Token <- MCToken
  Player <- MCPlayer
  Dm = "dm"
  Owner <- MCOwner
  Order <- MCFreePlay
  PartyCap = 2
  Budget = 2
  Wants <- MCCourting
  MaxAsk = 1
  MaxTurns = 0
SPECIFICATION FairSpec
PROPERTY AsksAreHeard
CHECK_DEADLOCK FALSE
