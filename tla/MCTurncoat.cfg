CONSTANTS
  Token <- MCToken
  Player <- MCPlayer
  Dm = "dm"
  Owner <- MCOwner
  Order <- MCFreePlay
  PartyCap = 3
  Budget = 2
  Wants <- MCWants
  MaxAsk = 2
  MaxTurns = 0
SPECIFICATION Spec
PROPERTY OnlyOwnersAct
CHECK_DEADLOCK FALSE
