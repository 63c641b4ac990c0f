CONSTANTS
  Token <- MCToken
  Player <- MCPlayer
  Dm = "dm"
  Owner <- MCOwner
  Order <- MCOrder
  PartyCap = 2
  Budget = 2
  Wants <- MCWants
  MaxAsk = 1
  MaxTurns = 1
SPECIFICATION Spec
PROPERTY OnlyActiveActs
CHECK_DEADLOCK FALSE
