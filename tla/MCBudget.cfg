CONSTANTS
  Token <- MCToken
  Player <- MCPlayer
  Dm = "dm"
  Owner <- MCOwner
  Order <- MCOrder
  PartyCap = 3
  Budget = 1
  Wants <- MCCourting
  MaxAsk = 3
  MaxTurns = 0
SPECIFICATION Spec
INVARIANT BudgetHeld
CHECK_DEADLOCK FALSE
