CONSTANTS
  Token <- MCToken
  Player <- MCPlayer
  Dm = "dm"
  Owner <- MCOwner
  Order <- MCFreePlay
  PartyCap = 2
  Budget = 2
  Wants <- MCCourting
  MaxAsk = 3
  MaxTurns = 0
SPECIFICATION Spec
INVARIANT PartyCapHeld
CHECK_DEADLOCK FALSE
