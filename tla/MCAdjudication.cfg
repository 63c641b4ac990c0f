CONSTANTS
  Token <- MCToken
  Player <- MCPlayer
  Dm = "dm"
  Owner <- MCOwner
  Order <- MCOrder
  PartyCap = 2
  Budget = 2
  Wants <- MCWants
  MaxAsk = 2
  MaxTurns = 1
SPECIFICATION FairSpec
INVARIANTS AskHeldOnce MirrorSettles BatchHoldsCap
CHECK_DEADLOCK FALSE
PROPERTIES HeardWhenAttended ViewFollows
