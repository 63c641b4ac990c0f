SPECIFICATION Spec
CONSTANTS
  Draft = {}
  Solo = FALSE
  MaxStarts = 2
  MaxEvents = 2
INVARIANT VerdictsReplay
CHECK_DEADLOCK FALSE
