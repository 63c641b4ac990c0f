SPECIFICATION FairSpec
CONSTANTS
  Draft = {d1}
  Solo = TRUE
  MaxStarts = 3
  MaxEvents = 3
CHECK_DEADLOCK FALSE
INVARIANT TypeOK
