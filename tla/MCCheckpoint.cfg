SPECIFICATION FairSpec
CONSTANTS
  Draft = {d1}
  Solo = TRUE
  MaxStarts = 3
  MaxEvents = 3
INVARIANTS CopiesNested
PROPERTIES LineageKept ReportsSettle
CHECK_DEADLOCK FALSE
