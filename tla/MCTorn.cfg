SPECIFICATION Spec
CONSTANTS
  Draft = {}
  Solo = FALSE
  MaxStarts = 1
  MaxEvents = 1
INVARIANT CheckpointReplays
CHECK_DEADLOCK FALSE
