SPECIFICATION Spec
CONSTANTS
  Games   <- MCGames
  Errands <- MCErrands
  Marches <- MCMarches
  News    <- MCNews
  TickCap = 3
CHECK_DEADLOCK FALSE
\* Each of the five is violated; TLC names the first it meets.  Keep one to see its own counterexample.
PROPERTIES
  PrefixKept
  LegsTravelled
  OrdersAreMoves
  PacesAreSent
  HiddenStaysHidden
