SPECIFICATION Spec
CONSTANTS
  Games   <- MCGames
  Errands <- MCErrands
  Marches <- MCMarches
  News    <- MCNews
  TickCap = 3
CHECK_DEADLOCK FALSE
INVARIANT RowsTellTruth
PROPERTIES TripsPaid LiveStaysLive
