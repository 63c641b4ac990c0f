SPECIFICATION Spec
CONSTANTS
  RollCap = 2
  MessageCap = 2
  FindCap = 2
  Book <- SmallBook
  SheetFields <- Integers2
  Documents <- BothBoards
  Errands <- SomeErrands
  DieFaces <- AnyFace
  Words <- AnyWord
  Foreign <- ByOthers
INVARIANTS
  UndoRestores
  FogFollows
  ReachHolds
  WalksFit
PROPERTIES
  TurnKept
  FreshIds
  RemoteFollows
CHECK_DEADLOCK FALSE
