CONSTANTS
  Games <- MCGames
  Stores <- MCStores
  Errands <- MCErrands
  Modes = {"solo", "hosted"}
  Proposals <- MCProposals
  Templates = {"rope"}
  Nonces = {0}
  MaxSteps = 4
  MaxClock = 2
SPECIFICATION Spec
INVARIANTS ItemsApart RowsFollow
PROPERTIES BatchesWhole SecretsKept BankBuysOnceAlone WorldRemembers
CHECK_DEADLOCK FALSE
