CONSTANTS
  Games <- MCGames
  Stores <- MCStores
  Errands <- MCErrands
  Modes = {"solo", "hosted"}
  Proposals <- MCProposals
  Templates = {"rope"}
  Nonces = {0}
  MaxSteps = 4
  MaxClock = 2
SPECIFICATION Spec
\* Each of the three is violated; TLC names the first it meets.  Keep one to see its own counterexample.
INVARIANTS
  OneItemOnePack
PROPERTIES
  EffectsDelivered
  BankBuysOnce
CHECK_DEADLOCK FALSE
