CONSTANTS
  Null = Null
  MaxAmount = 500
  MaxCartLines = 2
  Mandates <- MCMandates
  Catalogue <- MCCatalogue
  ItemStates <- MCItemStates
  FeeQuotes <- MCFeeQuotes
  Requests <- MCRequests
  Judgements <- MCJudgements
  SnapshotTtl = 2
  MaxAttempts = 2
  MaxDrift = 1
  Horizon = 2
SPECIFICATION WorldSpec
INVARIANTS AllowIsWithinMandate LinesAreAsHonoured PolicyIsHeld ReplayReproduces
PROPERTIES OnlyTheKernelAllows
CHECK_DEADLOCK FALSE
