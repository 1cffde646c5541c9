SPECIFICATION MemSpec
CONSTANTS
  Id = {1, 2}
  Moment = {1, 2}
  Limit = 1
  NewReleases <- MCNewReleases
  Moves <- MCMoves
  Budget = 2
  Expiry = 2
  RefusedInTransaction = {}
  MaxWrites = 4
INVARIANT IndexesAgree
PROPERTY Parity
VIEW MCView
CHECK_DEADLOCK FALSE
