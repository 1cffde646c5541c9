SPECIFICATION MemSpec
CONSTANTS
  Id = {1, 2}
  Moment = {1, 2}
  Limit = 1
  NewReleases <- MCNewReleases
  Moves <- MCMoves
  Budget = 2
  Expiry = 2
  RefusedInTransaction = {"purchases"}
  MaxWrites = 4
PROPERTY Parity
VIEW MCView
CHECK_DEADLOCK FALSE
