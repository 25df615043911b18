\* A pool that is funded at odds, traded on, shared and emptied; two reads.
CONSTANTS
  Accounts = {alice, bob}
  ONE = 2
  Fee = 1
  Endowment = 3
  Stakes = {1, 2}
  Hints <- Skewed
  MaxShares = 4
  MaxWeight = 4
  MaxDrift = 1
  Requests = {r1, r2}
  MaxIndexed = 2
  MaxReads = 2
  MaxMisses = 1
SPECIFICATION PoolSpec
SYMMETRY Symmetry
INVARIANTS FeesBacked TvlFresh
PROPERTIES ProductKept DriftStays
CHECK_DEADLOCK FALSE
