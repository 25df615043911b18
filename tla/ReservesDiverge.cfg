\* The indexed reserves against the pool's once somebody trades.
CONSTANTS
  Accounts = {alice, bob}
  ONE = 10
  Fee = 1
  Endowment = 8
  Stakes = {2, 4}
  Hints = {}
  MaxShares = 4
  MaxWeight = 6
  MaxDrift = 4
SPECIFICATION IndexedSpec
SYMMETRY Symmetry
INVARIANTS Mirrors
CHECK_DEADLOCK FALSE
