\* Nested positions over two binary conditions; three-way results.
CONSTANTS
  Accounts = {alice}
  Conditions = {c1, c2}
  Outcomes = {yes, no}
  Endowment = 2
  Amounts = {1, 2}
  MaxNumerator = 1
  MaxSupply = 2
  Holders = {bob, carol}
  Race = {c3}
  Runners = {r1, r2, r3}
SPECIFICATION MCSpec
SYMMETRY Alike
INVARIANTS LedgerSolvent LedgerExact
