CONSTANTS
  Requests = {r1, r2}
  Room = 2
  Budgets <- MCBudgets
  Forms = {f1, f2}
  Funds = 2
  Amounts = {1, 2}
  MaxAsked = 2
  MaxTyped = 2
  MaxFaults = 1
  Markets = {1, 2}
  CONCURRENCY = 1
  MaxStats = 2
  MaxHeard = 1
  MaxChanges = 1
  Live = {2}
  MaxTrades = 1
  MaxTime = 2
  MaxMoves = 1
  Users = {1, 2}
  Tokens = {1, 2}
  MAX_FEE = 1
  Fees = {0, 1, 2}
  Lists <- NoneOrBoth
  SlotCounts = {2, 3}
  MaxMakers = 1
SPECIFICATION MarketsSpec
INVARIANTS FundedWhenOk FormTrue
PROPERTIES PoolKept MarketGetsFunded MarketsTrue
\* Requests and calls come to the end of their bounds.
CHECK_DEADLOCK FALSE
