CONSTANTS
  Accounts = {alice, bob}
  Me = alice
  ONE = 8
  Fee = 1
  Endowment = 4
  Stakes = {4}
  Hints <- NoHints
  MaxShares = 12
  MaxWeight = 20
  Depth = 12
  Tokens = 10
  Orders = {8, 10}
  Den = 4
  Slip = 1
  MaxSteps = 2
  MaxOrders = 2
  MaxMoves = 1
  Amounts = {3}
  FlatFee = 1
  Threshold = 2
  FeeDivisor = 2
  Cent = 2
  OwnerAmount = 2
  MaxOwner = 1
  MaxTx = 3
  MaxTrades = 2
  Rows = 2
  TapeRows = 2
  Slots = {1, 2}
  MaxFaults = 1
  Visitors = {page}
  NumTrades = 2
  LastTime = 1
  Wallets = {w1, w2}
  Stake = 1
  MaxElsewhere = 1
  MaxClicks = 3
SPECIFICATION PagesSpec
INVARIANTS OrderFair ReportsTrue Backed TapeOnce
PROPERTIES FormUnlocks PageFollows
CHECK_DEADLOCK FALSE
