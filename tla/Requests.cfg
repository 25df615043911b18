CONSTANTS
  Tabs = {t1, t2}
  Wallets = {alice, bob}
  Nonces = {n1, n2}
  Tokens = {s1, s2}
  Names = {short, chosen}
  DefaultName = short
  Requests = {r1, r2}
  NonceTTL = 1
  SessionTTL = 2
  RefreshThreshold = 2
  MaxTime = 2
  MaxEvents = 3
  Txs <- PoolTxs
  Kind <- PoolKinds
  Unlisted = {2}
  Second = 4
  maxQps = 2
  burst = 2
  backoffBase = 1
  backoffMax = 3
  MaxClock = 6
  Orderbook = {TRUE, FALSE}
  MaxStarts = 3
  MaxComments = 3
  Limit = 2
  MaxFaults = 1
SPECIFICATION RequestsSpec
INVARIANTS NonceOnce SignedInTrue ReplayTrue RateKept ServesMigrated ThreadWhole
PROPERTIES SessionKept
SYMMETRY Alike
CHECK_DEADLOCK FALSE
