\* Windows of one block; a fault and a restart.
CONSTANTS
  Pools = {pool}
  NumEvents = 2
  BlockOf <- TwoBlocks
  PoolOf <- OnePool
  Funding = {1}
  MaxBlock = 4
  Confirmations = 1
  Batch = 2
  JumpThreshold = 2
  Backfill = TRUE
  OnlyKnown = TRUE
  Cycles = {c1, c2}
  MaxFaults = 1
  MaxCrashes = 1
  Sockets = {s1, s2}
  IdleCycles = 2
  MaxToggles = 2
  MaxDrops = 2
  Announced = {p1, p2}
  Refreshes = {r1, r2}
  MaxMissed = 1
SPECIFICATION BackgroundSpec
INVARIANTS CursorHonest CountedOnce
PROPERTIES WorkerCatchesUp SocketsTidy PoolWatched
\* Pages and pools come to the end of their bounds.
CHECK_DEADLOCK FALSE
