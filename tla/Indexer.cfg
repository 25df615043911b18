\* Both workers, duplicate notices, retries, one failure, one restart.
CONSTANTS
  NumEvents = 2
  BlockOf <- TwoBlocks
  Funding <- FirstFunds
  MaxBlock = 2
  InitLag = 2
  Baseline = 0
  Window = 0
  ScanBlocks = 1
  MaxBatches = 2
  SafetyWindow = 1
  MaxNotices = 2
  MaxSweeps = 1
  MaxRetries = 1
  MaxErrors = 1
  MaxCrashes = 1
SPECIFICATION FairSpec
INVARIANTS Exact

PROPERTIES RowsKept NoticeIndexed SweepsEnd
CHECK_DEADLOCK FALSE
