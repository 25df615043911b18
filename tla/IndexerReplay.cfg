\* A transaction named twice.
CONSTANTS
  NumEvents = 2
  BlockOf <- TwoBlocks
  Funding <- FirstFunds
  MaxBlock = 2
  InitLag = 2
  Baseline = 1
  Window = 0
  ScanBlocks = 1
  MaxBatches = 2
  SafetyWindow = 1
  MaxNotices = 3
  MaxSweeps = 0
  MaxRetries = 0
  MaxErrors = 0
  MaxCrashes = 0
SPECIFICATION Spec
INVARIANTS ReplayKeepsVolume
CHECK_DEADLOCK FALSE
