\* Two requests on either route, a fault, a nuke or restore, a redemption; two pages that
\* edit two tags; two pictures and a deletion.
CONSTANTS
  Requests = {r1, r2}
  Routes = {"markets", "admin"}
  Payouts = {"yes", "no"}
  Holding = 1
  MaxRedeems = 1
  MaxNukes = 1
  MaxFaults = 1
  Tabs = {t1, t2}
  Labels = {a, b}
  MaxRows = 2
  MaxClicks = 3
  FileTag <- SameFile
  MaxSaves = 2
  MaxDeletes = 1
  MaxTurns = 1
SPECIFICATION AdminSpec
INVARIANTS ResolvedAfterReport RowMatchesChain
PROPERTIES ReportReachesRow CurationTrue
\* Clicks come to the end of their bounds.
CHECK_DEADLOCK FALSE
