\* A market resolved NO and then redeemed.
CONSTANTS
  Requests = {r1}
  Routes = {"markets", "admin"}
  Payouts = {"yes", "no"}
  Holding = 1
  MaxRedeems = 1
  MaxNukes = 0
  MaxFaults = 0
SPECIFICATION Spec
PROPERTIES BurnsWinning
