SPECIFICATION FairSpec
CONSTANTS
  Procs = {p1, p2}
  Invoices = {i1}
  MaxSubs = 3
  MaxRestarts = 1
  NoInvoice = NoInvoice
INVARIANTS TypeOK  PaidPlanWasBought
PROPERTY ChargeHonoured
CHECK_DEADLOCK FALSE
