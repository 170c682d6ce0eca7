SPECIFICATION FairSpec
CONSTANTS
  Runs = {w1}
  Tasks = {t1, t2}
  Plans <- PlansAll
  MaxActions = 3
  MaxApprovals = 3
  MaxChanges = 1
  MaxFaults = 1
INVARIANTS GateHolds RowsAgree CallsWithinApprovals
 
CHECK_DEADLOCK FALSE
