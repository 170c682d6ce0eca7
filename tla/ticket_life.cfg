SPECIFICATION Spec
CONSTANTS
  Requests = {q1, q2}
  Policies <- PoliciesOne
  MaxRearms = 1
SYMMETRY Symmetry
INVARIANTS TypeOK FinishedIsStamped BreachReportedOncePerArming
CHECK_DEADLOCK FALSE
