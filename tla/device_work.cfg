SPECIFICATION Spec
CONSTANTS
  Actions = {a1}
  Polls = {p1, p2}
  Staff = {t1, t2}
  MaxBodies = 2
  MaxFaults = 2
  NoPoll = NoPoll
SYMMETRY Symmetry
INVARIANTS BegunOnce  DispatchedIsHeld
CHECK_DEADLOCK FALSE
