SPECIFICATION Spec
CONSTANTS
  Sessions = {s1, s2}
  Managed = {d1}
  Codes = {c1}
  Requests = {r1, r2}
  Permission = {view_screen}
  ViewScreen = view_screen
  MaxLinks = 0
  NoDevice = NoDevice
  NoSession = NoSession
SYMMETRY Symmetry
VIEW View
INVARIANTS TypeOK ConsentBeforeLive SingleUse ClaimLinks
CHECK_DEADLOCK FALSE
