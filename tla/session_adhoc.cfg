SPECIFICATION FairSpec
CONSTANTS
  Sessions = {s1}
  Managed = {}
  Codes = {c1}
  Requests = {r1, r2}
  Permission = {view_screen, elevation}
  ViewScreen = view_screen
  MaxLinks = 2
  NoDevice = NoDevice
  NoSession = NoSession
INVARIANTS ClosedCodeRevoked NoPermissionBeyondCode BoundToLatestLink
PROPERTIES ImplementsSupportCode OpenCodeResolves
CHECK_DEADLOCK FALSE
