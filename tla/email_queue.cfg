SPECIFICATION FairSpec
CONSTANTS
  Jobs = {j1, j2, j3}
  MaxRetries = 2
  BatchSize = 2
INVARIANTS OneDrain 
PROPERTY AttemptedUnlessMissed
CHECK_DEADLOCK FALSE
