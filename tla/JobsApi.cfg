CONSTANTS
  None = None  JobIds = {j1, j2}  Offered <- AllKinds  Toggled = TRUE
SPECIFICATION Spec
INVARIANT OneRunAtATime
PROPERTY IntervalKept
