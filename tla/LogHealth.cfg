CONSTANTS
  None = None  Writers = {w1}  Prober = health
  Ids = {i1}  Payloads = {x}  Window = 1
  MaxTime = 0  MaxMishaps = 1
SPECIFICATION FairSpec
PROPERTY FailureVisible
CHECK_DEADLOCK FALSE
