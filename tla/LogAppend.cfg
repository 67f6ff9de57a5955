CONSTANTS
  None = None  Writers = {w1, w2}  Prober = health
  Ids = {i1, i2}  Payloads = {x, y}  Window = 1
  MaxTime = 2  MaxMishaps = 1
SPECIFICATION Spec
INVARIANTS AcknowledgedIsStored AnnouncedOnce OnlyHealthBlocks
PROPERTY IdempotentInWindow
SYMMETRY Symmetry
CHECK_DEADLOCK FALSE
