CONSTANTS
  Servers = {srv}
  Callers = {c1, c2}
  Surfaces = {narrow}
  Risks = {"read_only"}
  Ops = {"install", "re_authorize", "quarantine", "set_trust", "critical", "invoke"}
  Threshold <- Testing
  Dwell <- NoDwell
  MaxTime = 0  MaxCount = 2  MaxInstalls = 2  MaxFaults = 1  MaxCrashes = 1  MaxHangUps = 1
  None = None  c1 = c1  c2 = c2
SPECIFICATION Spec
INVARIANTS LossIsReported QuarantineHolds
PROPERTY ClimbIsEarned
SYMMETRY Symmetry
VIEW View
CHECK_DEADLOCK FALSE
