CONSTANTS
  Servers = {srv}
  Callers = {c1}
  Surfaces = {narrow, wide}
  Risks = {"read_only", "high_risk"}
  Ops = {"install", "uninstall", "re_authorize", "quarantine", "set_trust", "critical", "invoke"}
  Threshold <- Testing
  Dwell <- NoDwell
  MaxTime = 1  MaxCount = 2  MaxInstalls = 2  MaxFaults = 1  MaxCrashes = 1  MaxHangUps = 1
  None = None  c1 = c1  c2 = c2
SPECIFICATION Spec
INVARIANTS SettledAgrees QuarantineSurvives UninstalledStaysGone
