CONSTANTS
  None = None  Autos = {"alarm", "hook"}  JobIds = {j1, j2, j3}  Callers = {c1, c2}
  Kind <- KindOf  NeedsApproval <- Approvals  Seeds = {}
  Ops = {"register", "approve", "enable", "disable", "delete", "fire"}
  MaxBoots = 1  MaxFails = 1
SPECIFICATION Spec
INVARIANTS MapsAgree OnlyAllowedRuns SettledFile
