CONSTANTS
  None = None  Secrets = {s1, s2}  Conns = {n1}  Owners = {n1}  Callers = {k1, k2}
  Fields = {f, g}  MaxRotations = 2  MaxFaults = 2
SPECIFICATION ConnSpec
INVARIANTS SecretsMatch HalfRotationVisible RestartLosesNothing
SYMMETRY Symmetry
CHECK_DEADLOCK FALSE
