CONSTANTS
  None = None  Turns = {t1, t2}  Sessions = {s1, s2}
  Creds = {"cloud", "local"}  Local = {"local"}  Lists <- RunLists
  Tools = {"fetch", "search", "write", "consult"}  Sensitive = {"write"}
  External = {"fetch"}  Web = {"search"}
  Consult = "consult"  Batches <- ConsultBatches  Asks <- RunAsks
  MaxIterations = 2  MaxChildIterations = 1  MaxGateRejections = 1  MaxDuplicates = 1
  MaxDepth = 2  MaxMoves = 0
SPECIFICATION Spec
INVARIANT Marked
CHECK_DEADLOCK FALSE
