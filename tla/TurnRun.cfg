CONSTANTS
  None = None  Turns = {t1, t2}  Sessions = {s1, s2}
  Creds = {"cloud", "local"}  Local = {"local"}  Lists <- RunLists
  Tools = {"fetch", "write", "consult"}  Sensitive = {"write"}  External = {"fetch"}  Web = {}
  Consult = "consult"  Batches <- RunBatches  Asks <- RunAsks
  MaxIterations = 2  MaxChildIterations = 1  MaxGateRejections = 1  MaxDuplicates = 1
  MaxDepth = 2  MaxMoves = 1
SPECIFICATION FairSpec
INVARIANTS ServedAsAsked StopIsExact LanesHold OneRowPerAnswer
PROPERTIES TurnsEnd UntrustedIsGated
CHECK_DEADLOCK FALSE
