CONSTANTS
  N = 3
  MaxConcurrent = 2  MaxRounds = 4  MaxAttempts = 2  Bounded = TRUE
SPECIFICATION FairSpec
INVARIANTS DependenciesFirst  DispatchesCapped GoodRunsComplete
PROPERTY Terminates
CHECK_DEADLOCK FALSE
