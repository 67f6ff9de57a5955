CONSTANTS
  Requests = {r1, r2}
  Agents = {a1}
  Operators = {o1}
  r1 = r1
  r2 = r2
  a1 = a1
  o1 = o1
  Decisions = {"approved", "edited_and_approved", "denied"}
  ApiCalls = FALSE
  HangUps = TRUE
  MaxFaults = 1
  MaxCrashes = 1
  Capacity = 1
SPECIFICATION FairFeedSpec
VIEW NoHistory
CHECK_DEADLOCK FALSE
INVARIANTS NoMissedRequest
PROPERTY OpenIsShown
