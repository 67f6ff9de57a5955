CONSTANTS
  Requests = {r1}
  Agents = {a1, a2}
  Operators = {o1, o2}
  Decisions = {"approved"}
  r1 = r1
  a1 = a1
  a2 = a2
  o1 = o1
  o2 = o2
  ApiCalls = TRUE
  HangUps = TRUE
  MaxFaults = 1
  MaxCrashes = 1
SPECIFICATION FairSpec
CHECK_DEADLOCK FALSE
INVARIANTS SlotIsWaiter AnswersAgree
PROPERTIES Implements CallsEnd WaitedOnIsSettled
