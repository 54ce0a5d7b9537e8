SPECIFICATION Spec
CONSTANTS
  Symbols = {s1}
  s1 = s1
  Prices = {p1, p2}
  p1 = p1
  p2 = p2
  w1 = w1
  r1 = r1
  WebActors = {w1}
  TelegramActors = {}
  RunActors = {r1}
  IndexFails = FALSE
  StaleAge = 1
  MaxTime = 1
  MaxDay = 0
  MaxRuns = 1
  MaxDecisions = 1
  MaxAborts = 0
  Verdicts = {"PULLBACK"}
  RiskOutcomes = {"OK"}
  NoVal = NoVal
CHECK_DEADLOCK FALSE
INVARIANTS StaleProposalIsNotExecuted
