SPECIFICATION Spec
CONSTANTS
  Symbols = {s1}
  s1 = s1
  Prices = {p1}
  p1 = p1
  w1 = w1
  tg = tg
  r1 = r1
  WebActors = {w1}
  TelegramActors = {tg}
  RunActors = {r1}
  IndexFails = FALSE
  StaleAge = 1
  MaxTime = 0
  MaxDay = 0
  MaxRuns = 1
  MaxDecisions = 2
  MaxAborts = 0
  Verdicts = {"PULLBACK"}
  RiskOutcomes = {"OK"}
  NoVal = NoVal
CHECK_DEADLOCK FALSE
INVARIANTS ApprovedRunFillsOnce
