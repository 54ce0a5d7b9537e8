SPECIFICATION FairSpec
CONSTANTS
  s1 = s1
  w1 = w1
  tg = tg
  r1 = r1
  p1 = p1
  Symbols = {s1}
  Prices = {p1}
  WebActors = {w1}
  TelegramActors = {tg}
  RunActors = {r1}
  IndexFails = FALSE
  StaleAge = 1
  MaxTime = 0
  MaxDay = 0
  MaxRuns = 2
  MaxDecisions = 2
  MaxAborts = 0
  Verdicts = {"PULLBACK", "GENERAL"}
  RiskOutcomes = {"OK", "SIZE"}
  NoVal = NoVal
CHECK_DEADLOCK FALSE
INVARIANTS TypeOK TradeNeedsApproval OrderIsOfThisRun FillFollowsCard DecisionsBoundTrades
 
