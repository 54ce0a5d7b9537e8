SPECIFICATION Spec
CONSTANTS
  s1 = s1
  w1 = w1
  w2 = w2
  r1 = r1
  p1 = p1
  p2 = p2
  Symbols = {s1}
  Prices = {p1, p2}
  WebActors = {w1, w2}
  TelegramActors = {}
  RunActors = {r1}
  IndexFails = TRUE
  StaleAge = 1
  MaxTime = 2
  MaxDay = 1
  MaxRuns = 1
  MaxDecisions = 3
  MaxAborts = 2
  Verdicts = {"PULLBACK", "STRUCTURAL"}
  RiskOutcomes = {"OK", "BLACKOUT"}
  NoVal = NoVal
CHECK_DEADLOCK FALSE
SYMMETRY Symmetry
INVARIANTS SecondFillNeedsDisturbance 
PROPERTIES ImplementsApprovalGate DecidedRowsAreFinal
