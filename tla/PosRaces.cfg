SPECIFICATION FairSpec
CONSTANTS
  t1 = t1
  m1 = m1
  m2 = m2
  c1 = c1
  NoVal = NoVal
  Trades = {t1}
  Monitors = {m1, m2}
  Closers = {c1}
  Levels <- Ladder
  Prices = {2, 3, 7, 8, 9}
  Asked = {}
  Distances = {1}
  MaxMoves = 1
  MaxCloses = 1
  MaxFaults = 1
INVARIANTS TypeOK ProfitIsLocked 
PROPERTIES SecondCloseNeedsRace LowerStopNeedsOverlap BreachIsClosed
