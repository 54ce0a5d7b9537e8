SPECIFICATION FairSpec
CONSTANTS
  s1 = s1
  s2 = s2
  dash = dash
  engine = engine
  NoVal = NoVal
  Scanners = {s1, s2}
  Requesters = {s2}
  Processes = {dash, engine}
  Home <- OnePerProcess
  Enough = 1
  Window = 2
  MaxDays = 4
  MaxMoves = 1
  MaxFaults = 1
INVARIANTS TypeOK  CrisisStopsScans

PROPERTIES OutageIsForgotten
