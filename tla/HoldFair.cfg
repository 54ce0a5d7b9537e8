SPECIFICATION FairSpec
CONSTANTS
  a = a
  b = b
  m1 = m1
  k1 = k1
  t1 = t1
  d1 = d1
  dash = dash
  Broker = Broker
  ByHand = ByHand
  NoVal = NoVal
  Symbols = {a, b}
  Tracked = {a}
  Manuals = {}
  Baskets = {k1}
  Syncers = {t1}
  Processes = {dash}
  Home <- AllInDash
  Desks = {d1}
  MaxTrades = 1
  MaxConfirms = 1
  MaxFaults = 1
INVARIANTS TypeOK 
PROPERTIES HoldingIsShown
