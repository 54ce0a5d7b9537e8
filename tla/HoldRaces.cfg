SPECIFICATION Spec
CONSTANTS
  a = a
  m1 = m1
  t1 = t1
  t2 = t2
  d1 = d1
  dash = dash
  Broker = Broker
  ByHand = ByHand
  NoVal = NoVal
  Symbols = {a}
  Tracked = {a}
  Manuals = {m1}
  Baskets = {}
  Syncers = {t1, t2}
  Processes = {dash}
  Home <- AllInDash
  Desks = {d1}
  MaxTrades = 1
  MaxConfirms = 0
  MaxFaults = 1
SYMMETRY Symmetry
INVARIANTS OneSyncedRow OkIsHonest
PROPERTIES DeniedSyncCloses
