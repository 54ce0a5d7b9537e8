SPECIFICATION FairSpec
CONSTANTS
  i1 = i1
  i2 = i2
  k1 = k1
  t1 = t1
  t2 = t2
  q1 = q1
  e1 = e1
  p1 = p1
  NoVal = NoVal
  Ids = {i1, i2}
  Kinds = {k1}
  Defaults = {k1}
  Triggers = {t1, t2}
  Requests = {q1}
  Engines = {e1}
  Pages = {p1}
  MaxEdits = 1
  MaxFires = 1
  MaxAborts = 2
PROPERTIES RequestIsServed EnginesConverge
