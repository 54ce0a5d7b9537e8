SPECIFICATION Spec
CONSTANTS
  i1 = i1
  i2 = i2
  Ids = {i1, i2}
  k1 = k1
  Kinds = {k1}
  Defaults = {k1}
  t1 = t1
  Triggers = {t1}
  q1 = q1
  q2 = q2
  Requests = {q1, q2}
  e1 = e1
  e2 = e2
  Engines = {e1, e2}
  Pages = {}
  NoVal = NoVal
  MaxEdits = 1
  MaxFires = 0
  MaxAborts = 1
SYMMETRY Symmetry
INVARIANTS TypeOK RunsAtMostOnce StatusTellsTheRun DefaultsCreatedOnce
PROPERTIES ImplementsRunLedger
