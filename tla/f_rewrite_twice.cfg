SPECIFICATION Spec
CONSTANTS
  CeleryThreads = {c1, c2}
  OcrThreads = {g1}
  Text = {t1}
  Images = {o1}
  MaxRetries = 1
  Faulty = {}
  MaxFaults = 0
  MaxCrashes = 0
  MaxRedeliveries = 1
CHECK_DEADLOCK FALSE
INVARIANTS
  RowsUnique
