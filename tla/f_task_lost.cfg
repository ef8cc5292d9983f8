SPECIFICATION Spec
CONSTANTS
  CeleryThreads = {c1}
  OcrThreads = {g1}
  Text = {t1}
  Images = {o1}
  MaxRetries = 1
  Faulty = {}
  MaxFaults = 0
  MaxCrashes = 1
  MaxRedeliveries = 0
CHECK_DEADLOCK FALSE
INVARIANTS
  WorkNotLost
