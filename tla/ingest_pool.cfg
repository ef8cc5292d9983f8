SPECIFICATION FairSpec
CONSTANTS
  CeleryThreads = {c1, c2}
  OcrThreads = {g1}
  Text = {t1}
  Images = {o1}
  MaxRetries = 1
  Faulty = {"model", "paddle", "odl"}
  MaxFaults = 2
  MaxCrashes = 1
  MaxRedeliveries = 0
CHECK_DEADLOCK FALSE
PROPERTIES
  ChainReports
