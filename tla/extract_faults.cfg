SPECIFICATION FairSpec
CONSTANTS
  Threads = {t1, t2}
  Docs = {d1, d2}
  Large = {d2}
  Slow = {d1}
  Nobody = Nobody
  MaxRetries = 0
  MaxFailures = 1
  MaxCrashes = 1
CHECK_DEADLOCK FALSE
INVARIANTS
  OneJvm
PROPERTIES
  DocsSettle
