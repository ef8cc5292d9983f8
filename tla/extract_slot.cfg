SPECIFICATION Spec
CONSTANTS
  Threads = {t1, t2}
  Docs = {d1, d2, d3}
  Large = {d3}
  Slow = {}
  Nobody = Nobody
  MaxRetries = 1
  MaxFailures = 2
  MaxCrashes = 0
CHECK_DEADLOCK FALSE
SYMMETRY Symmetry
INVARIANTS
  BadHybridNotStored
  ToldJavaIsJava
