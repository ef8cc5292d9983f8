SPECIFICATION QFairSpec
CONSTANTS
  Threads = {t1, t2, t3}
  Nobody = Nobody
  MaxFailures = 2
  Indexes = 3
  MaxCrashes = 2
INVARIANTS
  CreatedOnce
PROPERTIES
  ImplementsOnceCell
  CallsEnd
