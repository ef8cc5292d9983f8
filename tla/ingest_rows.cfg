SPECIFICATION Spec
CONSTANTS
  CeleryThreads = {c1, c2}
  OcrThreads = {g1}
  Text = {t1}
  Images = {o1}
  MaxRetries = 1
  Faulty = {"db", "disk", "qdrant", "broker"}
  MaxFaults = 2
  MaxCrashes = 1
  MaxRedeliveries = 1
CHECK_DEADLOCK FALSE
SYMMETRY Symmetry
INVARIANTS
  TypeOK
  DownstreamInv
  OnlySecondDeliveriesOverlap
  OcrRowsCommitWithTags
  NoDuplicateRows
  CompleteIsSearchable
  NoDanglingContents
  OcrKept
PROPERTIES
  RewriteKeepsChunks
