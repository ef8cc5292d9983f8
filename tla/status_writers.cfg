SPECIFICATION Spec
CONSTANTS
  Writers = {w1, w2, w3}
  Codes = {"00", "32", "31"}
  Registered = "00"
  Nobody = Nobody
  MaxRows = 3
CHECK_DEADLOCK FALSE
SYMMETRY Symmetry
INVARIANTS
  SnapshotIsLastChange
  FromWasReal
