CONSTANTS
  Streams = {"payment"}
  Calls = {c1, c2}
  MaxBatch = 2
  MaxRestarts = 0
  NoVersion = NoVersion
SPECIFICATION Spec
INVARIANTS
  PositionsAreUnique
CHECK_DEADLOCK FALSE
