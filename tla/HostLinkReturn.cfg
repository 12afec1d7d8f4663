CONSTANTS
  Pool = 2
  MboxSize = 2
  MaxBatch = 1
  MaxSegs = 1
SPECIFICATION Spec
INVARIANTS
  TaskNeverReturns
