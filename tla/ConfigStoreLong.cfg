CONSTANTS
  Short = {a}
  Long = {c}
  Bad = {}
  PageSize = 2
  DataSize = 3
  MaxLines = 2
SPECIFICATION Spec
INVARIANTS
  StoredWhole
