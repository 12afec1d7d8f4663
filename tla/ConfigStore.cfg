CONSTANTS
  Short = {a, b}
  Long = {}
  Bad = {x}
  PageSize = 2
  DataSize = 3
  MaxLines = 2
SPECIFICATION FairSpec
INVARIANTS
  TypeOK
  BufferCleared
  StoredWhole
  AnswerRight
PROPERTIES
  RestartObeys
  LineHeard
