CONSTANTS
  RingSize = 2
  PoolSize = 2
  MboxSize = 1
  MaxTokens = 2
  MaxFrames = 3
SPECIFICATION Spec
INVARIANTS
  ReceptionResumes
