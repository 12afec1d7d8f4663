CONSTANTS
  RingSize = 3
  PoolSize = 2
  MboxSize = 1
  MaxTokens = 2
  MaxFrames = 6
SPECIFICATION FairSpec
INVARIANTS
  TypeOK
  FramesInOrder
  PbufsConserved
  NoFrameForgotten
  DeafOnlyWhenBusy
PROPERTIES
  RingDrained
