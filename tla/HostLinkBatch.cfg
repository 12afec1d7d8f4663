CONSTANTS
  Pool = 1
  MboxSize = 2
  MaxBatch = 2
  MaxSegs = 1
SPECIFICATION Spec
INVARIANTS
  CommandsObeyed
