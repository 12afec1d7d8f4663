CONSTANTS
  Pool = 2
  MboxSize = 2
  MaxBatch = 1
  MaxSegs = 3
SPECIFICATION FairSpec
INVARIANTS
  TypeOK
  CompletionOwed
  ReceiverWillHear
  MailboxAlive
  NothingLost
  CommandsObeyed
PROPERTIES
  ImplementsPipe
  SegmentServed
  OperationReturns
