CONSTANTS
  Start = 2
  End = 3
  ChunkSize = 1
  Receipts = {"r1"}
  MaxBlocks = 4
  MaxRuns = 2
SPECIFICATION Spec
INVARIANTS SummaryDescribesTables PendingExact
PROPERTY ReadsOneChain
CHECK_DEADLOCK FALSE
