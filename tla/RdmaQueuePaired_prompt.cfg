CONSTANTS
  buffer_size = 6
  RDMA_QUEUE_PAD = 2
  AllocSizes = {1, 3}
  SegmentSizes = {}
  ReadSizes = {1, 2}
  PromptDma = TRUE
  MaxUnread = 4
  MaxPosted = 6
  MaxBytes = 15
SPECIFICATION Spec
INVARIANTS ReadsInOrder  FlushedInOnePass
CHECK_DEADLOCK FALSE
