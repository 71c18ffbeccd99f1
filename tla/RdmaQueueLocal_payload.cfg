CONSTANTS
  buffer_size = 5
  RDMA_QUEUE_PAD = 2
  StructSizes = {}
  AllocSizes = {3}
  Alloc2Sizes = {1, 2, 4}
  ReadSizes = {1, 2}
  MaxBytes = 12
SPECIFICATION FairSpec
INVARIANTS ReadsInOrder
PROPERTIES ImplementsStream KeepsSending
CHECK_DEADLOCK FALSE
