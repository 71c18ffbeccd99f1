CONSTANTS
  buffer_size = 6
  RDMA_QUEUE_PAD = 2
  StructSizes = {2}
  AllocSizes = {}
  Alloc2Sizes = {}
  ReadSizes = {2}
  MaxBytes = 16
SPECIFICATION Spec
INVARIANTS WriterAvoidsUnread
CHECK_DEADLOCK FALSE
