CONSTANTS
  SeqMod = 16
  BumpMod = 64
  buffer_size = 5
  RDMA_QUEUE_PAD = 2
  ISN = 13
  StreamLen = 5
  SegSizes = {1, 2}
  ReadSizes = {1, 2}
  InitialWindows = {2, 5}
  Lossy = TRUE
  Probes = TRUE
  MaxNet = 1
SPECIFICATION FairSpec
INVARIANTS StreamInOrder
PROPERTY StreamCompletes
CHECK_DEADLOCK FALSE
