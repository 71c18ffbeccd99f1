CONSTANTS
  TCP_MSS = 4
  TxBufSize = 5
  Messages = {1, 3, 5}
  StreamLen = 12
  PeerBuf = 4
  OwnRxBuf = 4
  AppWaits = TRUE
  PeerKeepsUp = TRUE
  Closes = FALSE
  Lossy = FALSE
  Reorders = FALSE
  MaxNet = 3
  MaxSeq = 99
SPECIFICATION FairSpec
INVARIANTS SegmentsAllowed 
PROPERTY AllAcknowledged
CHECK_DEADLOCK FALSE
