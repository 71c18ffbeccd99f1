CONSTANTS
  TCP_MSS = 4
  TxBufSize = 5
  Messages = {1, 3, 5}
  StreamLen = 12
  PeerBuf = 4
  OwnRxBuf = 4
  AppWaits = TRUE
  PeerKeepsUp = TRUE
  Closes = FALSE
  Lossy = TRUE
  Reorders = FALSE
  MaxNet = 3
  MaxSeq = 12
SPECIFICATION Spec
INVARIANTS SequenceMatchesBuffer
CHECK_DEADLOCK FALSE
