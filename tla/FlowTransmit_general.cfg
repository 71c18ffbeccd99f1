CONSTANTS
  TCP_MSS = 2
  TxBufSize = 3
  Messages = {1, 2}
  StreamLen = 4
  PeerBuf = 4
  OwnRxBuf = 4
  AppWaits = FALSE
  PeerKeepsUp = FALSE
  Closes = TRUE
  Lossy = TRUE
  Reorders = TRUE
  MaxNet = 2
  MaxSeq = 6
SPECIFICATION Spec
INVARIANTS ReleasedOnlyReceived
CHECK_DEADLOCK FALSE
