SPECIFICATION Spec
CONSTANTS
  NULL = NULL
  Conns = {c1, c2}
  Handles = {h1, h2, h3}
  Ctxs = {x1}
  Listeners = {l1}
  Peers = {p1, p2, s1, s2}
  Servers = {s1, s2}
  Unrouted = {s2}
  TsPeers = {p1, s1}
  EcnPeers = {}
  HashOne = {p1}
  ListenPort = 1
  Ephemeral = {2, 3}
  MultiMax = 2
  CcBatch = 2
  BacklogLen = 2
  KoutLen = 1
  Retries = 1
  ArpRetries = 1
  SlotsMayFail = FALSE
CHECK_DEADLOCK FALSE
INVARIANTS    AcceptServed PendingDriven
SYMMETRY Symmetry
