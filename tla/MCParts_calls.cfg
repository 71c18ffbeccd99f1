CONSTANTS
  SeqMod = 16
  BumpMod = 64
  MaxWindow = 4
  MaxPayload = 4
  TimeoutBits = 3
  MaxTimeouts = 1
  MaxLate = 2
  Timers = {t1, t2, t3}
  f1 = f1
  f2 = f2
  f3 = f3
  f4 = f4
  Flows = {f1, f2, f3, f4}
  Hash <- SmallHash
  HtEntries = 16
  NbSz = 2
  MaxMoves = 1
  NoFlow = NoFlow
  q1 = q1
  Queues = {q1, q2}
  INVAL = INVAL
  RateChoices <- SmallRates
  Levels = 2
  TimestampBits = 3
  MaxChunk = 1
  Unit = 2
  MaxAvail = 2
  MaxElapsed = 2
  Num = 2
  Algorithms = {"dctcp_win", "dctcp_rate", "timely", "const_rate"}
  One = 4
  RateMod = 8
  Mss = 2
  TxBuf = 7
  DctcpWeight = 2
  DctcpInit = 2
  DctcpStep = 1
  DctcpMimd = 0
  DctcpMin = 1
  DctcpMinPkts = 2
  TimelyTlow = 2
  TimelyThigh = 3
  TimelyStep = 1
  TimelyInit = 2
  TimelyAlpha = 2
  TimelyBeta = 3
  TimelyMinRtt = 1
  TimelyMinRate = 1
  ConstRate = 0
  RexmitInts = 2
  RttInit = 1
  Rtts = {0, 1, 3, 4}
  UsedRates = {0, 5}
  MaxCount = 1
  dma_mem_size = 7
  Lengths = {1, 2, 3}
  Fds = {1, 2, 3, 4}
  Socks = {s1, s2}
  Eps = {e1}
  NoFd = NoFd
  Masks = {{"IN"}, {"OUT"}}
  MaxEvents = 1
  Wild = FALSE
  Bufs = {b1, b2, b3, b4}
  CacheSize = 2
  TxSize = 3
  Batch = 2
  AppCtxs = 2
  MaxAtx = 2
  Distinct = TRUE
  Procs = {p1, p2}
  CtxNum = 3
  AppNum = 2
  SlotNum = 4
  NCores = 2
  MaxCtx = 3
  ExitBusy = FALSE
  HostApps = {a1, a2}
  HostCores = {k1}
  HostCtxs = 1
SPECIFICATION PartsSpec
INVARIANTS SeqExact Partitioned TimersExact LookupFinds
           QueuesListed RateHonoured CongestionCuts RexmitJustified
           EpollListsExact EpollReady  AppsServed
            AppAnswered HostServes
CHECK_DEADLOCK FALSE
