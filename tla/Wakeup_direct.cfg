CONSTANTS
  Delta = 2
  SendLag = 1
  IterLag = 0
  MaxQueue = 1
  Senders = {"slow2core", "core2slow", "app2slow", "core2app", "slow2app"}
SPECIFICATION Spec
INVARIANT NoLostWakeup
PROPERTY Served
