CONSTANTS
  Delta = 2
  SendLag = 1
  IterLag = 0
  MaxQueue = 1
  Senders = {"slow2core", "app2core"}
SPECIFICATION Spec
PROPERTY Served
