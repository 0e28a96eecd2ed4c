SPECIFICATION Spec
CONSTANTS
  HasSubs = TRUE
  PingPeriodSec = 60
  MaxPingNoAns = 0
  MaxTrials = 2
  FirstConnTimeout = 1
  MaxAuth = 1
  IdMod = 3
  QueueMax = 1
INVARIANTS SubscribedWhenConnected
