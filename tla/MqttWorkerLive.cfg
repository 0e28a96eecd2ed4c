SPECIFICATION FairSpec
CONSTANTS
  HasSubs = FALSE
  PingPeriodSec = 60
  MaxPingNoAns = 1
  MaxTrials = 2
  FirstConnTimeout = 1
  MaxAuth = 1
  IdMod = 3
  QueueMax = 1
PROPERTIES Recovers SilenceEnds DropServed
