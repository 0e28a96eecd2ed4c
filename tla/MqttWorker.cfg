SPECIFICATION Spec
CONSTANTS
  HasSubs = FALSE
  PingPeriodSec = 60
  MaxPingNoAns = 1
  MaxTrials = 2
  FirstConnTimeout = 2
  MaxAuth = 2
  IdMod = 3
  QueueMax = 2
INVARIANTS TypeOK SessionAgreement NoSocketLeak ReleasedWhileConnected AckOwnership
PROPERTIES DropNotForgotten
