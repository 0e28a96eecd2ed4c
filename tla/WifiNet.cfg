SPECIFICATION FairSpec
CONSTANTS
  FirstConnTimeout = 3
  MayRefuse = FALSE
  EventsMax = 4
INVARIANTS TypeOK OneRetry ToldBeforeRetry RetryUnderWay
PROPERTIES InitEnds Reconnects
