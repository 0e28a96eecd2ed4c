SPECIFICATION Spec
CONSTANTS
  FirstConnTimeout = 2
  MayRefuse = TRUE
  EventsMax = 3
INVARIANTS RetryUnderWay
