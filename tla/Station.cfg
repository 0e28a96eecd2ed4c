SPECIFICATION FairSpec
CONSTANTS
  Width = 3
  ValueBytes = 1
  Trailing = 2
  Readings <- MCReadings
  Wdg = 5
  Second = 2
  Sleep = 1
  ReadTime = 1
  AckTimeout = 5
  SntpTimeout = 5
  SyncPeriod = 10
  FirstConn = 3
  Attempts = 2
INVARIANTS TypeOK TrueReading NoFalseAlarm OwnWaitsAreFed ClockFresh
PROPERTIES NeverStuck
