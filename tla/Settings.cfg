SPECIFICATION FairSpec
CONSTANTS
  Record <- MCRecord
  BootReads <- MCBootReads
  PrintReads <- MCPrintReads
  Identity = 3
  Value = {zero, good}
  Default = zero
  Good = {good}
  Absent = absent
  AuthAttempts = 2
  MaxCommands = 4
  MaxFaults = 2
INVARIANTS TypeOK LossesAccounted
PROPERTIES Provisioned
CHECK_DEADLOCK FALSE
