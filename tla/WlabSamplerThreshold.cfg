SPECIFICATION Spec
CONSTANTS
  MeasurePeriod = 2
  MinuteSecs = 3
  HourMins = 4
  PublishPeriodMins = 2
  WarmUp = 1
  Threshold <- MCThreshold
  IntMax = 31
  ReadingMax = 9
  Values <- MCValues
  FirstTime = 12
  MaxTime = 24
  MaxSamples = 3
INVARIANT SkipsOnlyOutliers
