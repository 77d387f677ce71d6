CONSTANTS
  Devices <- TwoDevices
  Target = "v2"
  InitialDevices <- SomeScarred
  MaxUnavailable = 1
  FailureThresholdPercent = 50
  MaxComebacks = 1
  MaxLag = 1
  MaxHuman = 1
  MaxOutages = 1
  MaxLosses = 1
  MaxAborts = 0
SPECIFICATION FairSpec
PROPERTY BreakerFreezesAll
PROPERTY Completes
