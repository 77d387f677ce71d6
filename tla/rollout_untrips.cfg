CONSTANTS
  Devices <- TwoDevices
  Target = "v2"
  InitialDevices <- Healthy
  MaxUnavailable = 1
  FailureThresholdPercent = 50
  MaxComebacks = 1
  MaxLag = 2
  MaxHuman = 0
  MaxOutages = 1
  MaxLosses = 0
  MaxAborts = 0
SPECIFICATION Spec
PROPERTY BreakerStays
