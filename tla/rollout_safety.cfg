CONSTANTS
  Devices <- MCDevices
  Target = "v2"
  InitialDevices <- Healthy
  MaxUnavailable = 2
  FailureThresholdPercent = 67
  MaxComebacks = 1
  MaxLag = 2
  MaxHuman = 1
  MaxOutages = 0
  MaxLosses = 0
  MaxAborts = 1
SPECIFICATION Spec
INVARIANT TypeOK
INVARIANT BlastRadius
INVARIANT TripsForCause
PROPERTY RespectsFreeze
PROPERTY UntripsForCause
