CONSTANTS
  None = None
  Versions = {v1, v2}
  Timeout = 4
  Second = 2
  Skews <- OnTime
  MaxTime = 0
  MaxDevices = 2
  MaxEdits = 1
  MaxBeats = 1
  MaxReports = 0
  MaxForced = 2
  MaxFaults = 1
  MaxLag = 2
SPECIFICATION FairSpec
CHECK_DEADLOCK FALSE
INVARIANT TypeOK
INVARIANT OthersFieldsKept
INVARIANT PhaseIsCurrent
INVARIANT CredentialHeld
PROPERTY DeletionEnds
PROPERTY CredentialRotates
