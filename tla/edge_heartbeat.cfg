CONSTANTS
  None = None
  Versions = {v1}
  Timeout = 4
  Second = 2
  Skews <- LateOrEarly
  MaxTime = 12
  MaxDevices = 1
  MaxEdits = 0
  MaxBeats = 2
  MaxReports = 1
  MaxForced = 0
  MaxFaults = 1
  MaxLag = 2
SPECIFICATION Spec
CHECK_DEADLOCK FALSE
INVARIANT PhaseIsCurrent
PROPERTY NoFalseAlarm
