CONSTANTS
  Versions <- MCVersions
  Images <- MCImages
  Urls <- MCUrls
  Serves <- MCServes
  Specs <- MixedSpecs
  Factory = "factory"
  Absent = absent
  Garbage = garbage
  Goroutines = {g1}
  MaxAttempts = 2
  Faults = {"download", "flash", "network"}
  MaxGen = 2
  MaxForeign = 2
  MaxBeats = 0
  MaxLosses = 1
  MaxCrashes = 1
SPECIFICATION FairSpec
PROPERTY LatestWins
PROPERTY ReportsOutcome
