CONSTANTS
  Versions <- MCVersions
  Images <- MCImages
  Urls <- MCUrls
  Serves <- MCServes
  Specs <- GoodSpecs
  Factory = "factory"
  Absent = absent
  Garbage = garbage
  Goroutines = {g1}
  MaxAttempts = 2
  Faults = {"flash"}
  MaxGen = 1
  MaxForeign = 0
  MaxBeats = 0
  MaxLosses = 0
  MaxCrashes = 0
SPECIFICATION FairSpec
PROPERTY ReportsRunning
