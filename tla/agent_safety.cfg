CONSTANTS
  Versions <- MCVersions
  Images <- MCImages
  Urls <- MCUrls
  Serves <- MCServes
  Specs <- AllSpecs
  Factory = "factory"
  Absent = absent
  Garbage = garbage
  Goroutines = {g1, g2}
  MaxAttempts = 2
  Faults = {"download", "flash"}
  MaxGen = 2
  MaxForeign = 1
  MaxBeats = 1
  MaxLosses = 0
  MaxCrashes = 0
SPECIFICATION Spec
SYMMETRY GoroutineSymmetry
INVARIANT TypeOK
INVARIANT FsmNeverRefuses
PROPERTY NoLostUpdate
PROPERTY ObservedNeverRegresses
