CONSTANTS
  Versions = {v1, v2}
  Images = {img1, img2}
  Factory = factory
  Absent = absent
  Garbage = garbage
  Corruption = TRUE
  WriteErrors = FALSE
  MaxCrashes = 3
SPECIFICATION FairSpec
INVARIANT TypeOK
INVARIANT Unbrickable
INVARIANT RunsCompleteSlot
INVARIANT TryOnce
PROPERTY RunningSlotUntouched
PROPERTY ImplementsStore
PROPERTY Recovers
