CONSTANTS
  Versions = {v1, v2}
  Images = {img1, img2}
  Factory = factory
  Absent = absent
  Garbage = garbage
  Corruption = FALSE
  WriteErrors = TRUE
  MaxCrashes = 1
SPECIFICATION Spec
INVARIANT RunsCompleteSlot
