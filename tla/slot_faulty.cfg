CONSTANTS
  Versions = {v1}
  Images = {img1, img2}
  Factory = factory
  Absent = absent
  Garbage = garbage
  Corruption = TRUE
  WriteErrors = TRUE
  MaxCrashes = 2
SPECIFICATION Spec
INVARIANT TryOnce
PROPERTY SealsOnlyVerified
