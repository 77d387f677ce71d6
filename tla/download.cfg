SPECIFICATION FairSpec
CONSTANTS
  v1 = v1
  v2 = v2
  u1 = u1
  u2 = u2
  Images <- MCImages
  Length <- MCLength
  Urls <- MCUrls
  Specs <- MCSpecs
  MaxAttempts = 5
INVARIANTS
  TypeOK
  Gapless
  ResumeIsExact
  LeftoverCostsOneAttempt
PROPERTIES
  Ends
