CONSTANTS
  A = A
  B = B
  good = good
  forged = forged
  lost = lost
  f1 = f1
  f2 = f2
  Ids = {good, forged, lost}
  Files = {f1, f2}
  Decodes <- MCDecodes
  Honest <- MCHonest
  Garbled = Garbled
  None = None
  Inputs <- VariedFiles
SPECIFICATION FairSpec
INVARIANTS
  ExactHistogram
  CountersReconcile
  AgreesWithSpark
PROPERTIES
  StopsInOrder
\* Scripts end.
CHECK_DEADLOCK FALSE
