CONSTANTS
  A = A
  B = B
  good = good
  forged = forged
  lost = lost
  b1 = b1
  b2 = b2
  Ids = {good, forged, lost}
  Batches = {b1, b2}
  Decodes <- MCDecodes
  Honest <- MCHonest
  Garbled = Garbled
  None = None
  Inputs <- VariedInputs
  RetryLimit = 1
  MaxRuns = 1
SPECIFICATION FairSpec
INVARIANTS
  TypeOK
  DoneHasEverything
  AbortOnlyOnBadInput
  Lockstep
  ExactReports
PROPERTIES
  Termination
\* Servers stop for good once they are done or have failed.
CHECK_DEADLOCK FALSE
