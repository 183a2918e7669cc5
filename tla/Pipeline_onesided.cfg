CONSTANTS
  A = A
  B = B
  good = good
  forged = forged
  lost = lost
  b1 = b1
  b2 = b2
  Ids = {good, forged, lost}
  Batches = {b1, b2}
  Decodes <- MCDecodes
  Honest <- MCHonest
  Garbled = Garbled
  None = None
  Inputs <- OneSidedInputs
  RetryLimit = 0
  MaxRuns = 1
SPECIFICATION Spec
INVARIANTS
  MissingBatchIsSkipped
\* Servers stop for good once they are done or have failed.
CHECK_DEADLOCK FALSE
