CONSTANTS
  A = A
  B = B
  good = good
  forged = forged
  lost = lost
  b1 = b1
  b2 = b2
  Ids = {good, forged, lost}
  Batches = {b1}
  Decodes <- MCDecodes
  Honest <- MCHonest
  Garbled = Garbled
  None = None
  Inputs <- FullInputs
  RetryLimit = 0
  MaxRuns = 2
SPECIFICATION Spec
INVARIANTS
  OnlyJointRows
  ExactInv
PROPERTIES
  StableInput
  RefinesIdeal
\* Servers stop for good once they are done or have failed.
CHECK_DEADLOCK FALSE
