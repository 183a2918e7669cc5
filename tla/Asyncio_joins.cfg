CONSTANTS
  A = A
  B = B
  Ids = {r1, r2, r3}
  Decodes <- AllDecode
  Honest = {r1, r2, r3}
  Garbled = Garbled
  None = None
SPECIFICATION FairMainSpec
INVARIANTS
  MainTypeOK
  NeverEarly
PROPERTIES
  MainReturns
\* Nothing happens after main has returned.
CHECK_DEADLOCK FALSE
