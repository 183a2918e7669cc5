CONSTANTS
  A = A
  B = B
  good = good
  forged = forged
  lost = lost
  Ids = {good, forged, lost}
  Decodes <- LostAtB
  Honest <- NotForged
  Garbled = Garbled
  MaxLosses = 1
  Nothing = Nothing
SPECIFICATION RSpec
INVARIANTS
  ExcessBounded
  OnlyJointValid
PROPERTIES
  RowsSettleAgain
\* Servers wait for packets once every packet has been consumed.
CHECK_DEADLOCK FALSE
