CONSTANTS
  A = A
  B = B
  good = good
  forged = forged
  lost = lost
  Ids = {good, forged, lost}
  Decodes <- LostAtB
  Honest <- NotForged
  Garbled = Garbled
SPECIFICATION FairSpec
INVARIANTS
  Verify2InOrder
  NothingLost
  ExchangeInv
PROPERTIES
  RefinesJointSum
  RowsSettle
\* Servers wait for packets once every packet has been consumed.
CHECK_DEADLOCK FALSE
