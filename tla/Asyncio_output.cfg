CONSTANTS
  A = A
  B = B
  Ids = {r1, r2}
  Decodes <- AllDecode
  Honest = {r1, r2}
  Garbled = Garbled
  None = None
SPECIFICATION MainSpec
INVARIANTS
  OutputExpected
\* Nothing happens after main has returned.
CHECK_DEADLOCK FALSE
