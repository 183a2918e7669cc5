CONSTANTS
  A = A
  B = B
  Ids = {good, forged}
  Decodes <- AllDecode
  Honest = {good}
  Garbled = Garbled
  Blank = Blank
  None = None
  MaxPickles = 2
SPECIFICATION Spec
INVARIANTS
  Serializable
  VerdictsRight
  OutputRight
\* A program ends with its output.
CHECK_DEADLOCK FALSE
