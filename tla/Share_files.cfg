CONSTANTS
  A = A
  B = B
  Configured = {1, 2}
  BadId = BadId
  Single = Single
  NRows = 2
  NDrop = 1
  Scale = 2
  MaxTasks = 2
  MaxEvaluations = 3
  MaxRows = 3
  MaxRuns = 2
  Pings <- MCPings
  Prefixes = {"v1", "v2"}
  MinBuild = 2
  TestBuild = 9
  None = None
SPECIFICATION FilesSpec
INVARIANTS
  EachRowOnce
  SameRows
  OneIsPrefix
  EncodesSameRows
  DiffExplained
  ReportOfDay
\* Programs end.
CHECK_DEADLOCK FALSE
