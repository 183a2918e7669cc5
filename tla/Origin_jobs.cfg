CONSTANTS
  p1 = p1
  p2 = p2
  u1 = u1
  u2 = u2
  u3 = u3
  b1 = b1
  b2 = b2
  Servers = {"a", "b"}
  Pings = {p1, p2}
  Subs = {u1, u2, u3}
  PingOf <- MCPingOf
  BatchOf <- MCBatchOf
  MaxTasks = 2
  MaxCopies = 2
  MaxRuns = 2
  Lists <- MCLists
  Cuts = {2, 3}
  Configs <- MCConfigs
  MaxAggregates = 2
  Comment = Comment
  Unknown = Unknown
  Odd = Odd
  None = None
SPECIFICATION OriginSpec
INVARIANTS
  Matched
  KeysComplete
  EachOnce
  NoKeyTwice
  NeverSwapped
  NothingDropped
\* The last run may have ended.
CHECK_DEADLOCK FALSE
