CONSTANTS
  r1 = r1  r2 = r2  r3 = r3  c1 = c1  c2 = c2  d1 = d1  d2 = d2
  Reqs = {r1, r2}
  Conns = {c1, c2}
  DBs = {d1}
  ConnMax = 1
  RequestLimit = 1
  Replies <- NoCopy
  MaxDrops = 1
  MaxFails = 1
  None = None
SPECIFICATION FairSpec
PROPERTIES QueriesEnd EveryRequestAnswered
CHECK_DEADLOCK FALSE
