SPECIFICATION FairSpec
CONSTANTS
  Pids = {p1, p2, p3, p4}
  Stoppers = {s1}
  None = None
  Empty = Empty
  MaxStarting = 2
  MaxMishaps = 1
INVARIANTS TypeOK OneDaemon ServingIsNamed StopReachesAll
PROPERTY ServedOrBlocked
