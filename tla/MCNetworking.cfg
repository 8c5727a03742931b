SPECIFICATION FairSpec
CONSTANTS
  GameThreads = {t1, t2}
  Conns = {c1, c2}
  Io = io
  Nobody = nobody
  MaxBroadcasts = 2
  Askers = {c1}
  MaxReplies = 1
CHECK_DEADLOCK FALSE
INVARIANTS TypeOK BroadcastReachesOpen LogExclusive
PROPERTIES RegistryStable ImplementsFeed BroadcastsEnd
