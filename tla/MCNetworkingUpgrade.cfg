SPECIFICATION Spec
CONSTANTS
  GameThreads = {t1}
  Conns = {c1}
  Io = io
  Nobody = nobody
  MaxBroadcasts = 2
  Askers = {c1}
  MaxReplies = 1
CHECK_DEADLOCK FALSE
INVARIANTS HandleUpgradeSafe
