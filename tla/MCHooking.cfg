SPECIFICATION FairSpec
CONSTANTS
  Threads = {t1}
  MaxCalls = 2
CHECK_DEADLOCK FALSE
INVARIANTS TypeOK CallsIntact ContinueIsSet SettledCallsSafe
PROPERTIES CallsEnd
