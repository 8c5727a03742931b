SPECIFICATION Spec
CONSTANTS
  Threads = {t1}
  Players = {p1, p2}
  Enemies = {e1}
  NoInstance = NoInstance
  LoadIn = LoadIn
  EnterGame = EnterGame
  Deaths = {d1, d2}
  Others = {zero, walk}
  Zero = zero
  Counts = {0, 1}
  MaxCalls = 3
CHECK_DEADLOCK FALSE
INVARIANTS EntriesReported
