SPECIFICATION Spec
CONSTANTS
  Threads = {t1, t2}
  Characters = {c1, c2}
  Nobody = Nobody
  MaxHp = 1
  MaxCalls = 2
  MaxInfos = 1
SYMMETRY Symmetry
CHECK_DEADLOCK FALSE
INVARIANTS TypeOK DamageConsistent InfoConsistent
