SPECIFICATION FairSpec
CONSTANTS
  Procs = {p1, p2}
  Conns = {c1, c2}
  Cancellers = {g1, g2, g3}
  PoolMax = 2
  MaxLate = 1
INVARIANT CancelsOverdue IdleIsClean
PROPERTY CallsReturn PoolRecovers
