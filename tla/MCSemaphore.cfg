SPECIFICATION SemSpec
CONSTANTS
  t1 = t1  t2 = t2  t3 = t3  t4 = t4
  NoThread = NoThread
  Takers = {t1, t2, t3, t4}
  Givers = {t1, t2, t3, t4}
  initVal = 1
  MaxValue = 2
  MaxDebt = 3
  Spurious = TRUE
INVARIANT NoLostWakeup
SYMMETRY ThreadSymmetry
CHECK_DEADLOCK FALSE
