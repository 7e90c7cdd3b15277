SPECIFICATION Spec
CONSTANTS
  Thread = {t1, t2, t3}
  Page = {p1, p2}
  Frame = {f1, f2}
  Val = {0, 1}
  Zero = 0
  SameStores = FALSE
  NULL = NULL
SYMMETRY Symmetry
INVARIANTS
  NoLostWrite
  SleepersWillBeWoken
  CountsAgree
CHECK_DEADLOCK FALSE
