SPECIFICATION DFairSpec
CONSTANTS
  t1 = t1
  t2 = t2
  x1 = x1
  x2 = x2
  f1 = f1
  f2 = f2
  Nobody = Nobody
  Base = Base
  Thread = {t1, t2}
  Ext = {x1, x2}
  Supported = {x1}
  Func = {f1, f2}
  Substs <- LackingThenPresent
  Overlap = FALSE
  Original = "application"
  MaxCalls = 3
INVARIANTS
  Survives
  AnswersRight
  HandlerKept
  SameCodeForAll
  NoSecondDispatch
PROPERTIES
  DispatchedOnce
  Served
CHECK_DEADLOCK FALSE
