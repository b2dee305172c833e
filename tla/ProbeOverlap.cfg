SPECIFICATION Spec
CONSTANTS
  t1 = t1
  t2 = t2
  x1 = x1
  x2 = x2
  Nobody = Nobody
  Thread = {t1, t2}
  Ext = {x1, x2}
  Supported = {x1}
  Overlap = TRUE
  Original = "default"
  MaxCalls = 2
INVARIANTS
  Survives
CHECK_DEADLOCK FALSE
