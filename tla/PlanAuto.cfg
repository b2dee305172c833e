SPECIFICATION Spec
CONSTANTS
  p1 = p1
  p2 = p2
  t1 = t1
  t2 = t2
  t3 = t3
  t4 = t4
  f1 = f1
  f2 = f2
  k1 = k1
  k2 = k2
  a1 = a1
  x1 = x1
  x2 = x2
  NoFile = NoFile
  NoThread = NoThread
  NoPath = NoPath
  Process = {p1}
  Thread = {t1, t2}
  ProcessOf <- OneProcess
  File = {f1}
  Key = {k1, k2}
  Arch = {a1}
  DefaultArch = a1
  Path = {x1, x2}
  EnvFile = f1
  OnDisk <- MissingOrOld
  Settings <- AutoOrEnv
  Targets = {}
  How = {"measure"}
  ResetOnSwitch = TRUE
  MaxCalls = 5
  MaxCrashes = 1
INVARIANTS
  TypeOK
  SavedStays
  NotRegenerated
PROPERTIES
  ImplementsStore
CHECK_DEADLOCK FALSE
