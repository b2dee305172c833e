SPECIFICATION Spec
CONSTANTS
  p1 = p1
  p2 = p2
  t1 = t1
  t2 = t2
  t3 = t3
  t4 = t4
  f1 = f1
  f2 = f2
  k1 = k1
  k2 = k2
  a1 = a1
  x1 = x1
  x2 = x2
  NoFile = NoFile
  NoThread = NoThread
  NoPath = NoPath
  Process = {p1}
  Thread = {t1}
  ProcessOf <- OneProcess
  File = {f1, f2}
  Key = {k1, k2}
  Arch = {a1}
  DefaultArch = a1
  Path = {x1, x2}
  EnvFile = NoFile
  OnDisk <- MissingOrOld
  Settings <- ProtocolOrByHand
  Targets = {f2}
  How = {"measure", "estimate"}
  ResetOnSwitch = TRUE
  MaxCalls = 6
  MaxCrashes = 0
INVARIANTS
  ReadyIsStored
  SavePlanComplete
CHECK_DEADLOCK FALSE
