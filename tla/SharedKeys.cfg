SPECIFICATION Spec
CONSTANTS
  h1 = h1
  h2 = h2
  Handle = {h1, h2}
  MaxButWidth = 2
  ISA <- PureC
  EnableStream = FALSE
  Requests1D <- Row
  Requests2D <- Matrix
  ForeignPaths = FALSE
  MaxStored = 2
INVARIANTS
  PathsRunnable
CHECK_DEADLOCK FALSE
