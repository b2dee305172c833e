SPECIFICATION Spec
CONSTANTS
  h1 = h1
  h2 = h2
  Handle = {h1, h2}
  MaxButWidth = 2
  ISA <- ThreeIsas
  EnableStream = FALSE
  Lengths = {1, 4}
  Sizes2D = {1, 2}
  Requests1D <- Some1D
  Requests2D <- Some2D
  ForeignPaths = FALSE
  MaxStored = 2
INVARIANTS
  PlansRunnable
  MemoryBalanced
  StoredReadable
PROPERTIES
  StoredIsUsed
CHECK_DEADLOCK FALSE
