SPECIFICATION AllSpec
CONSTANTS
  MaxButWidth = 4
  NPaths = 3
  MaxLog2Len = 6
  MaxEstimated = 10
  MaxLog2VecWidth = 2
  Instances <- AllInstances
  Weights <- AllWeights
  Member = {w1, w2, w3}
  Nth = 3
  Workers <- TwoThreads
  NThread = 2
  Tn <- Numbered
  Plans <- AllPlans
  Worker = {w1, w2}
  Main = w1
  Sizes <- AllSizes
  Log2BS = 1
INVARIANTS
  SearchSound
  ResultIsPlan
  EstimateOptimal
  AllStarted
  ReturnNeedsFullTeam
  OutputInD
  PassOutOfPlace
  InputPreserved
  MatrixTypeOK
  Result
  RaceFree
PROPERTIES
  Terminates
  Returns
CHECK_DEADLOCK FALSE
