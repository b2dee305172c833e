SPECIFICATION AllSpec
CONSTANTS
  Prime = 12289
  Root = 10302
  LogOrder = 10
  MaxButWidth = 7
  MinShift = 1
  MaxShift = 3
  FullInputs = 4
  Samples = {21}
  MaxLog2Len = 4
  MaxLog2VecWidth = 2
  Plans <- AllPlans
  P = 4
  EBits = 4
  IntBits = 3
  Calls <- AllCalls
  Rounds = 4
  ExtraScale = 0
  TrigCalls <- AllTrigCalls
  NearRange = 40
  MiddleRange = 140
  TanRange = 100
  FastRange = 20
  PiRange = 120
  IntRange = 160
  Split = 4
  InverseCalls <- AllInverseCalls
  Quotients <- AllQuotients
  MaxSize = 2
  ExpCalls <- AllExpCalls
  HypCalls <- AllHypCalls
  MaxExpo = 15
  DoubleExpo = 13
  Precision = 11
  MaxInt = 1000
INVARIANTS
  ComputesDFT
  TablesSound
  ResultsRight
  StaysCongruent
  RemaindersExact
  LanesRight
  AnglesRight
  ElementaryRight
CHECK_DEADLOCK FALSE
