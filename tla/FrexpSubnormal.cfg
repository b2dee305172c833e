SPECIFICATION FSpec
CONSTANTS
  P = 4
  EBits = 4
  IntBits = 3
  Calls <- FrexpCalls
  Rounds = 4
  ExtraScale = 0
INVARIANTS
  FrexpAsC99
CHECK_DEADLOCK FALSE
