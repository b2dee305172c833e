SPECIFICATION TrigSpec
CONSTANTS
  TrigCalls <- PiCalls
  NearRange = 20
  MiddleRange = 40
  TanRange = 30
  FastRange = 10
  PiRange = 30
  IntRange = 65
  PiDocumented = 120
  Split = 4
INVARIANTS
  PiAsDocumented
CHECK_DEADLOCK FALSE
