SPECIFICATION Spec
CONSTANTS
  g1 = g1
  g2 = g2
  Goroutines <- MCGoroutines
  Calls <- MCCalls
  Levels = {0, 2, 4}
  MaxSets = 1
  UserFields <- MCFields
INVARIANTS
  LinesWhole
  LoggedInFull
PROPERTIES
  CallsEnd
CHECK_DEADLOCK FALSE
