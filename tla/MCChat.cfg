SPECIFICATION ChatSpec
CONSTANTS
  Conns = {c1, c2}
  SendCap = 1
  MaxSaid = 3
INVARIANTS
  NoPanic
  NoGaps
PROPERTIES
  LeavesCompletely
CHECK_DEADLOCK FALSE
