SPECIFICATION MCSpec
CONSTANTS
  Loads <- MCLoads
  BufSize = 2
  LargeMin = 4
  ControlMax = 1
  KeyLen = 3
  Cap = 3
  Values <- MCValues
INVARIANTS
  MessagesArrive
  WireWellFormed
  
  DialAsAsked
  NothingLeftBehind
PROPERTIES
  CloseEnds
  TimeoutEndsDial
\* The applications come to an end.
CHECK_DEADLOCK FALSE
