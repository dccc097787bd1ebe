SPECIFICATION ConversionsSpec
CONSTANTS
  Files <- SomeFiles
  MaxFiles = 3
  HashBits = 4
  IdSpan = 16
  Hash <- CalculateHash
INVARIANT DecodedAsDescribed
\* The conversions come to an end.
CHECK_DEADLOCK FALSE
