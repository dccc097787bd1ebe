SPECIFICATION ConversionsSpec
CONSTANTS
  Files <- SomeFiles
  MaxFiles = 3
  HashBits = 4
  IdSpan = 16
  Hash <- CalculateHash
INVARIANTS
  MetaNeverClashes
  LookupsFind
  FieldsAsDeclared
  RoundTrips
  
  HeaderReadsBack
  DecodeFaithful
  PiecesDoNotShow
\* A conversion is over when it is done.
CHECK_DEADLOCK FALSE
