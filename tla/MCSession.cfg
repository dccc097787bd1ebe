SPECIFICATION Spec
CONSTANTS
  UInt8Max = 2
  SessionIDs = {0, 7}
  TimeIDs = {0, 7}
  ObjectIDs = {1, 2}
  Definitions = {1}
  FlightAcked = {1}
  GcsAcked = {}
  FcInCap = 2
  AuthCap = 1
  MaxPublishers = 1
  MaxActive = 2
INVARIANTS
  QueriesInOrder
  QueriesContiguous
  
PROPERTIES
  IndexNeverWraps
  
CHECK_DEADLOCK FALSE
