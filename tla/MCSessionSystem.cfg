SPECIFICATION SystemSpec
CONSTANTS
  UInt8Max = 3
  SessionIDs = {0, 7}
  TimeIDs = {7}
  ObjectIDs = {1, 2, 3}
  Definitions = {1, 3}
  FlightAcked = {1}
  GcsAcked = {}
  FcInCap = 2
  AuthCap = 5
  MaxPublishers = 3
  MaxActive = 9
  BootStatuses = {"Disconnected"}
  TickCap = 1
  Scenarios <- MCScenarios
INVARIANTS
  EnumerationExact
PROPERTIES
  EventuallyPublished
  EventuallyConnected
  RepliesAcknowledged
CHECK_DEADLOCK FALSE
