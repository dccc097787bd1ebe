SPECIFICATION Spec
CONSTANTS
  DeviceIDs = {"sparky", "quanton"}
  MaxHIDFrameSize = 5
  Frames <- SomeFrames
  Reports <- SomeReports
  Scenarios <- MCScenarios
INVARIANTS
  BytesExact
PROPERTIES
  WriteReturns
  LinkOpens
\* The process ends with its device.
CHECK_DEADLOCK FALSE
