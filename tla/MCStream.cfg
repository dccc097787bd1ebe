SPECIFICATION Spec
CONSTANTS
  Defs = {"Stats", "Sensor", "Pid", "ObjectPersistence"}
  Auth = {"Stats"}
  Settings = {"Pid", "ObjectPersistence"}
  MultiInstance = {"Pid"}
  Instances = {0, 1}
  Values = {"v1", "v2"}
  FcOutCap = 1
  FcInCap = 1
  OutCap = 1
  Scenarios <- MCScenarios
PROPERTIES
  ManagersGetChannels
  
  SettingsSaved
  ComesToRest
\* The updates and the actions come to an end.
CHECK_DEADLOCK FALSE
