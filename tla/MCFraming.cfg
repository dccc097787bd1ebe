SPECIFICATION Spec
CONSTANTS
  Definitions <- MCDefinitions
  CorruptBytes = {0, 12, 60}
  Scenarios <- MCScenarios

  
PROPERTIES
  ReliableChannel
  PacketsArrive
\* The flight controller stops after the packets of the scenario.
CHECK_DEADLOCK FALSE
