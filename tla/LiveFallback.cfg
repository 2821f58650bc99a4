SPECIFICATION LiveSpec
CONSTANTS
  MaxFaults = 3
PROPERTY FallsBackToPolling
CHECK_DEADLOCK FALSE
