SPECIFICATION Spec
CONSTANTS
  InitFlags <- ClearFlags
  MaxClients = 1
  MaxResponse = 1
  AssertsEnabled = FALSE
PROPERTY ExpiryRunsOut
CHECK_DEADLOCK FALSE
