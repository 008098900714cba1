SPECIFICATION Spec
CONSTANTS
  InitFlags <- ClearFlags
  MaxClients = 1
  MaxResponse = 2
  AssertsEnabled = FALSE
INVARIANT ResponseDelivered
CHECK_DEADLOCK FALSE
