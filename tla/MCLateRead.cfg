SPECIFICATION Spec
CONSTANTS
  InitFlags <- ClearFlags
  MaxClients = 1
  MaxResponse = 1
  AssertsEnabled = FALSE
INVARIANT HandlersFindSession
CHECK_DEADLOCK FALSE
