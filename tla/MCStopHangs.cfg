SPECIFICATION FairSpec
CONSTANTS
  InitFlags <- ClearFlags
  MaxClients = 1
  MaxResponse = 1
  AssertsEnabled = FALSE
PROPERTY StopEnds
CHECK_DEADLOCK FALSE
