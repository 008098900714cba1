SPECIFICATION Spec
CONSTANTS
  InitFlags <- GarbageFlags
  MaxClients = 1
  MaxResponse = 2
  AssertsEnabled = FALSE
INVARIANT DisconnectedIsQuiet
INVARIANT NoSpuriousError
CHECK_DEADLOCK FALSE
