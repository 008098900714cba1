SPECIFICATION Spec
CONSTANTS
  InitFlags <- ClearFlags
  MaxClients = 2
  MaxResponse = 1
  AssertsEnabled = FALSE
INVARIANT TypeOK
INVARIANT RegistryExact
INVARIANT AcceptLoopArmed
PROPERTY ServiceSpec
CHECK_DEADLOCK FALSE
