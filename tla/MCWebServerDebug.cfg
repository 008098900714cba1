SPECIFICATION FairSpec
CONSTANTS
  InitFlags <- ClearFlags
  MaxClients = 2
  MaxResponse = 1
  AssertsEnabled = TRUE
INVARIANT NoAcceptAssert
INVARIANT ReadArmed
PROPERTY SessionsEnd
PROPERTY ClientsAccepted
CHECK_DEADLOCK FALSE
