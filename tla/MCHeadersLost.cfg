SPECIFICATION Spec
CONSTANT Requests <- AllRequests
INVARIANT HeadersComplete
CHECK_DEADLOCK FALSE
