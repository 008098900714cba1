SPECIFICATION Spec
CONSTANT Requests <- AllRequests
INVARIANT TypeOK
INVARIANT Decided
INVARIANT DecidedAtOnce
INVARIANT CutAfterHeaders
INVARIANT BodyOnItsOwn
 
INVARIANT FormKept
CHECK_DEADLOCK FALSE
