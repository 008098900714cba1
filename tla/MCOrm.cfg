SPECIFICATION Spec
CONSTANTS
  Mappings <- AllMappings
  Values <- SomeValues
  Conditions <- AllConditions
  Arguments <- AllArguments
  MaxInserts = 2
INVARIANT TypeOK
INVARIANT FitReads
 
 
 
CHECK_DEADLOCK FALSE
