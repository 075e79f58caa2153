CONSTANTS
  Undefined = Undefined
  Null = Null
  None = None
INIT Init
NEXT Next
INVARIANTS
  ParseMatchesSpec
CHECK_DEADLOCK FALSE
