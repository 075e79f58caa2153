CONSTANTS
  Undefined = Undefined
  Null = Null
  None = None
  TypeError = TypeError
  Snapshots <- MCSnapshots
  DataDomainArgs <- MCDataDomainArgs
  Queries <- MCQueries
INIT Init
NEXT Next
PROPERTIES
  AclDecisionSpec
CHECK_DEADLOCK FALSE
