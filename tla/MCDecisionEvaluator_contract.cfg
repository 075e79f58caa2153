CONSTANTS
  Undefined = Undefined
  Null = Null
  None = None
  TypeError = TypeError
  Snapshots <- MCSnapshotsNoMatrix
  DataDomainArgs <- MCDataDomainArgs
  Queries <- MCProtoQueries
INIT Init
NEXT Next
INVARIANTS
  DecideReturnsAllowOrDeny
CHECK_DEADLOCK FALSE
