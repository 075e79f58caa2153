CONSTANTS
  Ids = {e1, e2, e3}
  T1 = T1
  T2 = T2
  O1 = O1
  O2 = O2
  A1 = A1
  t1 = t1
  t2 = t2
  SYSTEM = SYSTEM
  Missing = Missing
  NoDD = NoDD
  NotInserted = NotInserted
  EdgeRecords <- MCEdgeRecords
  InsertRecords <- MCInsertRecords
  InitIndexes <- MCInitIndexes
  DryRunModes = {FALSE}
  MaxRuns = 1
SYMMETRY Symmetry
INIT Init
NEXT Next
PROPERTIES
  BackfillOnlyFillsMissing
CHECK_DEADLOCK FALSE
