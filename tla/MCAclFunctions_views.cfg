CONSTANTS
  Undefined = Undefined
  Null = Null
  None = None
  NotArray = NotArray
  TypeError = TypeError
  CheckResponses <- MCCheckResponses
  EvaluateResponses <- MCEvaluateResponses
  DecisionQueries <- MCDecisionQueries
INIT Init
NEXT Next
INVARIANTS
  GetDecisionNeverThrows
CHECK_DEADLOCK FALSE
