CONSTANTS
  Undefined = Undefined
  Null = Null
  None = None
  NotArray = NotArray
  TypeError = TypeError
  CheckResponses <- MCCheckResponses
  EvaluateResponses <- MCEvaluateResponsesNonNull
  DecisionQueries <- MCDecisionQueries
INIT Init
NEXT Next
INVARIANTS
  ChainWidensInOrder
  LookupMostSpecific
CHECK_DEADLOCK FALSE
