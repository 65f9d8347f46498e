SPECIFICATION Spec
CONSTANTS
  NameRequests = {n1, n2}
  SpecRequests = {v1}
  n1 = n1
  n2 = n2
  v1 = v1
  None = None
INVARIANTS NoDoubleRelease ParameterAlive ReleasedExceptMore
PROPERTY HandlerCalled
