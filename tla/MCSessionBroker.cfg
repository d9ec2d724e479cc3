SPECIFICATION Spec
CONSTANTS
  Sessions = {s1}
  Callers = {k1, k2}
  MaxConns = 2
  MaxRequests = 2
  MaxVersion = 3
  MaxBoots = 1
  RouteCap = 1
  OutCap = 2
  RequestCap = 1
  WireBound = 1
  None = None
SYMMETRY Symmetry
CHECK_DEADLOCK FALSE
INVARIANTS AnswerIsOwn 
