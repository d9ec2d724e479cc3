SPECIFICATION Spec
CONSTANTS
  Sessions = {s1}
  Callers = {k1}
  MaxConns = 2
  MaxRequests = 1
  MaxVersion = 2
  MaxBoots = 2
  RouteCap = 1
  OutCap = 2
  RequestCap = 1
  WireBound = 1
  None = None
CHECK_DEADLOCK FALSE
INVARIANT ConnectedIsListed
PROPERTY ExitedIsUnlisted
