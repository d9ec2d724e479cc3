SPECIFICATION Spec
CONSTANTS
  Clients = {c1, c2}
  PullRequests = {p1}
  MaxHead = 2
  Digests = {d1, d2}
  JobIds = {j1, j2}
  Capacity = 1
  Impatient = {c1, c2}
  None = None
SYMMETRY Symmetry
INVARIANTS InFlightIsLive EnrichmentMatchesKey
PROPERTY JobsOnlyAdvance
