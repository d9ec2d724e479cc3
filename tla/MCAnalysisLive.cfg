SPECIFICATION Spec
CONSTANTS
  Clients = {c1, c2}
  PullRequests = {p1}
  MaxHead = 2
  Digests = {d1}
  JobIds = {j1, j2}
  Capacity = 1
  Impatient = {c2}
  None = None
PROPERTY QueuedJobsFinish
\* JobIds bounds the run: once all ids are used a handler waits for ever.
CHECK_DEADLOCK FALSE
