SPECIFICATION Spec
CONSTANTS
  Quiet = 1
  Maximum = 5
  Safety = 50
  PollSafety = 10
  MaxLoad = 12
  MaxChanges = 2
  Contents = {d1, d2}
  Empty = Empty
  Broken = Broken
  None = None
INVARIANTS BurstsAreServed ManualIsImmediate ShownIsApplied
PROPERTY CatchesUp
