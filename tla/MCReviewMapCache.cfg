SPECIFICATION Spec
CONSTANTS
  Identities = {i1, i2}
  Maps = {m1, m2}
  Sizes = {1, 2}
  MaxBytes = 2
  MaxAge = 1
  MaxTime = 3
  Garbled = Garbled
  None = None
SYMMETRY Symmetry
INVARIANTS SizeBounded JustUsedSurvives
PROPERTY ImplementsLossyCache
