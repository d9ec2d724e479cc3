SPECIFICATION Spec
CONSTANTS
  FileCount = 1
  LongFiles = {}
  Lines = {1}
  Sides = {right}
  Bodies = {b1}
  Blank = blank
  MaxHead = 2
  MaxInputs = 7
  MaxWrites = 1
  Impatient = FALSE
  None = None
CHECK_DEADLOCK FALSE
INVARIANT PublishedAtItsRevision
