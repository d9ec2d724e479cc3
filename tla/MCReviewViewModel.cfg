SPECIFICATION Spec
CONSTANTS
  FileCount = 2
  LongFiles = {2}
  Lines = {1}
  Sides = {right}
  Bodies = {b1, b2}
  Blank = blank
  MaxHead = 2
  MaxInputs = 7
  MaxWrites = 2
  Impatient = FALSE
  None = None
SYMMETRY Symmetry
CHECK_DEADLOCK FALSE
INVARIANTS   ViewedSettles
