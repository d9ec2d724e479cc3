SPECIFICATION Spec
CONSTANTS
  Diffs <- MCDiffs
  Filters <- MCFilters
  TestFiles <- MCTestFiles
  NoteTargets <- MCNoteTargets
  MaxLines = 2
  NoRow = NoRow
INVARIANT CursorOnRow
PROPERTY PlaceAndProgressKept
