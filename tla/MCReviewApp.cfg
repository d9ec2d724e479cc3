CONSTANTS
  Settings <- MCSettings
  Text <- MCText
  Themes <- MCThemes
  Configured = "paper"
  MaxNotes = 1
  MaxLost = 1
  None = None
SPECIFICATION Spec
INVARIANTS QuitIsDecided OneReview
CHECK_DEADLOCK FALSE
