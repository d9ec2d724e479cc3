SPECIFICATION Spec
CONSTANTS
  i1 = i1
  Items <- ChatItems
  MaxVersion = 1
  MaxTurns = 4
  MaxConcurrent = 2
  MaxReplay = 3
  Damaged = Damaged
  Batches = 2
  StdoutLimit = 1
  BaseMap <- ExactMap
  ServedMaps <- AnsweredMaps
  Retries = 1
  PollLimit = 2
  MaxPolls = 1
  Codes = 2
  Lifetime = 1
  MaxTime = 1
  MaxClients = 2
  Threads = 2
  Partial = Partial
  NoValue = NoValue
  None = None
  Err = Err
  Bad = Bad
  PlainText = PlainText
  Malformed = Malformed
  Unreachable = Unreachable
INVARIANTS
  ChatKeepsUp AttemptsAreSeparate MapPaneIsCurrent PairingLasts 
  DiffsAreRead RowsShowTheDiff TextIsClean ViewKeepsItsPlace GuideIsExact
  ConfigIsHonoured ReviewIsTheComparison HttpIsWhole
\* A part that was given its input has nothing more to do.
CHECK_DEADLOCK FALSE
