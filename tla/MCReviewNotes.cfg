CONSTANTS
  f1 = f1
  f2 = f2
  r1 = r1
  None = None
  Files <- MCFiles
  Ranges <- MCRanges
  Comments <- MCComments
  Text <- MCText
  RequestIds <- MCRequestIds
  MAX_CONCURRENT_ASKS = 1
  PollBudget = 1
  MaxNotes = 1
  MaxAsks = 2
  MaxCards = 2
SPECIFICATION FairSpec
INVARIANTS AnswersOwnQuestion ThreadsHoldTogether
PROPERTIES RefusedChangesNothing DraftSavedOrCancelled QuestionsSettle
