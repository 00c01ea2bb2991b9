CONSTANTS
  Cards <- MCCards
  Requests <- MCRequests
  BlockLen = 2
  MaxTries = 3
  Removable = TRUE
  ReadErrors = TRUE
SPECIFICATION FairSpec
INVARIANTS HeardOut AnswersInTurn OkMeansRead
PROPERTY CallsEnd
