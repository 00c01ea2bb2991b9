CONSTANTS
  Cards <- MCCards
  Requests <- MCRequests
  BlockLen = 2
  MaxTries = 3
  Removable = TRUE
  ReadErrors = FALSE
SPECIFICATION FairSpec
PROPERTY CommandTimesOut
