CONSTANTS
  Cards <- MCCards
  Requests <- MCRequests
  BlockLen = 2
  MaxTries = 3
  Removable = FALSE
  ReadErrors = FALSE
SPECIFICATION Spec
INVARIANT InitializedIsReady
