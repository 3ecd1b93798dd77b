SPECIFICATION FairSpec
CONSTANTS
  MaxRequests = 3
  RetryCounts = {0, 1}
  MatchRetries = {0, 1}
  DefaultRetry = 1
INVARIANTS
  TypeOK
  ResultsInOrder
  ResultsComplete
  Executed
  ErrorsSurface
PROPERTY Answered
