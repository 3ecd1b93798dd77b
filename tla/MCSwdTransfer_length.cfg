SPECIFICATION Spec
CONSTANTS
  MaxRequests = 2
  RetryCounts = {0}
  MatchRetries = {0}
  DefaultRetry = 0
INVARIANT RequestLength
