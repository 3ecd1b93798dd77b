SPECIFICATION FairSpec
CONSTANTS
  Retries = 3
  Polls = 3
  HostMayPreempt = FALSE
INVARIANTS TypeOK ReachesBank CollectsOwn
PROPERTY Ends
