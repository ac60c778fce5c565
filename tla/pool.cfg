SPECIFICATION FairPoolSpec
CONSTANTS
  MaxFd = 2
  NumPools = 3
  MaxAttempts = 1
  Workers = {w1, w2}
  Jobs = {j1}
  NoJob = NoJob
  MaxId = 3
INVARIANTS
  PoolTypeOK
  SingleAttempt
  LoginsGoToPools
  ShareAttribution
  SharesOwedBySession
PROPERTIES
  SessionKept
  NoPoolOpensOnline
  ConnectionsLive
  PolledStaysPut
  PoolRotation
  ImplementsPoolSession
