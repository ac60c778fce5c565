SPECIFICATION FairPoolSpec
CONSTANTS
  MaxFd = 2
  NumPools = 2
  MaxAttempts = 1
  Workers = {w1}
  Jobs = {j1}
  NoJob = NoJob
  MaxId = 2
PROPERTY FailoverAfterLoss
