SPECIFICATION ProxySpec
CONSTANTS
  MaxFd = 2
  NumPools = 1
  MaxAttempts = 0
  Workers = {w1}
  NoWorker = NoWorker
  Whitelist = {}
  Methods = {"login"}
  Jobs = {j1}
  NoJob = NoJob
  MaxId = 1
INVARIANT NoUseAfterFree
