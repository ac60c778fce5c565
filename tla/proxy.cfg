SPECIFICATION ProxySpec
CONSTANTS
  MaxFd = 2
  NumPools = 1
  MaxAttempts = 0
  Workers = {w1, w2}
  NoWorker = NoWorker
  Whitelist = {w1}
  Methods = {"subscribe", "authorize", "login", "submit"}
  Jobs = {j1}
  NoJob = NoJob
  MaxId = 2
INVARIANTS
  ProxyTypeOK
  AdmittedWorkers
  JobCopyWhole
  JobsReachMiners
PROPERTIES
  OnlyJobsDangle
  NoForeignMark
