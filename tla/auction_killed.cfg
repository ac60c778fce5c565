SPECIFICATION FairSpec
CONSTANTS
  Services = {lolminer, xmrig}
  NoService = NoService
  MINING_HOURLY = 2
  K8S_BASE_BID = 1
  K8S_URGENCY_MULT = 3
  Pods = {p1, p2}
  MaxCrashes = 0
  MaxKills = 1
PROPERTY MinesWhenIdle
