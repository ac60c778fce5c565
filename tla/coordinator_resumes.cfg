SPECIFICATION FairSpec
CONSTANTS
  Deployments = {d1, d2}
  HysteresisCycles = 3
  DEPLOY = d1
  MaxKills = 0
  MaxToggles = 0
PROPERTY ResumesAfterGame
