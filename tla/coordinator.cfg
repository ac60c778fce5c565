SPECIFICATION FairSpec
CONSTANTS
  Deployments = {d1, d2}
  HysteresisCycles = 3
  DEPLOY = d1
  MaxKills = 1
  MaxToggles = 2
INVARIANTS TypeOK PausedWhenNoted
PROPERTY PausedIfVisible
