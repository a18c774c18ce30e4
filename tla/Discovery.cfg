SPECIFICATION Spec
CONSTANTS
  IP = {d1}
  NameVersion = {curl}
  BadName = {}
  MaxPort = 1
  MaxPackages = 1
  Timeout = 6
  MaxPeers = 1
  MaxTime = 9
  PingInterval = 2
  RequestTimeout = 1
  ScanErrors = TRUE
  MaxLate = 1
  MaxMisses = 3
INVARIANTS TypeOK NoLostWakeup SelfHealing QuietMeansWithdrawn SurvivesOneLoss
