SPECIFICATION FairSpec
CONSTANTS
  IP = {ip1, ip2}
  NameVersion = {curl, vim}
  BadName = {bad}
  MaxPort = 2
  MaxPackages = 2
  Timeout = 1
  MaxPeers = 1
  MaxTime = 3
INVARIANTS TypeOK IndexConsistent
PROPERTIES ImplementsDirectory DeadRecordsReaped
