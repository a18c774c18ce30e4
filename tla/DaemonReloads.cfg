SPECIFICATION FairSpec
CONSTANTS
  Files <- DiscoveryFiles
  Flags <- FlagTracker
  BootFiles <- BaseFile
  MaxEdits = 1
  MaxHups = 2
  MaxFaults = 1
  Requests = 0
  MayStop = FALSE
INVARIANTS
  OwnPortFree
  OneVoice
  StaleOnlyIfOvertakenOrUnsent
  FacadeLostOnlyIfCaught
PROPERTIES
  EverySighupLoads
CHECK_DEADLOCK FALSE
