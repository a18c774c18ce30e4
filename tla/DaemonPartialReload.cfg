SPECIFICATION Spec
CONSTANTS
  Files <- DiscoveryFiles
  Flags <- NoKeys
  BootFiles <- BaseFile
  MaxEdits = 1
  MaxHups = 2
  MaxFaults = 1
  Requests = 0
  MayStop = FALSE
INVARIANTS
  SuccessMeansApplied
CHECK_DEADLOCK FALSE
