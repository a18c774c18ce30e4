SPECIFICATION Spec
CONSTANTS
  Files <- AllFiles
  Flags <- FlagUpstream
  BootFiles <- EveryStart
  MaxEdits = 1
  MaxHups = 1
  MaxFaults = 1
  Requests = 1
  MayStop = TRUE
INVARIANTS
  TypeOK
  AppliedUnlessDeferred
  NoBadValueRuns
  NoRequestLost
CHECK_DEADLOCK FALSE
