SPECIFICATION FairSpec
CONSTANTS
  Handler = {h1, h2, h3, h4}
  IP = {a, b}
  Package = {curl}
  MaxConcurrentSeeds = 3
  MaxConcurrentSeedsPerIP = 2
INVARIANTS TypeOK SlotsMatchHandlers CapsRespected
PROPERTIES StopReleasesPort DriftCorrected
