SPECIFICATION FairSpec
CONSTANTS
  curl = curl  old = old  new = new  rebuilt = rebuilt  junk = junk
  Request = {r1, r2}
  Package = {curl}
  Peer = {honest, liar}
  Honest = {honest}
  Content <- MCContent
  Genuine <- MCGenuine
  Size <- MCSize
  None = None
  Snapshots <- AnyCatalogue
INVARIANTS TypeOK VerifiedOnly SpoolOwned NotFoundMeansAbsent HonestBlockedOnlyIfMisled
PROPERTY EveryRequestAnswered
