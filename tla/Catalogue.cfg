SPECIFICATION FairSpec
CONSTANTS
  curl = curl
  old = old
  new = new
  None = None
  Malformed = Malformed
  Repo = {1, 2}
  Ours = {2}
  NameVersion = {curl}
  Build = {old, new}
  Present = {1, 2}
  Catalogues <- MCCatalogues
  PkgAtStart = TRUE
  MaxUpdates = 2
  MaxFaults = 1
INVARIANTS TypeOK MergeIsOwnFirst StaleOnlyIfMissedOrErred ReloadFollowedUp
PROPERTY Settles
