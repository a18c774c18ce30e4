SPECIFICATION FairSpec
CONSTANTS
  curl = curl
  curlOld = curlOld
  curlNew = curlNew
  None = None
  NameVersion = {curl}
  File = {curlOld, curlNew}
  Of <- MCOf
  FullSize <- MCFullSize
  Snapshots <- MCSnapshots
  MaxChanges = 3
CHECK_DEADLOCK FALSE
INVARIANTS TypeOK ListCurrent
PROPERTY ListSettles
