SPECIFICATION Spec
CONSTANTS
  curl = curl  old = old  new = new  rebuilt = rebuilt  junk = junk
  Request = {r1, r2}
  Package = {curl}
  Peer = {honest, liar}
  Honest = {honest}
  Content <- NoTwinContent
  Genuine <- NoTwinGenuine
  Size <- NoTwinSize
  None = None
  Snapshots <- OldAndNew
INVARIANT HonestNeverBlocked
