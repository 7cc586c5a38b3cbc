SPECIFICATION FairSpec
CONSTANTS
  c1 = c1
  e1 = e1
  Consumers = {c1}
  Sessions = {s1}
  Requests = {r1}
  Entities = {e1}
  SubIds = {sub}
  Relay = relay
  PeerLanes = {p1}
  OwnerLanes = {o1, o2}
  None = none
  KeysOf <- MCOneKey
  Manifests <- MCManifests
  Denials <- MCDenials
  MaxPending = 1
  MaxTime = 1
INVARIANTS
  RevokedFeedsClosed
  RestrictedFeedsCleared
PROPERTIES
  KeepsScopes
  RevokedFeedsEnd
CHECK_DEADLOCK FALSE
