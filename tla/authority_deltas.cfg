SPECIFICATION Spec
CONSTANTS
  c1 = c1
  e1 = e1
  Consumers = {c1}
  Sessions = {s1}
  Requests = {r1}
  Entities = {e1}
  SubIds = {sub}
  Relay = relay
  PeerLanes = {}
  OwnerLanes = {o1, o2}
  None = none
  KeysOf <- MCOneKey
  Manifests <- MCManifests
  Denials <- MCNoDenials
  MaxPending = 1
  MaxTime = 1
INVARIANT
  DeltasWithinGrant
CHECK_DEADLOCK FALSE
