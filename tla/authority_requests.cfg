SPECIFICATION Spec
CONSTANTS
  c1 = c1
  e1 = e1
  Consumers = {c1, c2, c3}
  Sessions = {s1}
  Requests = {r1, r2, r3}
  Entities = {}
  SubIds = {}
  Relay = relay
  PeerLanes = {}
  OwnerLanes = {o1}
  None = none
  KeysOf <- MCAllKeys
  Manifests <- MCManifests
  Denials <- MCNoDenials
  MaxPending = 2
  MaxTime = 0
SYMMETRY MCSymmetry
INVARIANTS
  PendingSlots
  GrantTracesToRequest
CHECK_DEADLOCK FALSE
