SPECIFICATION FairSpec
CONSTANTS
  Consumers = {c1, c2}
  Shares = {a}
  Relay = relay
  PeerLanes = {p1, p2}
  None = none
  Limits <- MCLimits
  MaxTime = 1
INVARIANTS
  ClaimsWithinCap
  HoldersCounted
PROPERTIES
  NoGrantFromClosedShare
  ClaimsAnswered
CHECK_DEADLOCK FALSE
