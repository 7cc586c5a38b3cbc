SPECIFICATION FairSpec
CONSTANTS
  Consumers = {c1}
  Shares = {a}
  Relay = relay
  PeerLanes = {}
  None = none
  Limits <- MCTwo
  MaxTime = 0
PROPERTY
  RevokedStaysOut
CHECK_DEADLOCK FALSE
