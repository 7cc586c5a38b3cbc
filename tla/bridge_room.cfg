SPECIFICATION BridgeSpec
CONSTANTS
  Sockets <- MCSockets
  None = none
  MaxClients = 1
  MaxPending = 2
INVARIANTS
  AuthorityInCharge
  NoGhostSessions
PROPERTIES
  IsSwitchboard
  PendingResolved
CHECK_DEADLOCK FALSE
