SPECIFICATION FairSpec
CONSTANTS
  s1 = s1
  s2 = s2
  s3 = s3
  s4 = s4
  Sockets <- MCSockets
  None = none
  MaxClients = 1
  MaxPending = 2
PROPERTY
  EvictedOnlyOffline
CHECK_DEADLOCK FALSE
