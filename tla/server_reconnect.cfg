SPECIFICATION ServerSpec
CONSTANTS
  Cbs = {c1}
  Https = {h1}
  Kinds = {"server"}
  Strategies = {"relay"}
  Modes = {FALSE}
  MaxRelays = 2
  MaxIds = 2
  MaxFaults = 1
PROPERTY ServerReturns
CHECK_DEADLOCK FALSE
