SPECIFICATION MCSpec
CONSTANTS
  Scopes = {p1}
  Rules = {r1, r2}
  None = none
  MaxVersion = 2
  MaxClicks = 2
  MaxLoads = 2
  MaxAttach = 2
  Dashboards = {"home", "garden"}
  Views = {1, 2}
  Whole = 0
  Entities = {"lamp", "meter", "door"}
  Controllable = {"lamp", "door"}
  Nothing = nothing
  MaxPicks = 5
  Shows <- MCShows
  EntityIds = {"lamp", "cam"}
  Cameras = {"cam"}
  Values <- MCValues
  Depth <- MCDepth
  Inputs <- MCInputs
  Reqs = {"sub", "call"}
  Sub = "sub"
  Libraries = {"noble", "webcrypto", "serial"}
  MaxOutbox = 1
  MaxEvents = 2
  Initial = 1
  Cap = 4
  Stable = 4
  Long = 6
  TerminalAfter = 2
  Times <- MCTimes
  MaxClock = 11
  Sessions = {s1, s2}
  MaxPeers = 3
  Consumers = {c1}
  Relay = relay
  Commands = {o1, o2}
  NoId = noid
  MaxChanges = 3
  MaxStops = 1
  MaxReloads = 1
SYMMETRY MCSymmetry
INVARIANTS
  SummaryTrue
  RulesKept
  Current
  PreviewIsPicked
  LinkAsSelected
  HarvestTrue
  InStep
  FeedsServed
  LatestSeen
  NotHammered
  NoneLeftBehind
  ChannelKept
  Durable
  Findable
  IdentityKept
CHECK_DEADLOCK FALSE
