SPECIFICATION ServerSpec
CONSTANTS
  Cbs = {c1}
  Https = {h1, h2}
  Kinds = {"browser", "server"}
  Strategies = {"relay", "webrtc-first", "webrtc-only", "optimistic"}
  Modes = {TRUE, FALSE}
  MaxRelays = 2
  MaxIds = 2
  MaxFaults = 2
INVARIANTS
  SubscribedHears
  HeardOnce
  OneRelay
PROPERTIES
  RestIsFinal
  Recovers
  AnswersAll
CHECK_DEADLOCK FALSE
