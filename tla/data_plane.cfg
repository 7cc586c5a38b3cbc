SPECIFICATION Spec
CONSTANTS
  kitchen = kitchen
  hall = hall
  door = door
  light = light
  lock = lock
  on = on
  open = open
  room = room
  elsewhere = elsewhere
  k1 = k1
  k2 = k2
  k3 = k3
  Star = star
  None = none
  Entities <- MCEntities
  DomainOf <- MCDomainOf
  MembersOf <- MCMembersOf
  Manifest <- MCManifest
  Rules <- MCRules
  DayLength = 3
  WeekLength = 7
  MaxHistoryEntities = 2
  Calls = {k1, k2, k3}
  Messages <- MCMessages
  Settings <- MCSettings
  Budget = 7
  Span = 2
  MaxTime = 4
SYMMETRY MCSymmetry
INVARIANTS
  LimitsKept
  BudgetKept
  JudgedByTarget
  SchedulesRunToTheirEnd
PROPERTY
  DecidesByHistory
