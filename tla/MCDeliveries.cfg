CONSTANTS
  Hook = {h1}
  Notifier = {n1, n2}
  Limit = 3
  MaxFlight = 4
  MaxLost = 1
  MaxCrashes = 1
SPECIFICATION HookSpec
INVARIANTS
  HookTypeOK
  RowMatchesLog
PROPERTIES
  OffIsSilent
  DownIsLeftAlone
CHECK_DEADLOCK FALSE
