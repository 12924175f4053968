CONSTANTS
  Caller = {c1, c2}
  Cancellable = {c1, c2}
  Slots = 2
  Burst = 2
  Gap = 2
SPECIFICATION Spec
INVARIANTS
  TypeOK
  SlotsRespected
PROPERTIES
  ReturnsUnlessJammed
  CancelReturns
