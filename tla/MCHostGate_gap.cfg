CONSTANTS
  Caller = {c1, c2}
  Cancellable = {}
  Slots = 2
  Burst = 2
  Gap = 2
SPECIFICATION Spec
PROPERTIES
  GapRespected
