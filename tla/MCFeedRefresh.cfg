CONSTANTS
  Refresher = {r1, r2}
  Entry = {e1, e2, e3}
  MaxVersion = 2
  MaxDate = 1
  Window = 2
  Keep = 2
  SendsETag = TRUE
  SendsMod = TRUE
  MaxFaults = 1
SPECIFICATION Spec
SYMMETRY Symmetry
INVARIANTS
  TypeOK
  NoEntryHidden
  NoEditHidden
  OnlyPublished
CHECK_DEADLOCK FALSE
