CONSTANTS
  Writer = {w1, w2}
  Client = {c1}
  Nobody = Nobody
  MaxChange = 4
  MaxRev = 3
  MaxSecond = 2
  MaxFaults = 1
SPECIFICATION Spec
SYMMETRY Symmetry
INVARIANTS
  TypeOK
  TagSound
  Announced
  DateSound
