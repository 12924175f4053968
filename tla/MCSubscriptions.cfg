CONSTANTS
  Refresher = {r1, r2}
  Callback = {k1}
  Unsubscriber = {u1}
  Secret = {s1, s2}
  NoSecret = NoSecret
  MaxUnsub = 1
  MaxFaults = 1
SPECIFICATION Spec
INVARIANTS
  TypeOK
  PendingAskedAgain
PROPERTIES
  SettledStays
  Heals
