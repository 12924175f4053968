CONSTANTS
  Request = {r1, r2, r3}
  Token = {root, t}
  Client = {c}
  Grant = {g}
  Admin = {root}
  Expiring = {t}
  Address = {a}
  Nobody = Nobody
  PublicBurst = 2
  ExchangeBurst = 1
  TokenBurst = 1
  MaxCrashes = 1
SPECIFICATION Spec
SYMMETRY Symmetry
INVARIANTS
  TypeOK
  RevokedNotServed
  MaintenanceHolds
  BurstBound
CHECK_DEADLOCK FALSE
