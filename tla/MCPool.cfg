CONSTANTS
  Feed = {f1, f2}
  Fetcher = {w1, w2}
  Extractor = {x1}
  Request = {r1, r2}
  NoFeed = NoFeed
  QueueSize = 2
SPECIFICATION Spec
INVARIANTS
  TypeOK
  GoneBeforeClose
  AskedHeld
PROPERTIES
  AskedBegins
  Stops
CHECK_DEADLOCK FALSE
