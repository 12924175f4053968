CONSTANTS
  Job = {j1, j2}
  Item = {i1, i2, i3}
  NoJob = NoJob
  NoItem = NoItem
  Batch = 2
  MaxFaults = 1
  MaxCrashes = 1
SPECIFICATION Spec
INVARIANTS
  TypeOK
  CountersMatch
  DoneMeansSettled
  ExclusiveWork
PROPERTIES
  LedgerSpec
  RunnerEnds
  JobSettles
CHECK_DEADLOCK FALSE
