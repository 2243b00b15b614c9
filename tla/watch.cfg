SPECIFICATION Spec
CONSTANTS
  Capacity = 2
  MaxSaves = 4
INVARIANTS
  TypeOK
  OneBuildInFlight
PROPERTIES
  NoBuildWithoutNews
  EverySaveIsBuilt
  InterruptReturns
\* an interrupted watcher has nothing left to do
CHECK_DEADLOCK FALSE
