\* A stop while an older database is migrated.
SPECIFICATION Spec
CONSTANTS
  Newer = 5
  Faults = {}
  MaxFaults = 0
  MaxStarts = 2
  MaxSignals = 1
CHECK_DEADLOCK FALSE
INVARIANTS
  OpeningBringsItUp
