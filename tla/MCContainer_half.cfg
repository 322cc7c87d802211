\* No fault and no stop: a startup that fails.
SPECIFICATION FairSpec
CONSTANTS
  Newer = 5
  Faults = {}
  MaxFaults = 0
  MaxStarts = 1
  MaxSignals = 0
CHECK_DEADLOCK FALSE
PROPERTIES
  StopsAsAUnit
