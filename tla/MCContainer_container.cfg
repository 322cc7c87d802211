\* The container under stops, kills and deaths of its children.
SPECIFICATION FairSpec
CONSTANTS
  Newer = 5
  Faults = {"death", "statement", "config"}
  MaxFaults = 2
  MaxStarts = 4
  MaxSignals = 2
CHECK_DEADLOCK FALSE
INVARIANTS
  TypeOK
  OnlyTheTailIsLost
PROPERTIES
  StampedIsComplete
  FutureIsUntouched
  StopsOnceHeard
