\* Two runs over a folder of two files, in one process or in two.
SPECIFICATION MCSpec
CONSTANTS
  a = a
  b = b
  Members = {a, b}
  Linked = {a}
  Dest = Dest
  Folder = Folder
  Old = Old
  Runs = {w1, w2}
  Requests <- AllRequests
  Procs = {p1, p2}
  Pids = {i1, i2}
  Nothing = Nothing
  User = User
  Faults = {"crash", "disk", "damage"}
  MaxFaults = 1
  MaxChanges = 1
SYMMETRY Symmetry
CHECK_DEADLOCK FALSE
INVARIANTS
  TypeOK
  OutputIsWhole
  PublishedIsWhatWasAsked
  TempsAreNotLeaked
  SourceSurvives
PROPERTIES
  ImplementsAtomicOutput
