\* One run against a server: its write of the archive fails half way.
SPECIFICATION Spec
CONSTANTS
  a = a
  b = b
  Members = {a, b}
  Linked = {a}
  Dest = Dest
  Folder = Folder
  Old = Old
  Runs = {w1}
  Requests <- RemoteRequests
  Procs = {p1}
  Pids = {i1}
  Nothing = Nothing
  User = User
  Faults = {"disk"}
  MaxFaults = 1
  MaxChanges = 0
CHECK_DEADLOCK FALSE
INVARIANT FailedRunsLeaveTheDestination
