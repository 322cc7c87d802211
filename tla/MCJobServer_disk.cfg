\* A client that leaves, or a disk that fills, while an upload is being saved.
SPECIFICATION Spec
CONSTANTS
  Jobs = {j1}
  Requests = {r1, r2}
  NoJob = NoJob
  Faults = {"disconnect", "storage"}
  MaxFaults = 1
INVARIANTS
  DiskIsBounded
