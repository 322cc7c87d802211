\* Liveness of accepted jobs: no lost registry write, no unreadable row.
SPECIFICATION FairSpec
CONSTANTS
  Jobs = {j1, j2}
  Requests = {r1}
  NoJob = NoJob
  Faults = {"crash", "disconnect", "storage"}
  MaxFaults = 2
INVARIANTS
  EveryUnfinishedJobIsOwned
PROPERTIES
  AcceptedJobsSettle
