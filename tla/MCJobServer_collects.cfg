\* Liveness of the sweep, under every kind of fault.
SPECIFICATION FairSpec
CONSTANTS
  Jobs = {j1, j2}
  Requests = {r1}
  NoJob = NoJob
  Faults = {"crash", "disconnect", "storage", "registry", "foreign"}
  MaxFaults = 2
PROPERTIES
  FinishedJobsAreCollected
