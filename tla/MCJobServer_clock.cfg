\* No fault at all: a download and the reaper.
SPECIFICATION Spec
CONSTANTS
  Jobs = {j1}
  Requests = {r1, r2}
  NoJob = NoJob
  Faults = {}
  MaxFaults = 1
INVARIANTS
  DownloadRestartsTheClock
