\* Every kind of fault, two of them, in any order.
SPECIFICATION Spec
CONSTANTS
  Jobs = {j1, j2}
  Requests = {r1, r2}
  NoJob = NoJob
  Faults = {"crash", "disconnect", "storage", "registry", "foreign"}
  MaxFaults = 2
SYMMETRY Symmetry
INVARIANTS
  TypeOK
  UnfinishedKeepsItsInput
  NothingUnfinishedIsCondemned
  CompletedMeansArchive
  DeletedStaysDeleted
  OnlyAToldDeleteOrphans
PROPERTIES
  RestartReconciles
  ImplementsLifecycle
