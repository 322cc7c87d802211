\* A browser and a desktop over one server.
SPECIFICATION FairSpec
CONSTANTS
  Web = Web
  Desktop = Desktop
  Clients = {Web, Desktop}
  Jobs = {j1, j2}
  Items = {folder, archive}
  Folders = {folder}
  ArchiveItems = {archive}
  None = None
  FirstDelay = 10
  MaxDelay = 25
  Faults = {"network", "refusal", "foreign"}
  MaxFaults = 2
CHECK_DEADLOCK FALSE
INVARIANTS
  TypeOK
  DeletedOnlyOnceHeld
  LatenessIsBounded
  ExtractionKeepsItsArchive
PROPERTIES
  NoExchangeIsAbandoned
  BusyEnds
