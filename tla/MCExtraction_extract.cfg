\* Names, entries, damage and what is in the way, one at a time or together.
SPECIFICATION Spec
CONSTANTS
  Cases <- ExtractCases
  Elsewhere = {1, 2}
  Faults = {"disk", "kill"}
  MaxFaults = 1
CHECK_DEADLOCK FALSE
INVARIANTS
  TypeOK
  RefusalLeavesNoTrace
  WhatIsWrittenIsHeld
  ArchiveSurvives
  FilesStayInside
  SuccessIsTheArchive
