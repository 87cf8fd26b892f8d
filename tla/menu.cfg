\* Two databases, two downloads and clearings that may overlap, every fault, fair.
SPECIFICATION Spec
CONSTANTS
  DbCount = 2
  MaxWorkers = 2
  Faults = {"net", "kill"}
INVARIANTS MissingIsBeingRepaired FailuresAreTold
PROPERTIES MenuThreadsEnd
CHECK_DEADLOCK FALSE
