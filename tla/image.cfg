\* Every fault of the network, the files and the process, and second attempts.
SPECIFICATION Spec
CONSTANTS
  m1 = m1
  m2 = m2
  Maps = {m1, m2}
  NoMap = NoMap
  Chunks = 2
  MaxVisits = 2
  MaxTaps = 3
  Faults = {"net", "io", "kill"}
INVARIANTS DialogProtects AllEndedMeansComplete
PROPERTIES MessagesAreTrue FirstDialogCloses
CHECK_DEADLOCK FALSE
