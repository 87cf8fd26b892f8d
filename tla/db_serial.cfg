\* One download at a time: faults, kills and a reader at every step.
SPECIFICATION SerialSpec
CONSTANTS
  t1 = t1
  i1 = i1
  i2 = i2
  i3 = i3
  i4 = i4
  i5 = i5
  Threads = {t1}
  Inodes = {i1, i2, i3, i4, i5}
  NoFile = NoFile
  Chunks = 2
  MaxVersion = 2
  MaxStarts = 3
  Hole = Hole
  Skeleton = Skeleton
  ErrorPage = ErrorPage
  Faults = {"net", "io", "kill"}
SYMMETRY Interchangeable
INVARIANTS SoundDatabase
PROPERTIES ReaderSnapshot SuccessMeansInstalled ImplementsInstaller
CHECK_DEADLOCK FALSE
