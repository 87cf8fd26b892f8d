\* Two downloads at once, with a reader: no fault but a failed request.
SPECIFICATION FairSpec
CONSTANTS
  t1 = t1
  t2 = t2
  i1 = i1
  i2 = i2
  i3 = i3
  i4 = i4
  i5 = i5
  i6 = i6
  Threads = {t1, t2}
  Inodes = {i1, i2, i3, i4, i5, i6}
  NoFile = NoFile
  Chunks = 2
  MaxVersion = 1
  MaxStarts = 2
  Hole = Hole
  Skeleton = Skeleton
  ErrorPage = ErrorPage
  Faults = {"net"}
INVARIANTS QuietMeansWhole
PROPERTIES DownloadEnds
CHECK_DEADLOCK FALSE
