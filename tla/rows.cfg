SPECIFICATION Spec
CONSTANTS
  Jobs <- AllJobs
  MaxLines = 3
  MaxPasses = 2
INVARIANTS WholePictureOnce StagesAgree
PROPERTIES EveryCallBringsALine
CHECK_DEADLOCK FALSE
