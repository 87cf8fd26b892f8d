SPECIFICATION Spec
CONSTANTS
  Streams <- AllStreams
  Modes <- AllModes
  Ahead = 1
  MaxPasses = 2
  MaxMcus = 3
INVARIANTS DecodedAsCoded DequantizedAsCoded NoEndlessWait
PROPERTIES ShownAsAsked EveryFinishEnds
CHECK_DEADLOCK FALSE
