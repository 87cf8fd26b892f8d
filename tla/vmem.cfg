SPECIFICATION Spec
CONSTANTS
  zero = zero
  a = a
  Rows = 5
  MaxAccess = 2
  Memory <- MCMemory
  Chunks <- MCChunks
  Values <- MCValues
  Zero = zero
  Garbage = a
INVARIANTS WindowIsSafe
PROPERTIES BehavesAsPlainArray
