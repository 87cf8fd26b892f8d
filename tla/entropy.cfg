SPECIFICATION Spec
CONSTANTS
  LimSe = 5
  MaxRun = 2
  MaxCorrBits = 7
  ByteBits = 3
  RestartNumbers = 6
  Lookahead = 2
  MaxLen = 4
  MaxClen = 8
  MinGetBits = 5
  Files <- SomeFiles
INVARIANTS PassesAgree TableIsSound DecodedInPlace KeepsInStep
