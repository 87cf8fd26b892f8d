SPECIFICATION Spec
CONSTANTS
  BlockSize = 2
  Pictures <- SmallPictures
  Options <- AllOptions
  LaterOptions <- SecondOptions
  Runs = 2
INVARIANTS OnlyThePicture MovesAsAPicture EdgesAsAsked HeadersAgree
CHECK_DEADLOCK FALSE
