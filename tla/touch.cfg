\* Up to three fingers, a place outside of the view, and gestures that are cancelled.
SPECIFICATION TouchSpec
CONSTANTS
  Places <- Line
  MaxFingers = 3
  MinScale <- Smallest
  MaxScale = 1
INVARIANTS PinchIsSound
PROPERTIES FollowsFingers
CHECK_DEADLOCK FALSE
