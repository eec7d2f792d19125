SPECIFICATION Spec
CONSTANTS
  Mice = {"mouse"}
  Keyboards = {"keyboard"}
  Keys = {1, 2}
  BTN_MOUSE = 1
  Disciplined = TRUE
  MaxStrokes = 3
  MaxRequests = 3
INVARIANTS RecordedInPressOrder SourceFollowsKeyboard StrokesInOrder
CHECK_DEADLOCK FALSE
