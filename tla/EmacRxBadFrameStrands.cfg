SPECIFICATION Spec
CONSTANTS
  NUM_RX_BUFF = 4
  MaxFrames = 6
  MaxInits = 2
INVARIANT RcvDoesAll
CHECK_DEADLOCK FALSE
