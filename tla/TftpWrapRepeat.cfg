SPECIFICATION Spec
CONSTANTS
  FILE = 5
  BLK = 1
  OPT = 2
  SEQ = 4
  Sid = {1, 2}
  TIMEOUT_COUNT = 1
  retrycnt = 1
  PortReuse = FALSE
  Wraps = {TRUE}
  Network = "repeat"
  MemTop = 5
INVARIANT Integrity
CHECK_DEADLOCK FALSE
