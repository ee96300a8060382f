SPECIFICATION FairSpec
CONSTANTS
  FILE = 5
  BLK = 1
  OPT = 2
  SEQ = 4
  Sid = {1, 2}
  TIMEOUT_COUNT = 1
  retrycnt = 2
  PortReuse = FALSE
  Wraps = {TRUE, FALSE}
  Network = "once"
  MemTop = 5
INVARIANTS Integrity Watched
PROPERTY Terminates
CHECK_DEADLOCK FALSE
