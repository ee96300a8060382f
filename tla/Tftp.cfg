SPECIFICATION Spec
CONSTANTS
  FILE = 3
  BLK = 1
  OPT = 2
  SEQ = 8
  Sid = {1, 2}
  TIMEOUT_COUNT = 1
  retrycnt = 2
  PortReuse = FALSE
  Wraps = {TRUE}
  Network = "reorder"
  MemTop = 3
INVARIANTS Integrity AckedStored IInv
CHECK_DEADLOCK FALSE
