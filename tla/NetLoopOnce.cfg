SPECIFICATION Spec
CONSTANTS
  NDev = 2
  ethrotate = 1
  retrycnt = 1
  Protocols = {"TFTP", "PING"}
  InitFails = {}
  NoMac = {}
  TIMEOUT_COUNT = 1
  ARP_TIMEOUT_COUNT = 3
  SlowTimer = 1
  RxBurst = 1
  Errors = 0
  MaxCommands = 2
INVARIANTS GaveUpAfterAll
CHECK_DEADLOCK FALSE
