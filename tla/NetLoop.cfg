SPECIFICATION FairSpec
CONSTANTS
  NDev = 3
  ethrotate = 1
  retrycnt = 5
  Protocols = {"TFTP", "PING", "BOOTP", "RARP"}
  InitFails = {1}
  NoMac = {0}
  TIMEOUT_COUNT = 2
  ARP_TIMEOUT_COUNT = 3
  SlowTimer = 1
  RxBurst = 1
  Errors = 1
  MaxCommands = 2
INVARIANTS TypeOK OnlyCurrentRuns Watched HaltedAtReturn GaveUpAfterAll PauseAfterAll
PROPERTY CommandEnds
CHECK_DEADLOCK FALSE
