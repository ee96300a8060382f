SPECIFICATION Spec
CONSTANTS
  USB_MAX_XFER_BLK = 2
  Counts = {3}
  PacketsPerBlock = 1
  TagMod = 2
  INQUIRY_TRIES = 2
  READY_TRIES = 2
  CAPACITY_TRIES = 2
  RW_TRIES = 3
  MaxCalls = 2
  MaxFaults = 3
INVARIANTS CountIsTrue FaultsHidden NoMediumIsTrue IInv
PROPERTY Closer
CHECK_DEADLOCK FALSE
