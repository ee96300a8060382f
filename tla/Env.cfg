SPECIFICATION Spec
CONSTANTS
  Name = {"ipaddr", "loadaddr", "baudrate", "serverip", "stdout"}
  Value = {"short", "long"}
  Size <- MCSize
  Default <- MCDefault
  Console = {"stdout"}
  Baudrate = {"baudrate"}
  Supported = {"short"}
  Cached = {"ipaddr", "loadaddr"}
  Loads = {"loadaddr"}
  Preset = {"loadaddr"}
  NetNames = {"ipaddr", "serverip"}
  Leases = {"ipaddr", "serverip"}
  ENV_SIZE = 5
  PAGE = 4
  I2C_RXTX_LEN = 4
  Ranges <- MCRanges
  Unset = "unset"
  Junk <- MCJunk
  MaxOps = 3
INVARIANTS TypeOK WellFormed CacheCurrent NetCurrent WriteExact OnlySaved
PROPERTIES SetenvMeaning FreshComesBack
