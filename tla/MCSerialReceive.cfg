SPECIFICATION Spec
CONSTANTS
  USB_SERIAL_BUF_SZ = 5
  RX_DEPTH = 2
  MAX_ARGS = 2
  QUEUE = 2
  Char = {"x", "SP", "BS", "CR"}
  NUL = NUL
  None = None
INVARIANT TypeOK Terminated ParsedAsSent
