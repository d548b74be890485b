SPECIFICATION Spec
CONSTANTS
  Contexts = {"tick"}
  USB_ControlEndpointSize = 3
  CDC_TXRX_EPSIZE = 2
  USB_STREAM_TIMEOUT_MS = 1
  Size <- Sizes
  LineSize = 2
  Asked = {5, 6, 8}
  Command <- Commands
  MaxFaults = 1
CHECK_DEADLOCK FALSE
PROPERTY TaskEnds
