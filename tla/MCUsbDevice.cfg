SPECIFICATION Spec
CONSTANTS
  Contexts = {"loop", "tick"}
  USB_ControlEndpointSize = 3
  CDC_TXRX_EPSIZE = 2
  USB_STREAM_TIMEOUT_MS = 1
  Size <- Sizes
  LineSize = 2
  Asked = {5, 6, 8}
  Command <- Commands
  MaxFaults = 1
INVARIANT TypeOK AddressAgreed DataWhole EndpointKept
PROPERTY TransfersEnd UnplugEndsWait WaitTimesOut
CHECK_DEADLOCK FALSE
