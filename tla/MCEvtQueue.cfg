SPECIFICATION Spec
CONSTANTS
  EVENT_Q_SIZE = 5
  MAX_HANDLERS = 3
  Event = {16, 17}
  Data = {1, 2}
INVARIANT TypeOK
PROPERTY ImplementsFifo SlotStable
CHECK_DEADLOCK FALSE
