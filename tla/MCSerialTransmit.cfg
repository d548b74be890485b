SPECIFICATION Spec
CONSTANTS
  TX_DEPTH = 5
  WRAP_ADDS = 0
  Text = {"a", "b"}
  Empty = Empty
INVARIANT TypeOK HeadInStep
PROPERTY ImplementsFifo
