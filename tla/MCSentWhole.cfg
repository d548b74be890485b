SPECIFICATION Spec
CONSTANTS
  TX_DEPTH = 5
  WRAP_ADDS = 0
  Text = {"a", "b"}
  Empty = Empty
INVARIANT SentWhole
