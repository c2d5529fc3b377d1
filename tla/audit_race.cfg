SPECIFICATION Spec
CONSTANTS
  w1 = w1
  w2 = w2
  w3 = w3
  Writers <- TwoWriters
  MaxId = 3
INVARIANT UntouchedVerifies
CHECK_DEADLOCK FALSE
