CONSTANTS
  u1 = u1
  u2 = u2
  w1 = w1
  w2 = w2
  Uploads = {u1, u2}
  Workers = {}
  Size <- AtAndOver
  MaxSize = 1
  Faults = {}
SPECIFICATION Spec
INVARIANT
  OversizeIsRefused
CHECK_DEADLOCK FALSE
