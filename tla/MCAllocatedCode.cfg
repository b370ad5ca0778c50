CONSTANTS
  Block = {b1, b2}
  Entry = b1
  p1 = p1
  p2 = p2
  v1 = v1
  v2 = v2
  Physical = {p1, p2}
  Virtual = {v1, v2}
  Reg = {p1, p2, v1, v2}
  Value = {1, 2}
  Undefined = 0
  Code <- SmallCode
SPECIFICATION AllocSpec
INVARIANTS AllocTypeOK ReadsAgree GraphIsExact
CHECK_DEADLOCK FALSE
