CONSTANTS
  Block = {b1, b2, b3}
  Entry = b1
  r1 = r1
  r2 = r2
  Reg = {r1, r2}
  Code <- SmallCode
SPECIFICATION MCSpec
INVARIANTS TypeOK ReversePostorder NoLostUpdate LeastSolution LiveIsLive
PROPERTIES PropagationGrows Terminates
