CONSTANTS
  Virtual = {v1, v2, v3}
  Physical = {p1, p2}
  Move = {m1, m2}
  NoColor = NoColor
SPECIFICATION Spec
SYMMETRY Symmetry
PROPERTY GeorgeConservative
CHECK_DEADLOCK FALSE
