CONSTANTS
  Virtual = {v1, v2, v3}
  Physical = {p1}
  Move = {m1, m2}
  NoColor = NoColor
SPECIFICATION FairSpec
PROPERTY RoundEnds
CHECK_DEADLOCK FALSE
