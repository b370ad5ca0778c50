CONSTANTS
  Virtual = {v1, v2, v3}
  Physical = {p1, p2}
  Move = {m1, m2}
  NoColor = NoColor
SPECIFICATION Spec
SYMMETRY Symmetry
INVARIANTS TypeOK AssertionsHold ProperColoring AppliedIsTotal OnlyPotentialSpills DegreeIsSafe WorklistsSorted
PROPERTIES NoResurrection RoundShrinks ImplementsColoring
CHECK_DEADLOCK FALSE
