\* PhiCopies on all phis over four registers and one other operand: among them
\* two cycles of two, cycles of three and four, chains into cycles and trees.
CONSTANTS
  Dest = {d1, d2, d3, d4}
  Source = {s1}
  Temp = {t1, t2, t3}
SPECIFICATION FairSpec
INVARIANTS TypeOK ParallelAssignment CycleAssertHolds OneTempPerCycle
PROPERTY Terminates
CHECK_DEADLOCK FALSE
