--------------------------- MODULE MCAllocatedCode ---------------------------
(* Small instance of AllocatedCode: two blocks, two physical and two virtual *)
(* registers, code with copies from, to and between virtual registers, calls *)
(* and instructions with two results.                                        *)
EXTENDS AllocatedCode, TLC

CONSTANTS p1, p2, v1, v2

Instr(u, d) == [use |-> u, def |-> d, copy |-> FALSE]
Copy(s, d)  == [use |-> {s}, def |-> {d}, copy |-> TRUE]

\* Parameters arrive in p1, p2; a call takes p1 and overwrites p1, p2.
SmallCode == {<<>>,
              <<Copy(p1, v1), Copy(p2, v2)>>,
              <<Copy(p1, v2), Instr({v2}, {v1}), Instr({v1, v2}, {})>>,
              <<Copy(v2, p1), Instr({p1}, {p1, p2}), Copy(p1, v1)>>,
              <<Instr({v1}, {v1, v2}), Instr({v1, v2}, {})>>,
              <<Copy(v1, v2), Copy(v1, p1), Instr({v2, p1}, {})>>}

=============================================================================
