---------------------------- MODULE MCLiveMessage ----------------------------
(* Small instance of LiveMessage: every graph of three reachable blocks, so *)
(* nested and irreducible loops, self loops and loops through the entry.    *)
EXTENDS LiveMessage, TLC

CONSTANTS r1, r2

Instr(u, d) == [use |-> u, def |-> d, copy |-> FALSE]

\* No instruction; a use; a definition; an update; definition before use; a
\* copy from the other register.
SmallCode == {<<>>,
              <<Instr({r1}, {})>>, <<Instr({}, {r1})>>, <<Instr({r1}, {r1})>>,
              <<Instr({}, {r1}), Instr({r1}, {})>>, <<Instr({r2}, {r1})>>}

\* The constructor does not look at the code: start without any, and let
\* Rewrite() produce every combination of SmallCode.
MCInit == Init /\ code = [b \in Block |-> <<>>]
MCSpec == MCInit /\ [][Next]_vars /\ WF_vars(Compute)
=============================================================================
