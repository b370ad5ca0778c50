------------------------------ MODULE Coloring ------------------------------
(***************************************************************************)
(* What one round of register allocation promises to RegisterAllocate::    *)
(* runOn (src/machineir/pass/RegisterAllocate.cpp, 55-71): for a given     *)
(* conflict graph, either a register for everyone, or some registers to be *)
(* spilled first.  How it finds out is module InterfereGraph.              *)
(***************************************************************************)
CONSTANTS Virtual, Physical, NoColor

VARIABLES
  conflict,  \* the conflicts of every register
  color,     \* the register applyChanges() writes for it
  spilled,   \* what rewriteProgram() spills
  done       \* assignColors() is over

Node == Virtual \cup Physical

\* Everyone has a physical register, a physical one itself, and registers that
\* conflict have different ones.
Proper(c) ==
  /\ c \in [Node -> Physical]
  /\ \A p \in Physical : c[p] = p
  /\ \A a \in Node : \A b \in conflict[a] : {a, b} \subseteq Physical \/ c[a] # c[b]

Init ==
  /\ conflict \in [Node -> SUBSET Node]
  /\ color = [n \in Node |-> NoColor]
  /\ spilled = {}
  /\ done = FALSE

\* needRewrite() is false.
Assign(c) ==
  /\ ~done /\ Proper(c)
  /\ color' = c
  /\ done' = TRUE
  /\ UNCHANGED <<conflict, spilled>>

\* needRewrite() is true.
GiveUp(S) ==
  /\ ~done /\ S # {}
  /\ spilled' = S
  /\ done' = TRUE
  /\ UNCHANGED <<conflict, color>>

Next == \/ \E c \in [Node -> Physical] : Assign(c)
        \/ \E S \in SUBSET Virtual : GiveUp(S)

Spec == Init /\ [][Next]_<<conflict, color, spilled, done>>
=============================================================================
