-------------------------- MODULE MCInterfereGraph --------------------------
(* Small instances of InterfereGraph for TLC.  The three sets are model values, *)
(* so every permutation of registers and of moves is a symmetry.               *)
EXTENDS InterfereGraph, TLC

Symmetry == Permutations(Virtual) \cup Permutations(Physical) \cup Permutations(Move)
=============================================================================
