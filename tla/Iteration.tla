----------------------------- MODULE Iteration -----------------------------
(***************************************************************************)
(* The loops of the compiler over a list.  FoldLeft would do, but TLC      *)
(* works out its accumulator only when the last step asks for it, and the  *)
(* instructions of a long block are then nested in one another; a record   *)
(* is worked out when it is made.                                          *)
(***************************************************************************)
EXTENDS Integers, Sequences

\* Do(x, e) for every e of s, from the first to the last.
InTurn(Do(_, _), x, s) ==
    LET RECURSIVE Go(_)
        Go(p) == IF p.todo = <<>> THEN p.done
                 ELSE Go([done |-> Do(p.done, Head(p.todo)), todo |-> Tail(p.todo)])
    IN  Go([done |-> x, todo |-> s])
=============================================================================
